---------------------------- MODULE SessionTurns ----------------------------
(***************************************************************************)
(* sessionorchestrator: the messages of one session.  ProcessMessage waits  *)
(* for the turn in progress (TurnState.WaitTurn), classifies the message    *)
(* and spawns RunSessionTurnLoop, which claims the turn (BeginTurn), runs   *)
(* pipeline rounds, emits events on a buffered channel, and gives the turn  *)
(* back before the channel is closed.  Sessions share nothing.  One message *)
(* is one call of ProcessMessage; what a round does to the work tree is     *)
(* left out.                                                                *)
(***************************************************************************)
EXTENDS Naturals

CONSTANTS
  Message,
  NoMessage,
  Buffer,      \* capacity of a turn's event channel
  Cancelling   \* messages whose context may be cancelled

ASSUME MessageAssumption == NoMessage \notin Message
ASSUME BufferAssumption == Buffer \in Nat \ {0}
ASSUME CancellingAssumption == Cancelling \subseteq Message

VARIABLES
  handle,     \* whose turn handle the session has in TurnState, or NoMessage
  ended,      \* messages whose handle's done channel is closed
  pc,         \* where each message is
  waitOn,     \* the handle a waiting WaitTurn has read
  pending,    \* events in each message's channel
  gone        \* messages whose context is cancelled

vars == <<handle, ended, pc, waitOn, pending, gone>>

PC == {"new", "wait", "route", "begin", "loop", "complete", "endTurn",
       "rejected", "close", "done", "noTurn", "failed"}
InTurn == {"loop", "complete", "endTurn"}

\* The event buffer is never overrun.
TypeOK ==
  /\ handle \in Message \cup {NoMessage}
  /\ ended \subseteq Message
  /\ pc \in [Message -> PC]
  /\ waitOn \in [Message -> Message \cup {NoMessage}]
  /\ pending \in [Message -> 0 .. Buffer]
  /\ gone \subseteq Cancelling

Init ==
  /\ handle = NoMessage
  /\ ended = {}
  /\ pc = [m \in Message |-> "new"]
  /\ waitOn = [m \in Message |-> NoMessage]
  /\ pending = [m \in Message |-> 0]
  /\ gone = {}

Goto(m, p) == pc' = [pc EXCEPT ![m] = p]

\* emit blocks while the buffer is full, and may drop the event once the
\* context is done.  The mutant waits for room alone.
EmitMutant(m) == pending[m] < Buffer /\ pending' = [pending EXCEPT ![m] = @ + 1]
Emit(m) ==
  \/ pending[m] < Buffer /\ pending' = [pending EXCEPT ![m] = @ + 1]
  \/ m \in gone /\ UNCHANGED pending

-----------------------------------------------------------------------------
\* WaitTurn reads the session's handle.
WaitTurn(m) ==
  /\ pc[m] = "new"
  /\ waitOn' = [waitOn EXCEPT ![m] = handle]
  /\ Goto(m, "wait")
  /\ UNCHANGED <<handle, ended, pending, gone>>

\* It returns when there is none, or its done channel is closed ...
WaitReturns(m) ==
  /\ pc[m] = "wait"
  /\ waitOn[m] = NoMessage \/ waitOn[m] \in ended
  /\ waitOn' = [waitOn EXCEPT ![m] = NoMessage]
  /\ Goto(m, "route")
  /\ UNCHANGED <<handle, ended, pending, gone>>

\* ... or with the context's error, which ProcessMessage returns.
WaitFails(m) ==
  /\ pc[m] = "wait" /\ m \in gone
  /\ waitOn[m] # NoMessage
  /\ waitOn' = [waitOn EXCEPT ![m] = NoMessage]
  /\ Goto(m, "failed")
  /\ UNCHANGED <<handle, ended, pending, gone>>

\* The message is classified: it is work for RunSessionTurnLoop, or it is
\* skipped, a command or a resumed decision, or ProcessMessage fails.
Route(m) ==
  /\ pc[m] = "route"
  /\ \E p \in {"begin", "noTurn", "failed"} : Goto(m, p)
  /\ UNCHANGED <<handle, ended, waitOn, pending, gone>>

\* BeginTurn reserves the turn.  The mutant trusts the gate.
BeginTurnMutant(m) ==
  /\ pc[m] = "begin"
  /\ handle' = m
  /\ Goto(m, "loop")
  /\ UNCHANGED <<ended, waitOn, pending, gone>>
BeginTurn(m) ==
  /\ pc[m] = "begin" /\ handle = NoMessage
  /\ handle' = m
  /\ Goto(m, "loop")
  /\ UNCHANGED <<ended, waitOn, pending, gone>>

\* TurnInProgressError: the goroutine emits an error and closes its channel.
BeginRefused(m) ==
  /\ pc[m] = "begin" /\ handle # NoMessage
  /\ Goto(m, "rejected")
  /\ UNCHANGED <<handle, ended, waitOn, pending, gone>>

EmitRefusal(m) ==
  /\ pc[m] = "rejected"
  /\ Emit(m)
  /\ Goto(m, "close")
  /\ UNCHANGED <<handle, ended, waitOn, gone>>

\* A round, or a wait for running children: the loop goes on, is done, or the
\* turn ends with an error, an escalation or a human review.  The head of the
\* loop has found the context alive.
Round(m) ==
  /\ pc[m] = "loop" /\ m \notin gone
  /\ Emit(m)
  /\ \E p \in {"loop", "complete", "endTurn"} : Goto(m, p)
  /\ UNCHANGED <<handle, ended, waitOn, gone>>

\* Nothing is in focus: the loop is left.
LoopDone(m) ==
  /\ pc[m] = "loop"
  /\ Goto(m, "complete")
  /\ UNCHANGED <<handle, ended, waitOn, pending, gone>>

\* The context is seen cancelled at the head of the loop.
LoopCancelled(m) ==
  /\ pc[m] = "loop" /\ m \in gone
  /\ Emit(m)
  /\ Goto(m, "endTurn")
  /\ UNCHANGED <<handle, ended, waitOn, gone>>

\* The complete event.
Complete(m) ==
  /\ pc[m] = "complete"
  /\ Emit(m)
  /\ Goto(m, "endTurn")
  /\ UNCHANGED <<handle, ended, waitOn, gone>>

\* EndTurn, the first deferred call to run: close(done) and drop the handle.
\* The mutant drops the handle only.
EndTurnMutant(m) ==
  /\ pc[m] = "endTurn"
  /\ handle' = NoMessage
  /\ Goto(m, "close")
  /\ UNCHANGED <<ended, waitOn, pending, gone>>
EndTurn(m) ==
  /\ pc[m] = "endTurn"
  /\ IF handle = NoMessage THEN UNCHANGED <<handle, ended>>
     ELSE handle' = NoMessage /\ ended' = ended \cup {handle}
  /\ Goto(m, "close")
  /\ UNCHANGED <<waitOn, pending, gone>>

\* close(out), the last deferred call to run.
CloseOut(m) ==
  /\ pc[m] = "close"
  /\ Goto(m, "done")
  /\ UNCHANGED <<handle, ended, waitOn, pending, gone>>

\* The gateway takes an event off the channel.
Deliver(m) ==
  /\ pending[m] > 0
  /\ pending' = [pending EXCEPT ![m] = @ - 1]
  /\ UNCHANGED <<handle, ended, pc, waitOn, gone>>

Cancel(m) ==
  /\ m \in Cancelling \ gone
  /\ gone' = gone \cup {m}
  /\ UNCHANGED <<handle, ended, pc, waitOn, pending>>

MessageStep(m) ==
  \/ WaitReturns(m) \/ WaitFails(m) \/ Route(m)
  \/ BeginTurn(m) \/ BeginRefused(m) \/ EmitRefusal(m)
  \/ Round(m) \/ LoopDone(m) \/ LoopCancelled(m) \/ Complete(m)
  \/ EndTurn(m) \/ CloseOut(m)

Next ==
  \E m \in Message : WaitTurn(m) \/ MessageStep(m) \/ Deliver(m) \/ Cancel(m)

Spec == Init /\ [][Next]_vars

-----------------------------------------------------------------------------
\* The session's handle belongs to the one message that is between BeginTurn
\* and EndTurn: two turns of a session never run at once, and no handle
\* outlives its turn, which would block the session for ever.
TurnExclusive ==
  \A m \in Message : pc[m] \in InTurn <=> handle = m

\* A message that waits for a turn goes on once that turn is over, although
\* EndTurn purges the handle it waits on and others may claim the turn first.
WaitersProceed ==
  \A m \in Message :
    (pc[m] = "wait" /\ waitOn[m] # NoMessage /\ pc[waitOn[m]] = "done") ~> pc[m] # "wait"
=============================================================================
