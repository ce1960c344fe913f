------------------------------ MODULE Gateway ------------------------------
(***************************************************************************)
(* communication/capture: CommunicationGateway around the turns of one      *)
(* session.  RouteInbound registers the message's cancel func, cancels the  *)
(* one it finds, calls ProcessMessage (SessionTurns) and leaves a goroutine  *)
(* that reads the turn's events, unregisters and cancels.  /stop cancels     *)
(* what is registered.  Contexts end in no other way: the adapters pass one  *)
(* that lives as long as the process.                                        *)
(*                                                                           *)
(* Left out: what the user sees of an event (stoppedSessions, TurnTracker,    *)
(* the presenters), the store, the event bus, which nothing wires             *)
(* (SetEventBus has no caller), and Entry.Cancel, whose InterruptHandler is    *)
(* built without cancelers and so does nothing.                               *)
(***************************************************************************)
EXTENDS SessionTurns

CONSTANT MaxStops    \* bound: stops of the session

ASSUME GatewayAssumption == MaxStops \in Nat /\ Cancelling = Message

VARIABLES
  active,   \* whose cancel func activeProcesses holds, or NoMessage
  rd,       \* where RouteInbound and its goroutine are
  lost,     \* history: messages whose entry another's unregistration took
  stops     \* how often the session was stopped

gvars == <<active, rd, lost, stops>>
allVars == <<vars, gvars>>

GatewayTypeOK ==
  /\ TypeOK
  /\ active \in Message \cup {NoMessage}
  /\ rd \in [Message -> {"new", "live", "over"}]
  /\ lost \subseteq Message
  /\ stops \in 0 .. MaxStops

GatewayInit ==
  /\ Init
  /\ active = NoMessage
  /\ rd = [m \in Message |-> "new"]
  /\ lost = {}
  /\ stops = 0

CancelAll(S) ==
  /\ gone' = gone \cup S
  /\ UNCHANGED <<handle, ended, pc, waitOn, pending>>

-----------------------------------------------------------------------------
\* registerProcess: the process found is cancelled and forgotten.  The mutant
\* only forgets it.
RegisterMutant(m) ==
  /\ rd[m] = "new"
  /\ active' = m
  /\ rd' = [rd EXCEPT ![m] = "live"]
  /\ UNCHANGED <<vars, lost, stops>>
Register(m) ==
  /\ rd[m] = "new"
  /\ CancelAll({active} \ {NoMessage})
  /\ active' = m
  /\ rd' = [rd EXCEPT ![m] = "live"]
  /\ UNCHANGED <<lost, stops>>

\* ProcessMessage, in RouteInbound up to the route, then in goroutines.
Process(m) ==
  /\ rd[m] # "new"
  /\ WaitTurn(m) \/ MessageStep(m)
  /\ UNCHANGED gvars

\* It has returned the channel that handleEngineEvents reads.
Returned(m) == pc[m] \notin {"new", "wait", "route", "failed"}
Closed(m) == pc[m] \in {"done", "noTurn"} /\ pending[m] = 0

Read(m) ==
  /\ rd[m] = "live" /\ Returned(m)
  /\ Deliver(m)
  /\ UNCHANGED gvars

\* unregisterProcess deletes the entry of the session, whosoever it is, and the
\* context is cancelled.  The mutant only cancels.
UnregisterMutant(m) ==
  /\ CancelAll({m})
  /\ rd' = [rd EXCEPT ![m] = "over"]
  /\ UNCHANGED <<active, lost, stops>>
Unregister(m) ==
  /\ CancelAll({m})
  /\ active' = NoMessage
  /\ lost' = lost \cup ({active} \ {m, NoMessage})
  /\ rd' = [rd EXCEPT ![m] = "over"]
  /\ UNCHANGED stops

\* ProcessMessage returns an error.
Fails(m) ==
  /\ rd[m] = "live" /\ pc[m] = "failed"
  /\ Unregister(m)

\* The reader finds the channel closed, or the context done: then it takes what
\* is there and leaves, though the turn goes on and the forwarders of
\* processAutoClose may hold events that nobody will read.
Leaves(m) ==
  /\ rd[m] = "live" /\ Returned(m)
  /\ Closed(m) \/ m \in gone
  /\ Unregister(m)

\* Stop: /stop, and the old session of /new.
Stop ==
  /\ stops < MaxStops
  /\ CancelAll({active} \ {NoMessage})
  /\ active' = NoMessage
  /\ stops' = stops + 1
  /\ UNCHANGED <<rd, lost>>

GatewayStep(m) == Read(m) \/ Fails(m) \/ Leaves(m)

GatewayNext ==
  \/ \E m \in Message : Register(m) \/ Process(m) \/ GatewayStep(m)
  \/ Stop

GatewaySpec == GatewayInit /\ [][GatewayNext]_allVars

\* Goroutines run, and the gateway reads as long as the context is alive.
GatewayFairSpec ==
  /\ GatewaySpec
  /\ \A m \in Message :
       /\ WF_allVars(Process(m))
       /\ WF_allVars(GatewayStep(m))

-----------------------------------------------------------------------------
\* An entry of activeProcesses belongs to a message whose goroutine has yet to
\* unregister, whichever of them unregisters first: HasActiveProcess never
\* claims a process that is over, for which the events of background agents
\* would be thrown away (sessionagents).
ActiveIsLive ==
  \A m \in Message : active = m => rd[m] = "live"

\* A message whose context is cancelled comes to its end, and so does its turn,
\* although its reader may leave while the channel is full.
CancelledEnds ==
  \A m \in Message :
    (m \in gone) ~> (rd[m] = "over" /\ pc[m] \in {"done", "noTurn", "failed"})

\* A running turn can be interrupted, by a newer message or by /stop: its cancel
\* func is registered, or was called, or was taken by an older message of the
\* session that unregistered late.
TurnInReach ==
  \A m \in Message : pc[m] \in InTurn => active = m \/ m \in gone \/ m \in lost
=============================================================================
