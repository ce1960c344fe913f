---------------------------- MODULE GatewayProofs ----------------------------
(***************************************************************************)
(* What holds of the turns of a session, for any messages and any buffer,   *)
(* and of the gateway around them, for any number of stops.                 *)
(***************************************************************************)
EXTENDS Gateway, TLAPS

(***************************************************************************)
(* The turns of a session                                                  *)
(***************************************************************************)

USE MessageAssumption, BufferAssumption, CancellingAssumption

\* An emitted event fits in the buffer.
LEMMA EmitType ==
  ASSUME TypeOK, NEW m \in Message, Emit(m)
  PROVE  pending' \in [Message -> 0 .. Buffer]
<1>1. CASE pending[m] < Buffer /\ pending' = [pending EXCEPT ![m] = @ + 1]
  <2>1. pending[m] + 1 \in 0 .. Buffer
    BY <1>1 DEF TypeOK
  <2>2. QED
    BY <1>1, <2>1 DEF TypeOK
<1>2. CASE UNCHANGED pending
  BY <1>2 DEF TypeOK
<1>3. QED
  BY <1>1, <1>2 DEF Emit

\* Every step keeps the types.
LEMMA TypeInductive == TypeOK /\ [Next]_vars => TypeOK'
<1> SUFFICES ASSUME TypeOK, [Next]_vars
             PROVE  TypeOK'
  OBVIOUS
<1> USE DEF Goto, PC
<1>1. CASE UNCHANGED vars
  BY <1>1 DEF vars, TypeOK
<1>2. ASSUME NEW m \in Message,
             BeginRefused(m) \/ LoopDone(m) \/ CloseOut(m)
      PROVE  TypeOK'
  <2>1. pc' \in [Message -> PC]
    BY <1>2 DEF TypeOK, BeginRefused, LoopDone, CloseOut
  <2>2. UNCHANGED <<handle, ended, waitOn, pending, gone>>
    BY <1>2 DEF BeginRefused, LoopDone, CloseOut
  <2>3. QED
    BY <2>1, <2>2 DEF TypeOK
<1>3. ASSUME NEW m \in Message, WaitTurn(m) \/ WaitReturns(m) \/ WaitFails(m)
      PROVE  TypeOK'
  BY <1>3 DEF WaitTurn, WaitReturns, WaitFails, TypeOK
<1>4. ASSUME NEW m \in Message, Route(m)
      PROVE  TypeOK'
  BY <1>4 DEF Route, TypeOK
<1>5. ASSUME NEW m \in Message, BeginTurn(m)
       PROVE  TypeOK'
  BY <1>5 DEF BeginTurn, TypeOK
<1>6. ASSUME NEW m \in Message, Cancel(m)
       PROVE  TypeOK'
  BY <1>6 DEF Cancel, TypeOK
<1>7. ASSUME NEW m \in Message,
             EmitRefusal(m) \/ LoopCancelled(m) \/ Complete(m)
      PROVE  TypeOK'
  <2>1. pending' \in [Message -> 0 .. Buffer]
    BY <1>7, EmitType DEF EmitRefusal, LoopCancelled, Complete
  <2>2. pc' \in [Message -> PC] /\ UNCHANGED <<handle, ended, waitOn, gone>>
    BY <1>7 DEF EmitRefusal, LoopCancelled, Complete, TypeOK
  <2>3. QED
    BY <2>1, <2>2 DEF TypeOK
<1>8. ASSUME NEW m \in Message, Round(m)
      PROVE  TypeOK'
  <2>1. pending' \in [Message -> 0 .. Buffer]
    BY <1>8, EmitType DEF Round
  <2>2. pc' \in [Message -> PC]
    BY <1>8 DEF Round, TypeOK
  <2>3. UNCHANGED <<handle, ended, waitOn, gone>>
    BY <1>8 DEF Round
  <2>4. QED
    BY <2>1, <2>2, <2>3 DEF TypeOK
<1>9. ASSUME NEW m \in Message, EndTurn(m)
      PROVE  TypeOK'
  BY <1>9 DEF EndTurn, TypeOK
<1>10. ASSUME NEW m \in Message, Deliver(m)
      PROVE  TypeOK'
  <2>1. pending[m] - 1 \in 0 .. Buffer
    BY <1>10 DEF Deliver, TypeOK
  <2>2. QED
    BY <1>10, <2>1 DEF Deliver, TypeOK
<1>11. QED
  BY <1>1, <1>2, <1>7, <1>8, <1>9, <1>10, <1>3, <1>4, <1>5, <1>6
  DEF Next, MessageStep

\* The state is well typed for any number of messages.
THEOREM TypeCorrect == Spec => []TypeOK
<1>1. Init => TypeOK
  BY DEF Init, TypeOK, PC
<1>2. QED
  BY <1>1, TypeInductive, PTL DEF Spec

-----------------------------------------------------------------------------
\* The handle changes hands only in BeginTurn and EndTurn, with the turn.
LEMMA ExclusiveInductive ==
  ASSUME TypeOK, TurnExclusive, [Next]_vars
  PROVE  TurnExclusive'
<1> USE DEF TurnExclusive, Goto, InTurn, PC
<1>1. CASE UNCHANGED vars
  BY <1>1 DEF vars
<1>2. ASSUME NEW m \in Message,
             WaitTurn(m) \/ WaitReturns(m) \/ WaitFails(m) \/ Route(m)
      PROVE  TurnExclusive'
  BY <1>2 DEF TypeOK, WaitTurn, WaitReturns, WaitFails, Route
<1>3. ASSUME NEW m \in Message, BeginTurn(m)
      PROVE  TurnExclusive'
  BY <1>3 DEF BeginTurn, TypeOK
<1>4. ASSUME NEW m \in Message,
             BeginRefused(m) \/ EmitRefusal(m) \/ CloseOut(m)
      PROVE  TurnExclusive'
  BY <1>4 DEF BeginRefused, EmitRefusal, CloseOut, TypeOK
<1>5. ASSUME NEW m \in Message,
             Round(m) \/ LoopDone(m) \/ LoopCancelled(m) \/ Complete(m)
      PROVE  TurnExclusive'
  BY <1>5 DEF Round, LoopDone, LoopCancelled, Complete, TypeOK
<1>6. ASSUME NEW m \in Message, EndTurn(m)
      PROVE  TurnExclusive'
  <2>1. handle = m
    BY <1>6 DEF EndTurn
  <2>2. handle' = NoMessage /\ pc' = [pc EXCEPT ![m] = "close"]
    BY <1>6, <2>1 DEF EndTurn
  <2>3. QED
    BY <2>1, <2>2 DEF TypeOK
<1>7. ASSUME NEW m \in Message, Deliver(m) \/ Cancel(m)
      PROVE  TurnExclusive'
  BY <1>7 DEF Deliver, Cancel
<1>8. QED
  BY <1>1, <1>2, <1>3, <1>4, <1>5, <1>6, <1>7 DEF Next, MessageStep

\* One turn at a time, however many messages race between WaitTurn and
\* BeginTurn, and the handle never outlives its turn.
THEOREM OneTurn == Spec => []TurnExclusive
<1>1. Init => TurnExclusive
  BY DEF Init, TurnExclusive, InTurn
<1>2. TypeOK /\ TurnExclusive /\ [Next]_vars => TurnExclusive'
  BY ExclusiveInductive
<1>3. QED
  BY <1>1, <1>2, TypeCorrect, PTL DEF Spec

(***************************************************************************)
(* The gateway around them                                                 *)
(***************************************************************************)

USE GatewayAssumption

\* Whatever the gateway does is a step of SessionTurns or leaves it alone: each
\* step ends at most one context that was alive.
LEMMA StepImplements ==
  ASSUME GatewayTypeOK, [GatewayNext]_allVars
  PROVE  [Next]_vars
<1> USE DEF GatewayTypeOK, TypeOK, Cancel, vars
<1>1. ASSUME NEW m \in Message, CancelAll({m})
      PROVE  [Next]_vars
  <2>1. CASE m \in gone
    BY <1>1, <2>1 DEF CancelAll
  <2>2. CASE m \notin gone
    <3>1. Cancel(m)
      BY <1>1, <2>2 DEF CancelAll
    <3>2. QED
      BY <3>1 DEF Next
  <2>3. QED
    BY <2>1, <2>2
<1>2. ASSUME CancelAll({active} \ {NoMessage})
      PROVE  [Next]_vars
  <2>1. CASE active = NoMessage
    BY <1>2, <2>1 DEF CancelAll
  <2>2. CASE active \in Message
    <3>1. {active} \ {NoMessage} = {active}
      BY <2>2
    <3>2. QED
      BY <1>1, <1>2, <2>2, <3>1
  <2>3. QED
    BY <2>1, <2>2
<1>3. ASSUME NEW m \in Message, Register(m)
      PROVE  [Next]_vars
  BY <1>2, <1>3 DEF Register
<1>4. ASSUME NEW m \in Message, Process(m) \/ Read(m)
      PROVE  [Next]_vars
  BY <1>4 DEF Process, Read, Next
<1>5. ASSUME NEW m \in Message, Fails(m) \/ Leaves(m)
      PROVE  [Next]_vars
  BY <1>1, <1>5 DEF Fails, Leaves, Unregister
<1>6. CASE Stop
  BY <1>2, <1>6 DEF Stop
<1>7. CASE UNCHANGED allVars
  BY <1>7 DEF allVars
<1>8. QED
  BY <1>3, <1>4, <1>5, <1>6, <1>7 DEF GatewayNext, GatewayStep

\* The gateway's own variables keep their types.
LEMMA GatewayTypeInductive ==
  ASSUME GatewayTypeOK, [GatewayNext]_allVars
  PROVE  GatewayTypeOK'
<1> USE DEF GatewayTypeOK
<1>1. TypeOK'
  BY StepImplements, TypeInductive
<1>2. ASSUME NEW m \in Message, Register(m)
      PROVE  GatewayTypeOK'
  BY <1>1, <1>2 DEF Register
<1>3. ASSUME NEW m \in Message, Process(m) \/ Read(m)
      PROVE  GatewayTypeOK'
  BY <1>1, <1>3 DEF Process, Read, gvars
<1>4. ASSUME NEW m \in Message, Fails(m) \/ Leaves(m)
      PROVE  GatewayTypeOK'
  BY <1>1, <1>4 DEF Fails, Leaves, Unregister
<1>5. CASE Stop
  BY <1>1, <1>5 DEF Stop
<1>6. CASE UNCHANGED allVars
  BY <1>1, <1>6 DEF allVars, gvars
<1>7. QED
  BY <1>2, <1>3, <1>4, <1>5, <1>6 DEF GatewayNext, GatewayStep

LEMMA GatewayInitType == GatewayInit => GatewayTypeOK
<1>1. Init => TypeOK
  BY DEF Init, TypeOK, PC
<1>2. QED
  BY <1>1 DEF GatewayInit, GatewayTypeOK

\* The state is well typed for any number of messages and stops.
THEOREM GatewayTypeCorrect == GatewaySpec => []GatewayTypeOK
<1>1. GatewayTypeOK /\ [GatewayNext]_allVars => GatewayTypeOK'
  BY GatewayTypeInductive
<1>2. QED
  BY <1>1, GatewayInitType, PTL DEF GatewaySpec

\* The composition implements SessionTurns, so what is proved of the turns is
\* true under the gateway.
THEOREM ImplementsTurns == GatewaySpec => Spec
<1>1. GatewayInit => Init
  BY DEF GatewayInit
<1>2. GatewayTypeOK /\ [GatewayNext]_allVars => [Next]_vars
  BY StepImplements
<1>3. QED
  BY <1>1, <1>2, GatewayTypeCorrect, PTL DEF GatewaySpec, Spec

\* One turn at a time, with interruptions and stops.
THEOREM OneTurnUnderGateway == GatewaySpec => []TurnExclusive
  BY ImplementsTurns, OneTurn, PTL

-----------------------------------------------------------------------------
\* A message that has arrived can be interrupted, was, or lost its entry; one
\* that is over was cancelled, and only one that has arrived is processed.
InReach ==
  \A m \in Message :
    /\ pc[m] # "new" => rd[m] # "new"
    /\ rd[m] # "new" => active = m \/ m \in gone \/ m \in lost

\* Only Process takes a message on.
LEMMA OthersKeepPlace ==
  ASSUME GatewayTypeOK, [GatewayNext]_allVars,
         ~ \E n \in Message : Process(n)
  PROVE  UNCHANGED pc
BY DEF GatewayNext, GatewayStep, Register, Read, Deliver, Fails, Leaves,
  Unregister, Stop, CancelAll, allVars, vars

\* Contexts that are done stay done.
LEMMA GoneStays ==
  ASSUME [Next]_vars
  PROVE  gone \subseteq gone'
BY DEF Next, MessageStep, WaitTurn, WaitReturns, WaitFails, Route, BeginTurn,
  BeginRefused, EmitRefusal, Round, LoopDone, LoopCancelled, Complete, EndTurn,
  CloseOut, Deliver, Cancel, vars

\* The step of a message moves that message only.
LEMMA StepMovesOne ==
  ASSUME TypeOK, NEW n \in Message, WaitTurn(n) \/ MessageStep(n),
         NEW m \in Message \ {n}
  PROVE  pc'[m] = pc[m]
BY DEF MessageStep, WaitTurn, WaitReturns, WaitFails, Route, BeginTurn,
  BeginRefused, EmitRefusal, Round, LoopDone, LoopCancelled, Complete, EndTurn,
  CloseOut, Goto, TypeOK

LEMMA InReachInductive ==
  ASSUME GatewayTypeOK, InReach, [GatewayNext]_allVars
  PROVE  InReach'
<1> USE DEF InReach
<1>1. gone \subseteq gone'
  BY StepImplements, GoneStays
<1>2. ASSUME NEW n \in Message, Register(n)
      PROVE  InReach'
  <2>1. ASSUME NEW m \in Message
        PROVE  /\ pc'[m] # "new" => rd'[m] # "new"
               /\ rd'[m] # "new" => active' = m \/ m \in gone' \/ m \in lost'
    BY <1>2 DEF Register, CancelAll, GatewayTypeOK
  <2>2. QED
    BY <2>1
<1>3. ASSUME NEW n \in Message, Process(n)
      PROVE  InReach'
  <2>1. ASSUME NEW m \in Message
        PROVE  pc'[m] # "new" => rd'[m] # "new"
    <3>1. CASE m = n
      BY <1>3, <3>1 DEF Process, gvars
    <3>2. CASE m # n
      BY <1>3, <3>2, StepMovesOne DEF Process, gvars, GatewayTypeOK
    <3>3. QED
      BY <3>1, <3>2
  <2>2. QED
    BY <1>1, <1>3, <2>1 DEF Process, gvars
<1>4. ASSUME NEW n \in Message, Read(n)
      PROVE  InReach'
  BY <1>4 DEF Read, Deliver, gvars
<1>5. ASSUME NEW n \in Message, Fails(n) \/ Leaves(n)
      PROVE  InReach'
  <2>1. /\ gone' = gone \cup {n} /\ pc' = pc
        /\ lost' = lost \cup ({active} \ {n, NoMessage})
        /\ rd' = [rd EXCEPT ![n] = "over"]
    BY <1>5 DEF Fails, Leaves, Unregister, CancelAll
  <2>2. ASSUME NEW m \in Message
        PROVE  /\ pc'[m] # "new" => rd'[m] # "new"
               /\ rd'[m] # "new" => active' = m \/ m \in gone' \/ m \in lost'
    BY <2>1 DEF GatewayTypeOK
  <2>3. QED
    BY <2>2
<1>6. CASE Stop
  BY <1>6 DEF Stop, CancelAll, GatewayTypeOK
<1>7. CASE UNCHANGED allVars
  BY <1>7 DEF allVars, gvars, vars
<1>8. QED
  BY <1>2, <1>3, <1>4, <1>5, <1>6, <1>7 DEF GatewayNext, GatewayStep

\* Whoever runs a turn can be interrupted, was, or lost its entry to an older
\* message: nothing else takes a running turn out of reach.
THEOREM TurnInReachHolds == GatewaySpec => []TurnInReach
<1>1. GatewayInit => InReach
  BY DEF GatewayInit, Init, InReach
<1>2. GatewayTypeOK /\ InReach /\ [GatewayNext]_allVars => InReach'
  BY InReachInductive
<1>3. InReach => TurnInReach
  BY DEF InReach, TurnInReach, InTurn
<1>4. QED
  BY <1>1, <1>2, <1>3, GatewayTypeCorrect, PTL DEF GatewaySpec

\* The entry of a session is never that of a message that is over, in whatever
\* order the goroutines of its messages unregister.
THEOREM ActiveIsLiveHolds == GatewaySpec => []ActiveIsLive
<1>1. GatewayInit => ActiveIsLive
  BY DEF GatewayInit, ActiveIsLive
<1>2. ASSUME GatewayTypeOK, ActiveIsLive, [GatewayNext]_allVars
      PROVE  ActiveIsLive'
  <2>1. ASSUME NEW n \in Message, Register(n)
        PROVE  ActiveIsLive'
    BY <1>2, <2>1 DEF Register, ActiveIsLive, GatewayTypeOK
  <2>2. ASSUME NEW n \in Message, Process(n) \/ Read(n)
        PROVE  ActiveIsLive'
    BY <1>2, <2>2 DEF Process, Read, gvars, ActiveIsLive
  <2>3. ASSUME NEW n \in Message, Fails(n) \/ Leaves(n)
        PROVE  ActiveIsLive'
    BY <1>2, <2>3 DEF Fails, Leaves, Unregister, ActiveIsLive
  <2>4. CASE Stop
    BY <2>4 DEF Stop, ActiveIsLive
  <2>5. CASE UNCHANGED allVars
    BY <1>2, <2>5 DEF allVars, gvars, ActiveIsLive
  <2>6. QED
    BY <1>2, <2>1, <2>2, <2>3, <2>4, <2>5 DEF GatewayNext, GatewayStep
<1>3. QED
  BY <1>1, <1>2, GatewayTypeCorrect, PTL DEF GatewaySpec
=============================================================================
