----------------------- MODULE CircuitBreakerProofs -----------------------
(* What holds of CircuitBreaker for any number of calls and any thresholds. *)
EXTENDS CircuitBreaker, FiniteSetTheorems, TLAPS

USE ThresholdAssumption, ChainAssumption, CancellingAssumption

\* The bookkeeping of a call that ends touches no counter of the breaker.
LEMMA RecordType ==
  ASSUME TypeOK, NEW c \in Call,
         RecordSuccess(c) \/ RecordFailure(c) \/ RecordNothing(c)
  PROVE  /\ state' \in {"closed", "open", "half"}
         /\ failureCount' \in 0 .. FailureThreshold
         /\ state' = "closed" => failureCount' < FailureThreshold
         /\ halfOpenSuccesses' \in 0 .. (SuccessThreshold - 1)
         /\ halfOpenInFlight' \in 0 .. HalfOpenMaxProbes
         /\ elapsed' \in BOOLEAN
         /\ leave' \in [Call -> {"none", "normal", "probe", "stale"}]
         /\ lost' \in Nat
<1>0. lost' \in Nat
  BY DEF RecordSuccess, RecordFailure, RecordNothing, LostAfter, TypeOK
<1>1. CASE RecordSuccess(c)
  <2>1. leave' \in [Call -> {"none", "normal", "probe", "stale"}]
    BY <1>1 DEF RecordSuccess, LeaveAfter, TypeOK
  <2>2. QED
    BY <1>0, <1>1, <2>1 DEF RecordSuccess, Finalize, circuitVars, TypeOK
<1>2. CASE RecordFailure(c)
  <2>1. leave' \in [Call -> {"none", "normal", "probe", "stale"}]
    BY <1>2 DEF RecordFailure, LeaveAfter, TypeOK
  <2>2. CASE Open
    <3>1. /\ FailureThreshold \in 0 .. FailureThreshold
          /\ 0 \in 0 .. (SuccessThreshold - 1)
          /\ 0 \in 0 .. HalfOpenMaxProbes
      OBVIOUS
    <3>2. /\ state' = "open" /\ elapsed' = FALSE
          /\ failureCount' = FailureThreshold
          /\ halfOpenSuccesses' = 0 /\ halfOpenInFlight' = 0
      BY <2>2 DEF Open
    <3>3. state' # "closed"
      BY <3>2
    <3>4. QED
      BY <1>0, <2>1, <3>1, <3>2, <3>3
  <2>3. CASE UNCHANGED circuitVars
    BY <1>0, <2>1, <2>3 DEF circuitVars, TypeOK
  <2>4. CASE /\ failureCount + 1 < FailureThreshold
             /\ failureCount' = failureCount + 1
             /\ UNCHANGED <<state, halfOpenSuccesses, halfOpenInFlight, elapsed>>
    BY <1>0, <2>1, <2>4 DEF TypeOK
  <2>5. QED
    BY <1>2, <2>2, <2>3, <2>4 DEF RecordFailure
<1>3. CASE RecordNothing(c)
  <2>1. leave' \in [Call -> {"none", "normal", "probe", "stale"}]
    BY <1>3 DEF RecordNothing, TypeOK
  <2>2. UNCHANGED circuitVars
    BY <1>3 DEF RecordNothing
  <2>3. QED
    BY <1>0, <2>1, <2>2 DEF circuitVars, TypeOK
<1>4. QED
  BY <1>1, <1>2, <1>3

\* TypeOK holds initially, the thresholds being positive.
LEMMA InitType == Init => TypeOK
<1> SUFFICES ASSUME Init PROVE TypeOK
  OBVIOUS
<1>1. /\ 0 \in 0 .. FailureThreshold /\ 0 < FailureThreshold
      /\ 0 \in 0 .. (SuccessThreshold - 1)
      /\ 0 \in 0 .. HalfOpenMaxProbes
      /\ 1 \in 1 .. Models /\ 0 \in 0 .. (MaxAttempts - 1)
  OBVIOUS
<1>2. /\ pc \in [Call -> {"idle", "chain", "stream"}]
      /\ model \in [Call -> 1 .. Models]
      /\ attempt \in [Call -> 0 .. (MaxAttempts - 1)]
      /\ leave \in [Call -> {"none", "normal", "probe", "stale"}]
  BY <1>1 DEF Init
<1>3. QED
  BY <1>1, <1>2 DEF Init, TypeOK

\* TypeOK is inductive.
LEMMA TypeInductive == TypeOK /\ [Next]_vars => TypeOK'
<1> SUFFICES ASSUME TypeOK, [Next]_vars
             PROVE  TypeOK'
  OBVIOUS
<1>1. CASE Elapse
  BY <1>1 DEF Elapse, TypeOK
<1>2. CASE Heal
  BY <1>2 DEF Heal, circuitVars, TypeOK
<1>3. ASSUME NEW c \in Call, ContextDone(c)
      PROVE  TypeOK'
  BY <1>3 DEF ContextDone, circuitVars, TypeOK
<1>4. ASSUME NEW c \in Call, Admit(c)
      PROVE  TypeOK'
  <2>1. leave' \in [Call -> {"none", "normal", "probe", "stale"}]
    BY <1>4 DEF Admit, TypeOK
  <2>2. /\ state' \in {"closed", "open", "half"}
        /\ failureCount' \in 0 .. FailureThreshold
        /\ state' = "closed" => failureCount' < FailureThreshold
        /\ halfOpenSuccesses' \in 0 .. (SuccessThreshold - 1)
        /\ halfOpenInFlight' \in 0 .. HalfOpenMaxProbes
        /\ elapsed' \in BOOLEAN
    BY <1>4 DEF Admit, AllowClosed, AllowOpen, AllowHalfOpen, circuitVars, TypeOK
  <2>3. QED
    BY <1>4, <2>1, <2>2 DEF Admit, TypeOK
<1>5. ASSUME NEW c \in Call, AttemptOpens(c) \/ Retry(c) \/ Fallback(c)
      PROVE  TypeOK'
  BY <1>5 DEF AttemptOpens, Retry, Fallback, circuitVars, TypeOK
<1>6. ASSUME NEW c \in Call,
             \/ ChainFails(c) \/ ChainCancelled(c) \/ StreamSucceeds(c)
             \/ StreamFails(c) \/ StreamCancelled(c)
      PROVE  TypeOK'
  <2>1. Back(c) /\ (RecordSuccess(c) \/ RecordFailure(c) \/ RecordNothing(c))
    BY <1>6 DEF ChainFails, ChainCancelled, StreamSucceeds, StreamFails,
                StreamCancelled
  <2>2. /\ pc' \in [Call -> {"idle", "chain", "stream"}]
        /\ model' \in [Call -> 1 .. Models]
        /\ attempt' \in [Call -> 0 .. (MaxAttempts - 1)]
        /\ gone' \subseteq Cancelling
        /\ healthy' \in BOOLEAN
    BY <2>1 DEF Back, TypeOK
  <2>3. QED
    BY <2>1, <2>2, RecordType DEF TypeOK
<1>7. CASE UNCHANGED vars
  BY <1>7 DEF vars, circuitVars, TypeOK
<1>8. QED
  BY <1>1, <1>2, <1>3, <1>4, <1>5, <1>6, <1>7 DEF Next, CallStep

\* The breaker's counters stay within the thresholds that reset them.
THEOREM TypeCorrect == Spec => []TypeOK
<1>1. QED
  BY InitType, TypeInductive, PTL DEF Spec

-----------------------------------------------------------------------------
\* Sets of calls are finite, and removing one call removes at most one.
LEMMA CallSets ==
  ASSUME NEW S \in SUBSET Call, NEW c \in Call
  PROVE  /\ IsFiniteSet(S) /\ IsFiniteSet(S \ {c}) /\ IsFiniteSet(S \cup {c})
         /\ Cardinality(S) \in Nat
         /\ Cardinality(S \ {c}) \in Nat
         /\ Cardinality(S) - 1 <= Cardinality(S \ {c})
         /\ c \notin S => Cardinality(S \cup {c}) = Cardinality(S) + 1
         /\ c \notin S => Cardinality(S \ {c}) = Cardinality(S)
<1>1. IsFiniteSet(S)
  BY FS_Subset, CallAssumption
<1>2. IsFiniteSet(S \ {c}) /\ IsFiniteSet(S \cup {c})
  BY <1>1, FS_RemoveElement, FS_AddElement
<1>3. Cardinality(S) \in Nat /\ Cardinality(S \ {c}) \in Nat
  BY <1>1, <1>2, FS_CardinalityType
<1>4. Cardinality(S) - 1 <= Cardinality(S \ {c})
  <2>1. Cardinality(S \ {c}) =
          IF c \in S THEN Cardinality(S) - 1 ELSE Cardinality(S)
    BY <1>1, FS_RemoveElement
  <2>2. QED
    BY <1>3, <2>1
<1>5. c \notin S => Cardinality(S \cup {c}) = Cardinality(S) + 1
  BY <1>1, FS_AddElement
<1>6. c \notin S => S \ {c} = S
  OBVIOUS
<1>7. QED
  BY <1>1, <1>2, <1>3, <1>4, <1>5, <1>6

\* A window is empty unless half-open, probes are calls in progress.
WindowInv ==
  /\ TypeOK
  /\ state # "half" => halfOpenInFlight = 0
  /\ \A c \in Call : pc[c] = "idle" => leave[c] = "none"
  /\ NoPhantomProbe

\* The induction step: a place is taken together with the probe that holds it,
\* and a probe that ends gives one back or is counted as lost.
LEMMA WindowInductive ==
  ASSUME WindowInv, [Next]_vars
  PROVE  WindowInv'
<1> USE DEF WindowInv
<1>0. TypeOK'
  BY TypeInductive
<1>a. /\ IsFiniteSet(Probes) /\ Cardinality(Probes) \in Nat
      /\ IsFiniteSet(Probes') /\ Cardinality(Probes') \in Nat
      /\ lost \in Nat /\ lost' \in Nat
  <2>1. Probes \subseteq Call /\ Probes' \subseteq Call
    BY DEF Probes
  <2>2. QED
    BY <1>0, <2>1, CallAssumption, FS_Subset, FS_CardinalityType DEF TypeOK
<1>1. CASE Elapse \/ Heal \/ UNCHANGED vars
  <2>1. Probes' = Probes /\ UNCHANGED <<halfOpenInFlight, state, pc, leave, lost>>
    BY <1>1 DEF Elapse, Heal, vars, circuitVars, Probes
  <2>2. QED
    BY <1>0, <2>1 DEF NoPhantomProbe
<1>2. ASSUME NEW c \in Call,
             ContextDone(c) \/ AttemptOpens(c) \/ Retry(c) \/ Fallback(c)
      PROVE  WindowInv'
  <2>1. Probes' = Probes /\ UNCHANGED <<halfOpenInFlight, state, leave, lost>>
    BY <1>2 DEF ContextDone, AttemptOpens, Retry, Fallback, circuitVars, Probes
  <2>2. \A d \in Call : pc'[d] = "idle" => pc[d] = "idle"
    BY <1>2 DEF ContextDone, AttemptOpens, Retry, Fallback, TypeOK
  <2>3. QED
    BY <1>0, <2>1, <2>2 DEF NoPhantomProbe
<1>3. ASSUME NEW c \in Call, Admit(c)
      PROVE  WindowInv'
  <2>1. leave[c] = "none" /\ c \notin Probes
    BY <1>3 DEF Admit, Probes
  <2>2. \A d \in Call : pc'[d] = "idle" => leave'[d] = "none"
    BY <1>3 DEF Admit, TypeOK
  <2>3. CASE state' # "half"
    <3>1. halfOpenInFlight' = 0 /\ state # "half"
      BY <1>3, <2>3 DEF Admit, AllowClosed, AllowOpen, AllowHalfOpen, circuitVars
    <3>2. QED
      BY <1>0, <1>a, <2>2, <3>1 DEF NoPhantomProbe
  <2>4. CASE state' = "half"
    <3>1. Probes' = Probes \cup {c}
      BY <1>3, <2>4 DEF Admit, Probes, TypeOK
    <3>2. Cardinality(Probes') = Cardinality(Probes) + 1
      <4>1. Cardinality(Probes \cup {c}) = Cardinality(Probes) + 1
        BY <1>a, <2>1, FS_AddElement
      <4>2. QED
        BY <3>1, <4>1
    <3>3. halfOpenInFlight' <= halfOpenInFlight + 1
      BY <1>3, <2>4 DEF Admit, AllowClosed, AllowOpen, AllowHalfOpen,
                        circuitVars, TypeOK
    <3>4. lost' = lost
      BY <1>3 DEF Admit
    <3>5. QED
      BY <1>0, <1>a, <2>2, <2>4, <3>2, <3>3, <3>4 DEF NoPhantomProbe, TypeOK
  <2>5. QED
    BY <2>3, <2>4
<1>4. ASSUME NEW c \in Call,
             ChainFails(c) \/ ChainCancelled(c) \/ StreamSucceeds(c)
               \/ StreamFails(c)
      PROVE  WindowInv'
  <2>1. Back(c) /\ (RecordSuccess(c) \/ RecordFailure(c))
    BY <1>4 DEF ChainFails, ChainCancelled, StreamSucceeds, StreamFails
  <2>2. leave' = LeaveAfter(c) /\ lost' = LostAfter
    BY <2>1 DEF RecordSuccess, RecordFailure
  <2>3. \A d \in Call : pc'[d] = "idle" => leave'[d] = "none"
    BY <2>1, <2>2 DEF Back, LeaveAfter, TypeOK
  <2>4. CASE state' # "half"
    <3>1. halfOpenInFlight' = 0
      BY <2>1, <2>4 DEF RecordSuccess, RecordFailure, Open, circuitVars
    <3>2. QED
      BY <1>0, <1>a, <2>3, <3>1 DEF NoPhantomProbe
  <2>5. CASE state' = "half"
    <3>1. halfOpenInFlight' = Finalize
      BY <2>1, <2>5 DEF RecordSuccess, RecordFailure, Open, circuitVars, TypeOK
    <3>2. Probes' = Probes \ {c}
      BY <2>2, <2>5 DEF Probes, LeaveAfter
    <3>3. Cardinality(Probes') >= Cardinality(Probes) - 1
      <4>1. Probes \subseteq Call
        BY DEF Probes
      <4>2. Cardinality(Probes) - 1 <= Cardinality(Probes \ {c})
        BY <4>1, CallSets
      <4>3. QED
        BY <1>a, <3>2, <4>2
    <3>4. halfOpenInFlight' <= Cardinality(Probes') + lost'
      BY <1>a, <2>2, <2>5, <3>1, <3>3 DEF Finalize, LostAfter, NoPhantomProbe, TypeOK
    <3>5. QED
      BY <1>0, <2>3, <2>5, <3>4 DEF NoPhantomProbe
  <2>6. QED
    BY <2>4, <2>5
<1>5. ASSUME NEW c \in Call, StreamCancelled(c)
      PROVE  WindowInv'
  <2>1. Back(c) /\ RecordNothing(c)
    BY <1>5 DEF StreamCancelled
  <2>2. \A d \in Call : pc'[d] = "idle" => leave'[d] = "none"
    BY <2>1 DEF Back, RecordNothing, TypeOK
  <2>3. Probes' = Probes \ {c} /\ UNCHANGED <<state, halfOpenInFlight>>
    BY <2>1 DEF RecordNothing, Probes, circuitVars, TypeOK
  <2>4. Probes \subseteq Call
    BY DEF Probes
  <2>5. CASE c \in Probes
    <3>1. lost' = lost + 1
      BY <2>1, <2>5 DEF RecordNothing, Probes
    <3>2. Cardinality(Probes) - 1 <= Cardinality(Probes \ {c})
      BY <2>4, CallSets
    <3>3. Cardinality(Probes) - 1 <= Cardinality(Probes')
      BY <2>3, <3>2
    <3>4. QED
      BY <1>0, <1>a, <2>2, <2>3, <3>1, <3>3 DEF NoPhantomProbe, TypeOK
  <2>6. CASE c \notin Probes
    <3>1. lost' = lost /\ Probes' = Probes
      BY <2>1, <2>3, <2>6 DEF RecordNothing, Probes
    <3>2. QED
      BY <1>0, <2>2, <2>3, <3>1 DEF NoPhantomProbe
  <2>7. QED
    BY <2>5, <2>6
<1>6. QED
  BY <1>1, <1>2, <1>3, <1>4, <1>5 DEF Next, CallStep

\* Every place taken in the half-open window belongs to a probe in flight or to
\* one whose context ended: nothing else can fill the window.
THEOREM WindowSound == Spec => []NoPhantomProbe
<1>1. Init => WindowInv
  <2> SUFFICES ASSUME Init PROVE WindowInv
    OBVIOUS
  <2>1. TypeOK
    BY InitType
  <2>2. Cardinality(Probes) \in Nat
    <3>1. Probes \subseteq Call
      BY DEF Probes
    <3>2. QED
      BY <3>1, CallAssumption, FS_Subset, FS_CardinalityType
  <2>3. halfOpenInFlight = 0 /\ lost = 0 /\ \A c \in Call : leave[c] = "none"
    BY DEF Init
  <2>4. NoPhantomProbe
    <3>1. halfOpenInFlight <= Cardinality(Probes) + lost
      BY ONLY <2>2, <2>3
    <3>2. QED
      BY <3>1 DEF NoPhantomProbe
  <2>5. QED
    BY <2>1, <2>3, <2>4 DEF WindowInv
<1>2. WindowInv /\ [Next]_vars => WindowInv'
  BY WindowInductive
<1>3. WindowInv => NoPhantomProbe
  BY DEF WindowInv
<1>4. QED
  BY <1>1, <1>2, <1>3, PTL DEF Spec

-----------------------------------------------------------------------------
\* Late results neither close an open breaker nor restart its timer.
THEOREM OpenTimed == Spec => OpenIsTimed
<1>1. ASSUME TypeOK, [Next]_vars, state = "open"
      PROVE  \/ state' = "open" /\ (elapsed => elapsed')
             \/ state' = "half" /\ elapsed
  <2>1. CASE Elapse \/ Heal \/ UNCHANGED vars
    BY <1>1, <2>1 DEF Elapse, Heal, vars, circuitVars
  <2>2. ASSUME NEW c \in Call, CallStep(c) \/ ContextDone(c)
        PROVE  \/ UNCHANGED circuitVars
               \/ AllowOpen
    BY <1>1, <2>2 DEF CallStep, ContextDone, Admit, AllowClosed, AllowHalfOpen,
       AttemptOpens, Retry, Fallback, ChainFails, ChainCancelled,
       StreamSucceeds, StreamFails, StreamCancelled,
       RecordSuccess, RecordFailure, RecordNothing
  <2>3. QED
    BY <1>1, <2>1, <2>2 DEF Next, AllowOpen, circuitVars
<1>2. QED
  BY <1>1, TypeCorrect, PTL DEF Spec, OpenIsTimed
=============================================================================
