--------------------------- MODULE CircuitBreaker ---------------------------
(***************************************************************************)
(* llmgateway/protect/circuit_breaker.go and its one user, Gateway.Stream:  *)
(* concurrent LLM calls to one provider ask the breaker for leave, run a    *)
(* retry chain over the primary and the fallback model, consume the stream, *)
(* and record at most one result.  Circuits of different providers share    *)
(* nothing.  A call id stands for a slot in which calls follow one another. *)
(* The clock is reduced to whether OpenDuration has passed since openedAt.  *)
(***************************************************************************)
EXTENDS Integers, FiniteSets

CONSTANTS
  Call,               \* concurrent callers of Gateway.Stream
  FailureThreshold,
  SuccessThreshold,
  HalfOpenMaxProbes,
  Models,             \* 1: primary only; 2: there is a fallback model
  MaxAttempts,        \* attempts per model
  Cancelling          \* calls whose context may end early (cancel, timeout)

ASSUME CallAssumption == IsFiniteSet(Call)
\* New replaces values that are not positive by defaults, Executor.Stream too.
ASSUME ThresholdAssumption ==
  /\ FailureThreshold \in Nat \ {0}
  /\ SuccessThreshold \in Nat \ {0}
  /\ HalfOpenMaxProbes \in Nat \ {0}
ASSUME ChainAssumption == Models \in 1 .. 2 /\ MaxAttempts \in Nat \ {0}
ASSUME CancellingAssumption == Cancelling \subseteq Call

VARIABLES
  state,              \* circuitRecord.state
  failureCount, halfOpenSuccesses, halfOpenInFlight,
  elapsed,            \* now - openedAt >= OpenDuration
  healthy,            \* the provider has recovered for good
  pc,                 \* where each call is
  model, attempt,     \* the loop variables of its retry chain
  gone,               \* calls whose context is done
  leave,              \* how the breaker let each call through: "normal" when
                      \* closed, "probe" when half-open, "stale" a probe of an
                      \* earlier half-open period (history, no code reads it)
  lost                \* probes of this half-open period whose context ended
                      \* while they streamed (history)

circuitVars == <<state, failureCount, halfOpenSuccesses, halfOpenInFlight, elapsed>>
vars == <<circuitVars, healthy, pc, model, attempt, gone, leave, lost>>

\* Counters stay within the thresholds that reset them.
TypeOK ==
  /\ state \in {"closed", "open", "half"}
  /\ failureCount \in 0 .. FailureThreshold
  /\ state = "closed" => failureCount < FailureThreshold
  /\ halfOpenSuccesses \in 0 .. (SuccessThreshold - 1)
  /\ halfOpenInFlight \in 0 .. HalfOpenMaxProbes
  /\ elapsed \in BOOLEAN /\ healthy \in BOOLEAN
  /\ pc \in [Call -> {"idle", "chain", "stream"}]
  /\ model \in [Call -> 1 .. Models]
  /\ attempt \in [Call -> 0 .. (MaxAttempts - 1)]
  /\ gone \subseteq Cancelling
  /\ leave \in [Call -> {"none", "normal", "probe", "stale"}]
  /\ lost \in Nat

Init ==
  /\ state = "closed"
  /\ failureCount = 0 /\ halfOpenSuccesses = 0 /\ halfOpenInFlight = 0
  /\ elapsed = FALSE
  /\ healthy = FALSE
  /\ pc = [c \in Call |-> "idle"]
  /\ model = [c \in Call |-> 1]
  /\ attempt = [c \in Call |-> 0]
  /\ gone = {}
  /\ leave = [c \in Call |-> "none"]
  /\ lost = 0

-----------------------------------------------------------------------------
(* The breaker                                                              *)

\* Allow: what the breaker does when it lets a call through.
AllowClosed ==
  /\ state = "closed"
  /\ UNCHANGED circuitVars

\* The first call after OpenDuration opens the half-open period and probes.
AllowOpen ==
  /\ state = "open" /\ elapsed
  /\ state' = "half"
  /\ halfOpenSuccesses' = 0
  /\ halfOpenInFlight' = 1
  /\ UNCHANGED <<failureCount, elapsed>>

AllowHalfOpen ==
  /\ state = "half" /\ halfOpenInFlight < HalfOpenMaxProbes
  /\ halfOpenInFlight' = halfOpenInFlight + 1
  /\ UNCHANGED <<state, failureCount, halfOpenSuccesses, elapsed>>

\* finalize gives a probe's place back.  The mutant leaves it taken.
FinalizeMutant == halfOpenInFlight
Finalize == IF halfOpenInFlight > 0 THEN halfOpenInFlight - 1 ELSE 0

\* open
Open ==
  /\ state' = "open"
  /\ elapsed' = FALSE
  /\ failureCount' = FailureThreshold
  /\ halfOpenSuccesses' = 0 /\ halfOpenInFlight' = 0

\* Probes in flight when the half-open period ends become stale.
LeaveAfter(c) ==
  [d \in Call |-> IF d = c THEN "none"
                  ELSE IF leave[d] = "probe" /\ state' # "half" THEN "stale"
                  ELSE leave[d]]

LostAfter == IF state' = "half" THEN lost ELSE 0

RecordSuccess(c) ==
  /\ \/ /\ state = "closed"
        /\ failureCount' = 0
        /\ UNCHANGED <<state, halfOpenSuccesses, halfOpenInFlight, elapsed>>
     \/ /\ state = "half" /\ halfOpenSuccesses + 1 >= SuccessThreshold
        /\ state' = "closed"
        /\ failureCount' = 0 /\ halfOpenSuccesses' = 0 /\ halfOpenInFlight' = 0
        /\ UNCHANGED elapsed
     \/ /\ state = "half" /\ halfOpenSuccesses + 1 < SuccessThreshold
        /\ halfOpenSuccesses' = halfOpenSuccesses + 1
        /\ halfOpenInFlight' = Finalize
        /\ UNCHANGED <<state, failureCount, elapsed>>
     \/ state = "open" /\ UNCHANGED circuitVars
  /\ leave' = LeaveAfter(c) /\ lost' = LostAfter

\* The mutant lets a late failure restart the timer of an open breaker.
RecordFailureMutant(c) ==
  /\ \/ /\ state = "closed" /\ failureCount + 1 < FailureThreshold
        /\ failureCount' = failureCount + 1
        /\ UNCHANGED <<state, halfOpenSuccesses, halfOpenInFlight, elapsed>>
     \/ (state = "closed" => failureCount + 1 >= FailureThreshold) /\ Open
  /\ leave' = LeaveAfter(c) /\ lost' = LostAfter
RecordFailure(c) ==
  /\ \/ /\ state = "closed" /\ failureCount + 1 < FailureThreshold
        /\ failureCount' = failureCount + 1
        /\ UNCHANGED <<state, halfOpenSuccesses, halfOpenInFlight, elapsed>>
     \/ state = "closed" /\ failureCount + 1 >= FailureThreshold /\ Open
     \/ state = "half" /\ Open
     \/ state = "open" /\ UNCHANGED circuitVars
  /\ leave' = LeaveAfter(c) /\ lost' = LostAfter

\* A call that records nothing: if it is a probe, nobody gives its place back.
RecordNothing(c) ==
  /\ UNCHANGED circuitVars
  /\ leave' = [leave EXCEPT ![c] = "none"]
  /\ lost' = IF leave[c] = "probe" THEN lost + 1 ELSE lost

-----------------------------------------------------------------------------
(* Gateway.Stream                                                           *)

Back(c) ==
  /\ pc' = [pc EXCEPT ![c] = "idle"]
  /\ model' = [model EXCEPT ![c] = 1]
  /\ attempt' = [attempt EXCEPT ![c] = 0]
  /\ gone' = gone \ {c}
  /\ UNCHANGED healthy

\* checkBreakerAllow lets the call in; a call turned away changes nothing.
Admit(c) ==
  /\ pc[c] = "idle"
  /\ AllowClosed \/ AllowOpen \/ AllowHalfOpen
  /\ leave' = [leave EXCEPT ![c] = IF state' = "half" THEN "probe" ELSE "normal"]
  /\ pc' = [pc EXCEPT ![c] = "chain"]
  /\ UNCHANGED <<healthy, model, attempt, gone, lost>>

\* Executor.Stream: an attempt opens the stream ...
AttemptOpens(c) ==
  /\ pc[c] = "chain"
  /\ pc' = [pc EXCEPT ![c] = "stream"]
  /\ UNCHANGED <<circuitVars, healthy, model, attempt, gone, leave, lost>>

\* ... or fails with a retryable error and attempts are left ...
Retry(c) ==
  /\ pc[c] = "chain" /\ ~healthy
  /\ attempt[c] + 1 < MaxAttempts
  /\ attempt' = [attempt EXCEPT ![c] = @ + 1]
  /\ UNCHANGED <<circuitVars, healthy, pc, model, gone, leave, lost>>

\* ... or the model is given up, on its last attempt or by a final error, and
\* the fallback model is tried ...
Fallback(c) ==
  /\ pc[c] = "chain" /\ ~healthy
  /\ model[c] < Models
  /\ model' = [model EXCEPT ![c] = @ + 1]
  /\ attempt' = [attempt EXCEPT ![c] = 0]
  /\ UNCHANGED <<circuitVars, healthy, pc, gone, leave, lost>>

\* ... or there is none: the chain failed, and counts as one failure.
ChainFails(c) ==
  /\ pc[c] = "chain" /\ ~healthy
  /\ model[c] = Models
  /\ RecordFailure(c)
  /\ Back(c)

\* The context ends before an attempt or in a backoff: Executor.Stream returns
\* its error, and Stream records a failure.
ChainCancelled(c) ==
  /\ pc[c] = "chain" /\ c \in gone
  /\ RecordFailure(c)
  /\ Back(c)

\* The fanout loop reads the channel to its end, an error in it, or sees the
\* context done, which shouldRecordBreakerFailure excludes.
StreamSucceeds(c) ==
  /\ pc[c] = "stream"
  /\ RecordSuccess(c)
  /\ Back(c)

StreamFails(c) ==
  /\ pc[c] = "stream" /\ ~healthy
  /\ RecordFailure(c)
  /\ Back(c)

StreamCancelled(c) ==
  /\ pc[c] = "stream" /\ c \in gone
  /\ RecordNothing(c)
  /\ Back(c)

CallStep(c) ==
  \/ Admit(c) \/ AttemptOpens(c) \/ Retry(c) \/ Fallback(c)
  \/ ChainFails(c) \/ ChainCancelled(c)
  \/ StreamSucceeds(c) \/ StreamFails(c) \/ StreamCancelled(c)

\* The caller cancels, or the timeout of the call runs out.
ContextDone(c) ==
  /\ c \in Cancelling \ gone /\ pc[c] # "idle"
  /\ gone' = gone \cup {c}
  /\ UNCHANGED <<circuitVars, healthy, pc, model, attempt, leave, lost>>

\* OpenDuration passes.
Elapse ==
  /\ state = "open" /\ ~elapsed
  /\ elapsed' = TRUE
  /\ UNCHANGED <<state, failureCount, halfOpenSuccesses, halfOpenInFlight,
                 healthy, pc, model, attempt, gone, leave, lost>>

\* The provider recovers: no more errors.
Heal ==
  /\ ~healthy
  /\ healthy' = TRUE
  /\ UNCHANGED <<circuitVars, pc, model, attempt, gone, leave, lost>>

Next == Elapse \/ Heal \/ \E c \in Call : CallStep(c) \/ ContextDone(c)

Spec == Init /\ [][Next]_vars

\* Calls keep coming and run; time passes.
FairSpec == Spec /\ WF_vars(Elapse) /\ \A c \in Call : WF_vars(CallStep(c))

-----------------------------------------------------------------------------
Probes == {c \in Call : leave[c] = "probe"}

\* Every place taken in the half-open window belongs to a probe in flight or to
\* one whose context ended while it streamed: however late results of earlier
\* calls interleave, nothing else can fill the window.
NoPhantomProbe == halfOpenInFlight <= Cardinality(Probes) + lost

\* An open breaker stays open until OpenDuration has passed since it opened:
\* late results of calls admitted before neither close it nor restart its timer.
OpenIsTimed ==
  [][state = "open" => \/ state' = "open" /\ (elapsed => elapsed')
                       \/ state' = "half" /\ elapsed]_vars

\* Once the provider has recovered and contexts no longer end early, the breaker
\* closes for good, or it has lost a whole window of probes.
Recovers ==
  <>[](healthy /\ gone = {}) =>
    <>[](state = "closed" \/ lost >= HalfOpenMaxProbes)
=============================================================================
