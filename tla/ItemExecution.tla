---------------------------- MODULE ItemExecution ----------------------------
(***************************************************************************)
(* sessionorchestrator/workitem_executor.go: the executions of one work     *)
(* item below the goal.  ExecuteWorkItem prepares the prompt from the       *)
(* item's private chain, lets the model answer or call tools for a bounded  *)
(* number of iterations, and appends what it added to the chain.  The chain *)
(* is a file: an append may stop between two lines or within one, and the   *)
(* process may stop anywhere.  A session has one turn and a turn executes   *)
(* one item at a time, and TurnToolExecutor runs the calls of a round one   *)
(* after the other, so nothing here runs concurrently.                      *)
(***************************************************************************)
EXTENDS PrivateChain

CONSTANTS
  RoundSizes,      \* how many calls a model may make in one round
  MaxIters,        \* iterations of an execution
  MaxExecutions,   \* bound on executions
  MaxFaults        \* bound on crashes and failed writes

ASSUME ItersAssumption == MaxIters \in Nat \ {0}
ASSUME RoundSizesAssumption == RoundSizes \subseteq Nat \ {0}
ASSUME BoundsAssumption == MaxExecutions \in Nat /\ MaxFaults \in Nat

VARIABLES
  pc,          \* where ExecuteWorkItem is: idle, invoke, save
  chain,       \* the readable lines of the file
  halfLine,    \* the file ends within a line
  messages,    \* the conversation of the execution
  base,        \* how many of the messages came from the chain
  iter,        \* iteration
  synthesis,   \* the last iteration is without tools
  degraded,    \* the prompt could not be prepared
  round,       \* tool rounds so far
  done,        \* rounds of the execution
  owed,        \* history: rounds of the executions that ended and were saved
  ragged,      \* history: the last append was cut
  scar,        \* history: lines were appended behind a cut one
  glued,       \* history: a line was appended to half a line
  executions, faults

fileVars == <<chain, halfLine, owed, ragged, scar, glued>>
vars == <<pc, messages, base, iter, synthesis, degraded, round, done,
          fileVars, executions, faults>>

Init ==
  /\ pc = "idle" /\ messages = <<>> /\ base = 0 /\ iter = 0
  /\ synthesis = FALSE /\ degraded = FALSE /\ done = {}
  /\ chain = <<>> /\ halfLine = FALSE /\ round = 0 /\ owed = {}
  /\ ragged = FALSE /\ scar = FALSE /\ glued = FALSE
  /\ executions = 0 /\ faults = 0

-----------------------------------------------------------------------------
\* prepareContext succeeds with what Materialize made of the chain ...
Prepared(msgs) ==
  /\ WithinBudget(msgs)
  /\ messages' = msgs /\ base' = Len(msgs) /\ degraded' = FALSE

\* ... or fails, over the budget or for another reason: the execution goes on
\* with the directive and its hints alone, and will persist them.
Degraded ==
  /\ \E text \in {"directive", "hinted", "ephemeral"} :
       messages' = <<User(text)>>
  /\ base' = 0 /\ degraded' = TRUE

\* ExecuteWorkItem, up to the first iteration.
BeginExecution ==
  /\ pc = "idle" /\ executions < MaxExecutions
  /\ executions' = executions + 1
  /\ Prepared(Materialize(chain)) \/ Degraded
  /\ synthesis' \in BOOLEAN
  /\ iter' = 1 /\ done' = {} /\ pc' = "invoke"
  /\ UNCHANGED <<round, fileVars, faults>>

\* The messages of the iteration: the last one may bring a hint.
Request ==
  IF synthesis /\ iter = MaxIters THEN Append(messages, User("ephemeral"))
  ELSE messages

\* messagesForLLMInvoke
Prompt == Repair(Request)

\* The model answers without a call, the stream fails or the round cannot be
\* run: the loop is over.
Answers ==
  /\ pc = "invoke"
  /\ messages' = Request
  /\ pc' = "save"
  /\ UNCHANGED <<base, iter, synthesis, degraded, round, done, fileVars,
                 executions, faults>>

\* The model calls n tools, whatever it was offered.  Each call has a result,
\* perhaps an error or a refusal.
ToolRound ==
  /\ pc = "invoke"
  /\ round' = round + 1
  /\ \E n \in RoundSizes : messages' = Request \o RoundMessages(round', n)
  /\ done' = done \cup {round'}
  /\ IF iter = MaxIters THEN pc' = "save" /\ UNCHANGED iter
     ELSE iter' = iter + 1 /\ UNCHANGED pc
  /\ UNCHANGED <<base, synthesis, degraded, fileVars, executions, faults>>

\* The end of ExecuteWorkItem and of what is local to it.
Return ==
  /\ pc' = "idle" /\ messages' = <<>> /\ base' = 0 /\ iter' = 0
  /\ synthesis' = FALSE /\ degraded' = FALSE /\ done' = {}
  /\ UNCHANGED <<round, executions>>

-----------------------------------------------------------------------------
\* What appendPrivateChainDelta persists.  The mutant persists what was loaded
\* again.
DeltaMutant == Repair(WithoutHints(messages))
Delta == Repair(WithoutHints(Suffix(messages, base + 1)))

\* The file after n of the lines: a line written behind half a line is part of
\* one that cannot be read.
Written(lines, n) ==
  chain \o SubSeq(lines, IF halfLine THEN 2 ELSE 1, n)

\* What n lines, and perhaps half of the next, do to the file's history.
Marks(n, half, whole) ==
  /\ halfLine' = (half \/ (halfLine /\ n = 0))
  /\ glued' = (glued \/ (halfLine /\ (n > 0 \/ half)))
  /\ scar' = (scar \/ (ragged /\ (n > 0 \/ half)))
  /\ ragged' = (~whole \/ (ragged /\ n = 0))

\* appendPrivateChainDelta, all of it.
Save ==
  /\ pc = "save"
  /\ chain' = Written(Delta, Len(Delta))
  /\ Marks(Len(Delta), FALSE, TRUE)
  /\ owed' = owed \cup done
  /\ Return
  /\ UNCHANGED faults

\* The append ends after n lines, perhaps within the next: the write failed,
\* which ExecuteWorkItem ignores, or the process is gone.
SaveCut ==
  /\ pc = "save" /\ faults < MaxFaults
  /\ faults' = faults + 1
  /\ \E n \in 0 .. Len(Delta) - 1 : \E half \in BOOLEAN :
       /\ chain' = Written(Delta, n)
       /\ Marks(n, half, FALSE)
  /\ Return
  /\ UNCHANGED owed

\* The process ends in the middle of an execution, whose rounds are lost.
Crash ==
  /\ pc = "invoke" /\ faults < MaxFaults
  /\ faults' = faults + 1
  /\ Return
  /\ UNCHANGED fileVars

Next ==
  BeginExecution \/ Answers \/ ToolRound \/ Save \/ SaveCut \/ Crash

Spec == Init /\ [][Next]_vars

-----------------------------------------------------------------------------
\* Whatever was cut, lost or compressed before, the model is sent calls with
\* their own answers only, as long as no append has written behind a cut one:
\* what RepairToolMessageChain is for.
PromptPaired == pc = "invoke" /\ ~scar => Paired(Prompt)

\* The rounds of the executions that ended, failed ones included, are whole in
\* the chain, and no round is in it twice or out of order, whatever was cut or
\* compressed in between, as long as no line was glued to half of another.
RoundsKept ==
  LET stored == Repair(chain)
  IN  ~glued =>
        /\ \A r \in owed :
             \E i \in Asking(stored) : stored[i].round = r /\ Answered(stored, i)
        /\ \A i, j \in Asking(stored) :
             i < j => stored[i].round < stored[j].round

\* A retry sees every round of the executions before it that is within the
\* budget together with what was stored behind it: neither compression nor
\* repair takes evidence away that there was room for.
EvidenceSeen ==
  LET stored == Repair(chain)
  IN  pc = "invoke" /\ iter = 1 /\ ~degraded /\ ~scar =>
        \A i \in Asking(stored) :
          Len(Suffix(stored, i)) <= Budget => stored[i].round \in RoundsOf(Prompt)
=============================================================================
