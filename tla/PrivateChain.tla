---------------------------- MODULE PrivateChain ----------------------------
(***************************************************************************)
(* contextengine: the private chain of a work item, which is what the tool  *)
(* rounds of its earlier executions left in a file, and how the prompt of   *)
(* the next execution is made of it (materialize, prepare/conversation).    *)
(* A message costs one unit of the token budget.  Call ids are those of the *)
(* provider, or call_0, call_1, ...: they are the same in every round.      *)
(***************************************************************************)
EXTENDS Integers, Sequences, FiniteSetsExt

CONSTANTS
  Budget,      \* tokens the prompt of an execution may have
  SystemSize   \* tokens of the system prompt

ASSUME BudgetAssumption == Budget \in Nat \ {0} /\ SystemSize \in Nat

\* A user message is the item's directive, the directive with hints, or one of
\* the hints for a single request, which are ephemeral.
User(text) == [role |-> "user", text |-> text, round |-> 0, ids |-> {}]

\* The assistant's message that asks for the calls ids, and the answer to one.
Calls(r, ids) == [role |-> "calls", text |-> "", round |-> r, ids |-> ids]
Answer(r, id) == [role |-> "tool", text |-> "", round |-> r, ids |-> {id}]

Directive == User("directive")

\* What a completed round of n calls adds to the messages.
RoundMessages(r, n) ==
  <<Calls(r, 1 .. n)>> \o [i \in 1 .. n |-> Answer(r, i)]

-----------------------------------------------------------------------------
(* Repair.                                                                  *)

\* One message of RepairToolMessageChain: an answer stays if the last calls
\* still wait for it, and a user message gives up what they wait for.
RepairStep(acc, m) ==
  CASE m.role = "calls" -> [out |-> Append(acc.out, m), pending |-> m.ids]
    [] m.role = "tool"  -> IF m.ids \subseteq acc.pending
                             THEN [out |-> Append(acc.out, m),
                                   pending |-> acc.pending \ m.ids]
                             ELSE acc
    [] m.role = "user"  -> [out |-> Append(acc.out, m), pending |-> {}]

Scan(msgs) ==
  LET acc[i \in 0 .. Len(msgs)] ==
        IF i = 0 THEN [out |-> <<>>, pending |-> {}]
        ELSE RepairStep(acc[i - 1], msgs[i])
  IN  acc[Len(msgs)]

\* Where a chain asks for calls, and the rounds they belong to.
Asking(msgs) == {i \in DOMAIN msgs : msgs[i].role = "calls"}
RoundsOf(msgs) == {msgs[i].round : i \in Asking(msgs)}

\* FilterIncompleteToolCalls: everything from the last calls on goes.
FilterIncomplete(msgs) == SubSeq(msgs, 1, Max(Asking(msgs)) - 1)

\* RepairToolMessageChain.  The mutant leaves the last round as it is.
RepairMutant(msgs) == Scan(msgs).out
Repair(msgs) ==
  LET r == Scan(msgs) IN
    IF r.pending = {} THEN r.out ELSE FilterIncomplete(r.out)

-----------------------------------------------------------------------------
(* Compression.                                                             *)

\* toolRoundSegments of a repaired chain: a round, or a single message.
SegmentStarts(msgs) == {i \in DOMAIN msgs : msgs[i].role # "tool"}

Suffix(msgs, i) == SubSeq(msgs, i, Len(msgs))

\* compressMessages: the longest tail of whole segments within the budget, but
\* never less than the last one.  The mutant wants room to spare.
CompressMutant(msgs) ==
  LET fits == {i \in SegmentStarts(msgs) : Len(Suffix(msgs, i)) < Budget} IN
    IF Len(msgs) <= Budget THEN msgs
    ELSE Suffix(msgs, IF fits = {} THEN Max(SegmentStarts(msgs)) ELSE Min(fits))
Compress(msgs) ==
  LET fits == {i \in SegmentStarts(msgs) : Len(Suffix(msgs, i)) <= Budget} IN
    IF Len(msgs) <= Budget THEN msgs
    ELSE Suffix(msgs, IF fits = {} THEN Max(SegmentStarts(msgs)) ELSE Min(fits))

\* shrinkPrivateChain, without the replacement of large tool results by a
\* reference, which keeps the number of messages.
Shrink(msgs) == Repair(Compress(Repair(msgs)))

\* mergeInitialWithPrivateChain: the directive is not said twice.
Merge(chain) ==
  IF chain # <<>> /\ Head(chain) = Directive THEN chain
  ELSE <<Directive>> \o chain

\* The messages Materialize returns for a chain ...
Materialize(chain) == Shrink(Merge(chain))

\* ... and the check of MaterializeForMUPS, which counts the system prompt.
WithinBudget(msgs) == Len(msgs) + SystemSize <= Budget

-----------------------------------------------------------------------------
(* What is sent and stored.                                                 *)

\* filterEphemeralExecuteMessages
WithoutHints(msgs) ==
  LET kept[i \in 0 .. Len(msgs)] ==
        IF i = 0 THEN <<>>
        ELSE IF msgs[i] = User("ephemeral") THEN kept[i - 1]
        ELSE Append(kept[i - 1], msgs[i])
  IN  kept[Len(msgs)]

\* The calls at i are followed by the answers of their own round, and nothing
\* else is until each has its answer.
Answered(msgs, i) ==
  LET n == Cardinality(msgs[i].ids) IN
    /\ i + n <= Len(msgs)
    /\ {msgs[j] : j \in i + 1 .. i + n} =
         {Answer(msgs[i].round, id) : id \in msgs[i].ids}

\* What a provider accepts: every call is answered and every answer called for.
Paired(msgs) ==
  \A i \in DOMAIN msgs :
    /\ msgs[i].role = "calls" => Answered(msgs, i)
    /\ msgs[i].role = "tool" =>
         \E k \in 1 .. i - 1 : /\ msgs[k].role = "calls"
                               /\ i <= k + Cardinality(msgs[k].ids)
=============================================================================
