------------------------- MODULE ItemExecutionProofs -------------------------
(***************************************************************************)
(* Proofs about the executions of a work item.  The conversation a chain    *)
(* holds is built round by round, each answer right behind the calls it     *)
(* belongs to; repair and compression are shown to be the identity, or to   *)
(* cut whole rounds off, on conversations of that form.  What the two folds *)
(* compute is found by descending to the first position at which they would *)
(* differ from what is claimed of them.                                     *)
(***************************************************************************)
EXTENDS ItemExecution, FiniteSetTheorems, SequenceTheorems,
        WellFoundedInduction, TLAPS

(***************************************************************************)
(* Numbers and recursive functions                                         *)
(***************************************************************************)

\* A set of numbers has a least one: induction, in the form used here.
LEMMA NatMin ==
  ASSUME NEW S \in SUBSET Nat, S # {}
  PROVE  \E x \in S : \A y \in S : x <= y
<1> DEFINE R == OpToRel(<, Nat)
<1>1. IsWellFoundedOn(R, Nat)
  BY NatLessThanWellFounded
<1>2. \A x, y \in Nat : x < y => <<x, y>> \in R
  BY DEF OpToRel
<1> HIDE DEF R
<1>3. PICK x \in S : \A y \in S : ~(<<y, x>> \in R)
  BY <1>1, WFMin
<1>4. \A y \in S : ~(y < x)
  BY <1>2, <1>3
<1> QED BY <1>4

\* Min and Max of the community modules are what they say.
LEMMA MinFacts ==
  ASSUME NEW S \in SUBSET Nat, S # {}
  PROVE  Min(S) \in S /\ \A y \in S : Min(S) <= y
<1>1. \E x \in S : \A y \in S : x =< y
  BY NatMin
<1> QED BY <1>1 DEF Min

LEMMA MaxFacts ==
  ASSUME NEW n \in Nat, NEW S \in SUBSET (1 .. n), S # {}
  PROVE  Max(S) \in S /\ \A y \in S : Max(S) >= y
<1> DEFINE T == {n - x : x \in S}
<1>1. T \in SUBSET Nat /\ T # {}
  <2>1. \A x \in S : x \in Nat /\ n - x \in Nat
    OBVIOUS
  <2>2. PICK x \in S : TRUE
    OBVIOUS
  <2>3. n - x \in T
    OBVIOUS
  <2> QED BY <2>1, <2>3
<1>2. PICK z \in T : \A y \in T : z <= y
  BY <1>1, NatMin
<1>3. PICK x \in S : z = n - x
  BY <1>2
<1>4. \A y \in S : x >= y
  <2> TAKE y \in S
  <2>1. n - y \in T
    OBVIOUS
  <2>2. z <= n - y
    BY <1>2, <2>1
  <2> QED BY <1>3, <2>2
<1>5. \E v \in S : \A y \in S : v >= y
  BY <1>4
<1> QED BY <1>5 DEF Max

\* A function may be defined by recursion on the numbers up to n.
Recurs(f, n, b, g) == f[0] = b /\ \A i \in 1 .. n : f[i] = g[<<i, f[i - 1]>>]

LEMMA Recursion ==
  ASSUME NEW n \in Nat, NEW V, NEW b \in V, NEW g \in [(1 .. n) \X V -> V]
  PROVE  \E f \in [0 .. n -> V] : Recurs(f, n, b, g)
<1> DEFINE Good(f, k) ==
             f[0] = b /\ \A i \in 1 .. k : f[i] = g[<<i, f[i - 1]>>]
           Bad == {k \in 0 .. n : ~ \E f \in [0 .. k -> V] : Good(f, k)}
<1>1. SUFFICES \E f \in [0 .. n -> V] : Good(f, n)
  BY <1>1 DEF Recurs
<1>2. SUFFICES ASSUME Bad # {} PROVE FALSE
  <2>1. n \notin Bad
    BY <1>2
  <2> QED BY <2>1
<1>3. PICK k \in Bad : \A j \in Bad : k <= j
  <2>1. Bad \in SUBSET Nat
    OBVIOUS
  <2> HIDE DEF Bad
  <2> QED BY <1>2, <2>1, NatMin
<1>4. k # 0
  <2>1. [i \in 0 .. 0 |-> b] \in [0 .. 0 -> V] /\ Good([i \in 0 .. 0 |-> b], 0)
    OBVIOUS
  <2> QED BY <2>1
<1>5. k - 1 \in 0 .. n /\ k - 1 \notin Bad
  BY <1>3, <1>4
<1>6. PICK f \in [0 .. k - 1 -> V] : Good(f, k - 1)
  BY <1>5
<1> DEFINE h == [i \in 0 .. k |-> IF i = k THEN g[<<k, f[k - 1]>>] ELSE f[i]]
<1>7. k \in 1 .. n /\ f[k - 1] \in V
  BY <1>4
<1>8. g[<<k, f[k - 1]>>] \in V
  BY <1>7
<1>9. h \in [0 .. k -> V]
  BY <1>7, <1>8
<1>10. Good(h, k)
  <2>1. h[0] = b
    BY <1>6, <1>7
  <2>2. ASSUME NEW i \in 1 .. k PROVE h[i] = g[<<i, h[i - 1]>>]
    <3>1. h[i - 1] = f[i - 1]
      BY <1>7
    <3>2. CASE i = k
      <4>1. h[k] = g[<<k, f[k - 1]>>]
        BY <1>7
      <4> HIDE DEF h
      <4>2. <<i, h[i - 1]>> = <<k, f[k - 1]>>
        BY <3>1, <3>2
      <4> QED BY <3>2, <4>1, <4>2
    <3>3. CASE i # k
      <4>1. i \in 1 .. k - 1 /\ h[i] = f[i]
        BY <1>7, <3>3
      <4>2. f[i] = g[<<i, f[i - 1]>>]
        BY <1>6, <4>1
      <4> QED BY <3>1, <4>1, <4>2
    <3> QED BY <3>2, <3>3
  <2> QED BY <2>1, <2>2
<1> HIDE DEF h
<1> QED BY <1>9, <1>10

(***************************************************************************)
(* Conversations                                                           *)
(***************************************************************************)

Hint == User("ephemeral")

Msg == [role : {"user", "calls", "tool"},
        text : {"", "directive", "hinted", "ephemeral"},
        round : Nat, ids : SUBSET Nat]

\* The message at i asks for calls 1, 2, ..., or answers one of those that were
\* asked for by the last message that is not an answer itself.
Asks(s, i) == \E n \in Nat \ {0} : s[i] = Calls(s[i].round, 1 .. n)
BehindCalls(s, i, k) ==
  /\ s[k].role = "calls"
  /\ \E n \in Nat \ {0} : s[k] = Calls(s[k].round, 1 .. n) /\ i - k <= n
  /\ s[i] = Answer(s[k].round, i - k)
  /\ \A j \in k + 1 .. i - 1 : s[j].role = "tool"
Behind(s, i) == \E k \in 1 .. i - 1 : BehindCalls(s, i, k)

Tidy(s) ==
  /\ s \in Seq(Msg)
  /\ \A i \in 1 .. Len(s) : /\ s[i].role = "calls" => Asks(s, i)
                            /\ s[i].role = "tool" => Behind(s, i)

\* All calls of i are answered; at most the last round is not; all are.
WholeTo(s, i, n) ==
  /\ s[i] = Calls(s[i].round, 1 .. n) /\ i + n <= Len(s)
  /\ \A j \in 1 .. n : s[i + j] = Answer(s[i].round, j)
Whole(s, i) == \E n \in Nat \ {0} : WholeTo(s, i, n)
Trailing(s, i) == \A j \in i + 1 .. Len(s) : s[j].role = "tool"
OpenEnd(s) == \A i \in Asking(s) : Whole(s, i) \/ Trailing(s, i)
AllWhole(s) == \A i \in Asking(s) : Whole(s, i)
Complete(s) == Tidy(s) /\ AllWhole(s)

LEMMA MsgFacts ==
  /\ \A text \in {"directive", "hinted", "ephemeral"} :
       User(text) \in Msg /\ User(text).role = "user"
  /\ Directive \in Msg /\ Hint \in Msg /\ Directive.role = "user" /\ Hint.role = "user"
  /\ \A r, n \in Nat : /\ Calls(r, 1 .. n) \in Msg /\ Calls(r, 1 .. n).role = "calls"
                       /\ Calls(r, 1 .. n).round = r /\ Calls(r, 1 .. n).ids = 1 .. n
                       /\ Answer(r, n) \in Msg /\ Answer(r, n).role = "tool"
                       /\ Answer(r, n).ids = {n} /\ Answer(r, n).round = r
BY DEF User, Calls, Answer, Directive, Hint, Msg

LEMMA AskingFacts ==
  ASSUME NEW s \in Seq(Msg)
  PROVE  /\ Asking(s) \subseteq 1 .. Len(s)
         /\ \A i \in 1 .. Len(s) : i \in Asking(s) <=> s[i].role = "calls"
         /\ \A i \in 1 .. Len(s) : s[i] \in Msg
BY DEF Asking

\* What holds of t at i holds of u at i + d, if u holds t from d on.
LEMMA Moved ==
  ASSUME NEW t \in Seq(Msg), NEW u \in Seq(Msg), NEW d \in Nat,
         d + Len(t) <= Len(u), \A i \in 1 .. Len(t) : u[i + d] = t[i],
         NEW i \in 1 .. Len(t)
  PROVE  /\ Asks(t, i) => Asks(u, i + d)
         /\ Behind(t, i) => Behind(u, i + d)
         /\ Whole(t, i) => Whole(u, i + d)
<1>1. Asks(t, i) => Asks(u, i + d)
  BY DEF Asks
<1>2. ASSUME Behind(t, i) PROVE Behind(u, i + d)
  <2>1. PICK k \in 1 .. i - 1 : BehindCalls(t, i, k)
    BY <1>2 DEF Behind
  <2>2. k + d \in 1 .. (i + d) - 1 /\ u[k + d] = t[k] /\ u[i + d] = t[i]
        /\ (i + d) - (k + d) = i - k
    BY <2>1
  <2>3. ASSUME NEW j \in (k + d) + 1 .. (i + d) - 1 PROVE u[j].role = "tool"
    <3>1. j - d \in k + 1 .. i - 1 /\ j - d \in 1 .. Len(t) /\ (j - d) + d = j
      BY <2>1
    <3>2. t[j - d].role = "tool" /\ u[(j - d) + d] = t[j - d]
      BY <2>1, <3>1 DEF BehindCalls
    <3> QED BY <3>1, <3>2
  <2>4. BehindCalls(u, i + d, k + d)
    BY <2>1, <2>2, <2>3 DEF BehindCalls
  <2> QED BY <2>2, <2>4 DEF Behind
<1>3. ASSUME Whole(t, i) PROVE Whole(u, i + d)
  <2>1. PICK n \in Nat \ {0} : WholeTo(t, i, n)
    BY <1>3 DEF Whole
  <2>2. ASSUME NEW j \in 1 .. n PROVE u[(i + d) + j] = Answer(u[i + d].round, j)
    <3>0. i + n <= Len(t)
      BY <2>1 DEF WholeTo
    <3>1. i + j \in 1 .. Len(t) /\ (i + j) + d = (i + d) + j
      BY ONLY <3>0, n \in Nat, i \in Nat, j \in 1 .. n, j \in Nat, i >= 1, d \in Nat,
              Len(t) \in Nat
    <3>2. u[(i + j) + d] = t[i + j] /\ u[i + d] = t[i]
      BY <3>1
    <3> QED BY <2>1, <3>1, <3>2 DEF WholeTo
  <2>3. WholeTo(u, i + d, n)
    BY <2>1, <2>2 DEF WholeTo
  <2> QED BY <2>3 DEF Whole
<1> QED BY <1>1, <1>2, <1>3

\* A window that does not begin with an answer shows a tidy conversation, of
\* whose rounds only the last may be cut, and none if it shows the end.
LEMMA Window ==
  ASSUME NEW s, Tidy(s), NEW v \in Seq(Msg), NEW d \in Nat,
         d + Len(v) <= Len(s), \A i \in 1 .. Len(v) : v[i] = s[i + d],
         d = 0 \/ Len(v) = 0 \/ v[1].role # "tool"
  PROVE  /\ Tidy(v)
         /\ \A i \in 1 .. Len(v) :
              Whole(s, i + d) => \/ Whole(v, i)
                                 \/ Trailing(v, i) /\ d + Len(v) < Len(s)
<1>1. ASSUME NEW i \in 1 .. Len(v), v[i].role = "calls" PROVE Asks(v, i)
  <2>1. Asks(s, i + d) /\ v[i] = s[i + d]
    BY <1>1 DEF Tidy
  <2> QED BY <2>1 DEF Asks
<1>2. ASSUME NEW i \in 1 .. Len(v), v[i].role = "tool" PROVE Behind(v, i)
  <2>1. Behind(s, i + d) /\ v[i] = s[i + d]
    BY <1>2 DEF Tidy
  <2>2. PICK k \in 1 .. (i + d) - 1 : BehindCalls(s, i + d, k)
    BY <2>1 DEF Behind
  <2>3. k > d
    <3>1. SUFFICES ASSUME k <= d PROVE FALSE
      OBVIOUS
    <3>2. d # 0 /\ v[1].role # "tool" /\ v[1] = s[1 + d] /\ i # 1
      BY <1>2, <2>2, <3>1
    <3>3. 1 + d \in k + 1 .. (i + d) - 1
      BY <3>1, <3>2
    <3> QED BY <2>2, <3>2, <3>3 DEF BehindCalls
  <2>4. k - d \in 1 .. i - 1 /\ v[k - d] = s[k] /\ i - (k - d) = (i + d) - k
    <3>1. k - d \in 1 .. i - 1 /\ k - d \in 1 .. Len(v) /\ (k - d) + d = k
      BY <2>3
    <3>2. v[k - d] = s[(k - d) + d]
      BY <3>1
    <3> QED BY <3>1, <3>2
  <2>5. ASSUME NEW j \in (k - d) + 1 .. i - 1 PROVE v[j].role = "tool"
    <3>1. j \in 1 .. Len(v) /\ j + d \in k + 1 .. (i + d) - 1
      BY <2>3
    <3> QED BY <2>2, <3>1 DEF BehindCalls
  <2>6. BehindCalls(v, i, k - d)
    BY <2>1, <2>2, <2>4, <2>5 DEF BehindCalls
  <2> QED BY <2>4, <2>6 DEF Behind
<1>3. ASSUME NEW i \in 1 .. Len(v), Whole(s, i + d)
      PROVE  Whole(v, i) \/ (Trailing(v, i) /\ d + Len(v) < Len(s))
  <2>1. PICK n \in Nat \ {0} : WholeTo(s, i + d, n)
    BY <1>3 DEF Whole
  <2>2. v[i] = s[i + d] /\ v[i].round \in Nat
    BY AskingFacts DEF Msg
  <2>3. ASSUME NEW j \in 1 .. n, i + j <= Len(v)
        PROVE  v[i + j] = Answer(v[i].round, j) /\ v[i + j].role = "tool"
    <3>1. i + j \in 1 .. Len(v) /\ (i + j) + d = (i + d) + j
      BY <2>3
    <3>2. v[i + j] = s[(i + d) + j]
      BY <3>1
    <3>3. v[i + j] = Answer(v[i].round, j)
      BY <2>1, <2>2, <3>2 DEF WholeTo
    <3> QED BY <2>2, <3>3, MsgFacts
  <2>4. CASE i + n <= Len(v)
    <3>1. WholeTo(v, i, n)
      BY <2>1, <2>2, <2>3, <2>4 DEF WholeTo
    <3> QED BY <3>1 DEF Whole
  <2>5. CASE i + n > Len(v)
    <3>1. d + Len(v) < Len(s)
      BY <2>1, <2>5 DEF WholeTo
    <3>2. ASSUME NEW j \in i + 1 .. Len(v) PROVE v[j].role = "tool"
      <4>1. j - i \in 1 .. n /\ i + (j - i) = j
        BY <2>5
      <4> QED BY <2>3, <4>1
    <3> QED BY <3>1, <3>2 DEF Trailing
  <2> QED BY <2>4, <2>5
<1> QED BY <1>1, <1>2, <1>3 DEF Tidy

LEMMA ConcatFacts ==
  ASSUME NEW s \in Seq(Msg), NEW t \in Seq(Msg)
  PROVE  /\ s \o t \in Seq(Msg) /\ Len(s \o t) = Len(s) + Len(t)
         /\ \A i \in 1 .. Len(s) : (s \o t)[i] = s[i]
         /\ \A i \in 1 .. Len(t) : (s \o t)[Len(s) + i] = t[i]
         /\ \A i \in 1 .. Len(s) + Len(t) :
              i \in 1 .. Len(s) \/ (i - Len(s) \in 1 .. Len(t) /\ i = Len(s) + (i - Len(s)))
OBVIOUS

LEMMA ConcatTidy ==
  ASSUME NEW s, Tidy(s), NEW t, Tidy(t)
  PROVE  /\ Tidy(s \o t)
         /\ AllWhole(s) /\ OpenEnd(t) => OpenEnd(s \o t)
         /\ AllWhole(s) /\ AllWhole(t) => AllWhole(s \o t)
         /\ \A i \in 1 .. Len(s) : Whole(s, i) => Whole(s \o t, i)
         /\ \A i \in 1 .. Len(t) : Whole(t, i) => Whole(s \o t, Len(s) + i)
<1> DEFINE u == s \o t
<1>1. s \in Seq(Msg) /\ t \in Seq(Msg)
  BY DEF Tidy
<1>2. /\ u \in Seq(Msg) /\ Len(u) = Len(s) + Len(t)
      /\ \A i \in 1 .. Len(s) : u[i] = s[i]
      /\ \A i \in 1 .. Len(t) : u[Len(s) + i] = t[i]
      /\ \A i \in 1 .. Len(u) :
           i \in 1 .. Len(s) \/ (i - Len(s) \in 1 .. Len(t) /\ i = Len(s) + (i - Len(s)))
  BY <1>1, ConcatFacts
<1> HIDE DEF u
<1>3. ASSUME NEW i \in 1 .. Len(s)
      PROVE  /\ Asks(s, i) => Asks(u, i)
             /\ Behind(s, i) => Behind(u, i)
             /\ Whole(s, i) => Whole(u, i)
  <2>1. \A j \in 1 .. Len(s) : u[j + 0] = s[j]
    BY <1>2
  <2>2. 0 + Len(s) <= Len(u) /\ 0 \in Nat /\ i + 0 = i
    BY <1>1, <1>2
  <2> QED BY <1>1, <1>2, <2>1, <2>2, Moved
<1>4. ASSUME NEW i \in 1 .. Len(t)
      PROVE  /\ Asks(t, i) => Asks(u, Len(s) + i)
             /\ Behind(t, i) => Behind(u, Len(s) + i)
             /\ Whole(t, i) => Whole(u, Len(s) + i)
  <2>1. \A j \in 1 .. Len(t) : u[j + Len(s)] = t[j]
    BY <1>1, <1>2
  <2>2. Len(s) + Len(t) <= Len(u) /\ Len(s) \in Nat /\ i + Len(s) = Len(s) + i
    BY <1>1, <1>2
  <2>3. /\ Asks(t, i) => Asks(u, i + Len(s))
        /\ Behind(t, i) => Behind(u, i + Len(s))
        /\ Whole(t, i) => Whole(u, i + Len(s))
    BY <1>1, <1>2, <2>1, <2>2, Moved
  <2> QED BY <2>2, <2>3
<1>5. Tidy(u)
  <2>1. ASSUME NEW i \in 1 .. Len(u)
        PROVE  /\ u[i].role = "calls" => Asks(u, i)
               /\ u[i].role = "tool" => Behind(u, i)
    <3>1. CASE i \in 1 .. Len(s)
      BY <1>2, <1>3, <3>1 DEF Tidy
    <3>2. CASE i - Len(s) \in 1 .. Len(t) /\ i = Len(s) + (i - Len(s))
      <4> DEFINE k == i - Len(s)
      <4>1. k \in 1 .. Len(t) /\ i = Len(s) + k
        BY <3>2
      <4> HIDE DEF k
      <4> QED BY <1>2, <1>4, <4>1 DEF Tidy
    <3> QED BY <1>2, <3>1, <3>2
  <2> QED BY <1>2, <2>1 DEF Tidy
<1>6. ASSUME AllWhole(s), NEW i \in Asking(u)
      PROVE  \/ Whole(u, i)
             \/ \E k \in Asking(t) : i = Len(s) + k
  <2>1. i \in 1 .. Len(u) /\ u[i].role = "calls"
    BY <1>2, AskingFacts
  <2>2. CASE i \in 1 .. Len(s)
    <3>1. i \in Asking(s)
      BY <1>1, <1>2, <2>1, <2>2, AskingFacts
    <3> QED BY <1>3, <1>6, <2>2, <3>1 DEF AllWhole
  <2>3. CASE i - Len(s) \in 1 .. Len(t) /\ i = Len(s) + (i - Len(s))
    <3> DEFINE k == i - Len(s)
    <3>1. k \in 1 .. Len(t) /\ i = Len(s) + k
      BY <2>3
    <3> HIDE DEF k
    <3>2. k \in Asking(t)
      BY <1>1, <1>2, <2>1, <3>1, AskingFacts
    <3> QED BY <3>1, <3>2
  <2> QED BY <1>2, <2>1, <2>2, <2>3
<1>7. ASSUME AllWhole(s), OpenEnd(t), NEW i \in Asking(u)
      PROVE  Whole(u, i) \/ Trailing(u, i)
  <2>1. SUFFICES ASSUME NEW k \in Asking(t), i = Len(s) + k, Trailing(t, k)
                 PROVE  Trailing(u, i)
    <3>1. \A k \in Asking(t) : k \in 1 .. Len(t)
      BY <1>1, AskingFacts
    <3> QED BY <1>4, <1>6, <1>7, <3>1 DEF OpenEnd
  <2>2. k \in 1 .. Len(t)
    BY <1>1, AskingFacts
  <2>3. ASSUME NEW j \in i + 1 .. Len(u) PROVE u[j].role = "tool"
    <3> DEFINE m == j - Len(s)
    <3>1. m \in k + 1 .. Len(t) /\ m \in 1 .. Len(t) /\ Len(s) + m = j
      BY <1>1, <1>2, <2>1, <2>2
    <3> HIDE DEF m
    <3>2. u[Len(s) + m] = t[m]
      BY <1>2, <3>1
    <3> QED BY <2>1, <3>1, <3>2 DEF Trailing
  <2> QED BY <2>3 DEF Trailing
<1>8. AllWhole(s) /\ AllWhole(t) => AllWhole(u)
  <2>1. \A k \in Asking(t) : k \in 1 .. Len(t)
    BY <1>1, AskingFacts
  <2> QED BY <1>4, <1>6, <2>1 DEF AllWhole
<1> QED BY <1>3, <1>4, <1>5, <1>7, <1>8 DEF OpenEnd, u

\* A prefix is cut in its last round at most.
LEMMA Prefix ==
  ASSUME NEW s, Tidy(s), NEW n \in 0 .. Len(s)
  PROVE  LET v == SubSeq(s, 1, n)
         IN  /\ Tidy(v) /\ Len(v) = n /\ \A i \in 1 .. n : v[i] = s[i]
             /\ Asking(v) = Asking(s) \cap (1 .. n)
             /\ AllWhole(s) => OpenEnd(v)
             /\ \A i \in 1 .. n : Whole(s, i) => Whole(v, i) \/ Trailing(v, i)
<1> DEFINE v == SubSeq(s, 1, n)
<1>1. /\ s \in Seq(Msg) /\ v \in Seq(Msg) /\ Len(v) = n /\ n \in Nat
      /\ \A i \in 1 .. Len(v) : v[i] = s[i]
  BY DEF Tidy
<1> HIDE DEF v
<1>2. /\ 0 \in Nat /\ 0 + Len(v) <= Len(s) /\ \A i \in 1 .. Len(v) : v[i] = s[i + 0]
  BY <1>1
<1>3. /\ Tidy(v)
      /\ \A i \in 1 .. Len(v) : Whole(s, i + 0) => Whole(v, i) \/ Trailing(v, i)
  BY <1>1, <1>2, Window
<1>4. \A i \in 1 .. n : Whole(s, i) => Whole(v, i) \/ Trailing(v, i)
  BY <1>1, <1>3
<1>5. Asking(v) = Asking(s) \cap (1 .. n)
  BY <1>1, AskingFacts DEF Asking
<1>6. AllWhole(s) => OpenEnd(v)
  BY <1>4, <1>5 DEF AllWhole, OpenEnd
<1> QED BY <1>1, <1>3, <1>4, <1>5, <1>6 DEF v

\* A suffix that does not begin with an answer keeps its rounds.
LEMMA SuffixTidy ==
  ASSUME NEW s, Tidy(s), NEW p \in 1 .. Len(s), s[p].role # "tool"
  PROVE  LET v == Suffix(s, p)
         IN  /\ Tidy(v) /\ Len(v) = Len(s) - p + 1
             /\ \A i \in 1 .. Len(v) : v[i] = s[i + (p - 1)]
             /\ AllWhole(s) => AllWhole(v)
<1> DEFINE v == Suffix(s, p)
<1>1. /\ s \in Seq(Msg) /\ v \in Seq(Msg) /\ Len(v) = Len(s) - p + 1
      /\ \A i \in 1 .. Len(v) : v[i] = s[i + (p - 1)]
  BY DEF Tidy, Suffix
<1> HIDE DEF v
<1>2. p - 1 \in Nat /\ (p - 1) + Len(v) = Len(s) /\ v[1] = s[p]
  BY <1>1
<1>3. /\ Tidy(v)
      /\ \A i \in 1 .. Len(v) : Whole(s, i + (p - 1)) => Whole(v, i)
  <2> DEFINE d == p - 1
  <2>1. /\ d \in Nat /\ d + Len(v) <= Len(s) /\ ~(d + Len(v) < Len(s))
        /\ v[1].role # "tool"
        /\ \A i \in 1 .. Len(v) : v[i] = s[i + d]
    BY <1>1, <1>2
  <2> HIDE DEF d
  <2>2. /\ Tidy(v)
        /\ \A i \in 1 .. Len(v) :
             Whole(s, i + d) => \/ Whole(v, i)
                                \/ Trailing(v, i) /\ d + Len(v) < Len(s)
    BY <1>1, <2>1, Window
  <2> QED BY <2>1, <2>2 DEF d
<1>4. ASSUME AllWhole(s), NEW i \in Asking(v) PROVE Whole(v, i)
  <2>1. i \in 1 .. Len(v) /\ v[i].role = "calls" /\ i + (p - 1) \in 1 .. Len(s)
    BY <1>1, <1>2, AskingFacts
  <2>2. i + (p - 1) \in Asking(s)
    BY <1>1, <2>1, AskingFacts
  <2> QED BY <1>3, <1>4, <2>1, <2>2 DEF AllWhole
<1> QED BY <1>1, <1>3, <1>4 DEF AllWhole, v

\* What executions add: the empty conversation, a user's message, a round.
LEMMA SmallOnes ==
  /\ Complete(<<>>) /\ Asking(<<>>) = {}
  /\ \A m \in Msg : m.role = "user" => Complete(<<m>>) /\ Asking(<<m>>) = {}
BY DEF Complete, Tidy, AllWhole, Asking

LEMMA RoundComplete ==
  ASSUME NEW r \in Nat, NEW n \in Nat \ {0}
  PROVE  LET u == RoundMessages(r, n)
         IN  /\ Complete(u) /\ Asking(u) = {1} /\ u[1].round = r
             /\ \A i \in 1 .. Len(u) : u[i] # Hint
<1> DEFINE u == RoundMessages(r, n)
           a == [i \in 1 .. n |-> Answer(r, i)]
           c == <<Calls(r, 1 .. n)>>
<1>0. /\ Calls(r, 1 .. n) \in Msg /\ Calls(r, 1 .. n).role = "calls"
      /\ Calls(r, 1 .. n).round = r
      /\ \A i \in 1 .. n : Answer(r, i) \in Msg /\ Answer(r, i).role = "tool"
      /\ Hint.role = "user"
  BY MsgFacts
<1>1. /\ c \in Seq(Msg) /\ Len(c) = 1 /\ c[1] = Calls(r, 1 .. n)
  BY <1>0
<1>2. a \in Seq(Msg) /\ Len(a) = n /\ \A i \in 1 .. n : a[i] = Answer(r, i)
  BY <1>0
<1>3. u = c \o a
  BY DEF RoundMessages
<1> HIDE DEF u, a, c
<1>4. /\ u \in Seq(Msg) /\ Len(u) = 1 + n /\ u[1] = Calls(r, 1 .. n)
      /\ \A i \in 1 .. n : u[1 + i] = Answer(r, i)
  <2>1. 1 \in 1 .. Len(c)
    BY <1>1
  <2>2. /\ u \in Seq(Msg) /\ Len(u) = Len(c) + Len(a) /\ u[1] = c[1]
        /\ \A i \in 1 .. Len(a) : u[Len(c) + i] = a[i]
    BY <1>1, <1>2, <1>3, <2>1, ConcatFacts
  <2>3. \A i \in 1 .. n : u[1 + i] = a[i]
    BY <1>1, <1>2, <2>2
  <2> QED BY <1>1, <1>2, <2>2, <2>3
<1>5. u[1].role = "calls" /\ u[1].round = r /\ \A i \in 1 .. n : u[1 + i].role = "tool"
  BY <1>0, <1>4
<1>6. \A i \in 2 .. Len(u) : u[i].role = "tool" /\ u[i] = Answer(r, i - 1)
  <2> TAKE i \in 2 .. Len(u)
  <2>1. i - 1 \in 1 .. n /\ 1 + (i - 1) = i
    BY <1>4
  <2> QED BY <1>4, <1>5, <2>1
<1>7. Asking(u) = {1}
  <2>1. \A i \in 1 .. Len(u) : i = 1 \/ i \in 2 .. Len(u)
    BY <1>4
  <2>2. 1 \in 1 .. Len(u)
    BY <1>4
  <2> QED BY <1>4, <1>5, <1>6, <2>1, <2>2, AskingFacts
<1>8. WholeTo(u, 1, n)
  BY <1>4, <1>5 DEF WholeTo
<1>9. ASSUME NEW i \in 2 .. Len(u) PROVE Behind(u, i)
  <2>1. BehindCalls(u, i, 1)
    BY <1>4, <1>5, <1>6 DEF BehindCalls
  <2> QED BY <2>1 DEF Behind
<1>10. Asks(u, 1)
  BY <1>4, <1>5 DEF Asks
<1>11. Tidy(u)
  BY <1>4, <1>5, <1>6, <1>9, <1>10 DEF Tidy
<1>12. \A i \in 1 .. Len(u) : u[i] # Hint
  <2>1. \A i \in 1 .. Len(u) : i = 1 \/ i \in 2 .. Len(u)
    BY <1>4
  <2> QED BY <1>0, <1>5, <1>6, <2>1
<1> QED BY <1>5, <1>7, <1>8, <1>11, <1>12 DEF Complete, AllWhole, Whole, u

(***************************************************************************)
(* Repair                                                                  *)
(***************************************************************************)

\* The calls that still wait for their answer after the first i messages.
WaitsFor(s, i, k) ==
  s[k].role = "calls" /\ \A j \in k + 1 .. i : s[j].role = "tool"
Waits(s, i) ==
  {id \in Nat : \E k \in 1 .. i : WaitsFor(s, i, k) /\ id \in s[k].ids /\ id > i - k}

ScanTo(s) ==
  CHOOSE f : f = [i \in 0 .. Len(s) |->
                    IF i = 0 THEN [out |-> <<>>, pending |-> {}]
                    ELSE RepairStep(f[i - 1], s[i])]
Seen(s, i) == [out |-> SubSeq(s, 1, i), pending |-> Waits(s, i)]

LEMMA LastCalls ==
  ASSUME NEW s, NEW i \in Nat, NEW k \in 1 .. i, NEW l \in 1 .. i,
         WaitsFor(s, i, k), WaitsFor(s, i, l)
  PROVE  k = l
<1>1. ~(k < l)
  BY DEF WaitsFor
<1>2. ~(l < k)
  BY DEF WaitsFor
<1> QED BY <1>1, <1>2

LEMMA IdsFacts ==
  \A r, x : Calls(r, x).ids = x /\ Answer(r, x).ids = {x}
BY DEF Calls, Answer

LEMMA StepFacts ==
  ASSUME NEW v, NEW P, NEW m
  PROVE  LET acc == [out |-> v, pending |-> P]
         IN  /\ m.role = "calls" =>
                  RepairStep(acc, m) = [out |-> Append(v, m), pending |-> m.ids]
             /\ m.role = "user" =>
                  RepairStep(acc, m) = [out |-> Append(v, m), pending |-> {}]
             /\ m.role = "tool" /\ m.ids \subseteq P =>
                  RepairStep(acc, m) = [out |-> Append(v, m), pending |-> P \ m.ids]
<1> DEFINE acc == [out |-> v, pending |-> P]
<1>1. acc.out = v /\ acc.pending = P
  OBVIOUS
<1> HIDE DEF acc
<1>2. CASE m.role = "calls"
  BY <1>1, <1>2 DEF RepairStep
<1>3. CASE m.role = "user"
  BY <1>1, <1>3 DEF RepairStep
<1>4. CASE m.role = "tool"
  BY <1>1, <1>4 DEF RepairStep
<1> QED BY <1>2, <1>3, <1>4 DEF acc

\* One message of a tidy conversation: it stays.
LEMMA SeenStep ==
  ASSUME NEW s, Tidy(s), NEW i \in 1 .. Len(s)
  PROVE  Seen(s, i) = RepairStep(Seen(s, i - 1), s[i])
<1> DEFINE v == SubSeq(s, 1, i - 1)
<1>1. s \in Seq(Msg) /\ s[i] \in Msg /\ s[i].role \in {"user", "calls", "tool"}
  BY AskingFacts DEF Tidy, Msg
<1>2. SubSeq(s, 1, i) = Append(v, s[i])
  BY <1>1
<1> HIDE DEF v
<1>3. Seen(s, i - 1) = [out |-> v, pending |-> Waits(s, i - 1)]
      /\ Seen(s, i) = [out |-> Append(v, s[i]), pending |-> Waits(s, i)]
  BY <1>2 DEF Seen, v
<1> DEFINE m == s[i]
           P == Waits(s, i - 1)
           acc == [out |-> v, pending |-> P]
<1>0. /\ m.role = "calls" =>
           RepairStep(acc, m) = [out |-> Append(v, m), pending |-> m.ids]
      /\ m.role = "user" =>
           RepairStep(acc, m) = [out |-> Append(v, m), pending |-> {}]
      /\ m.role = "tool" /\ m.ids \subseteq P =>
           RepairStep(acc, m) = [out |-> Append(v, m), pending |-> P \ m.ids]
  <2> HIDE DEF m, P
  <2> QED BY StepFacts
<1>4. CASE s[i].role = "calls"
  <2>1. PICK n \in Nat \ {0} : s[i] = Calls(s[i].round, 1 .. n)
    BY <1>4 DEF Tidy, Asks
  <2>2. s[i].ids = 1 .. n
    BY <2>1, IdsFacts
  <2>3. WaitsFor(s, i, i)
    BY <1>4 DEF WaitsFor
  <2>4. ASSUME NEW k \in 1 .. i, WaitsFor(s, i, k) PROVE k = i
    BY <2>3, <2>4, LastCalls
  <2>5. Waits(s, i) = {id \in Nat : id \in s[i].ids /\ id > i - i}
    BY <2>3, <2>4 DEF Waits
  <2>6. Waits(s, i) = s[i].ids
    BY <2>2, <2>5
  <2> QED BY <1>0, <1>3, <1>4, <2>6
<1>5. CASE s[i].role = "user"
  <2>1. ASSUME NEW k \in 1 .. i, WaitsFor(s, i, k) PROVE FALSE
    BY <1>5, <2>1 DEF WaitsFor
  <2>2. Waits(s, i) = {}
    BY <2>1 DEF Waits
  <2> QED BY <1>0, <1>3, <1>5, <2>2
<1>6. CASE s[i].role = "tool"
  <2>1. PICK k \in 1 .. i - 1 : BehindCalls(s, i, k)
    BY <1>6 DEF Tidy, Behind
  <2>2. PICK n \in Nat \ {0} : s[k] = Calls(s[k].round, 1 .. n) /\ i - k <= n
    BY <2>1 DEF BehindCalls
  <2>3. s[k].ids = 1 .. n /\ s[i].ids = {i - k}
    BY <2>1, <2>2, IdsFacts DEF BehindCalls
  <2>4. WaitsFor(s, i - 1, k) /\ WaitsFor(s, i, k) /\ k \in 1 .. i
    BY <1>6, <2>1 DEF WaitsFor, BehindCalls
  <2>5. Waits(s, i - 1) = {id \in Nat : id \in 1 .. n /\ id > (i - 1) - k}
    <3>1. \A l \in 1 .. i - 1 : WaitsFor(s, i - 1, l) => l = k
      BY <2>4, LastCalls
    <3> QED BY <2>3, <2>4, <3>1 DEF Waits
  <2>6. Waits(s, i) = {id \in Nat : id \in 1 .. n /\ id > i - k}
    <3>1. \A l \in 1 .. i : WaitsFor(s, i, l) => l = k
      BY <2>4, LastCalls
    <3> QED BY <2>3, <2>4, <3>1 DEF Waits
  <2>7. /\ s[i].ids \subseteq Waits(s, i - 1)
        /\ Waits(s, i) = Waits(s, i - 1) \ s[i].ids
    BY <2>2, <2>3, <2>5, <2>6
  <2> QED BY <1>0, <1>3, <1>6, <2>7
<1> QED BY <1>1, <1>4, <1>5, <1>6

LEMMA ScanTidy ==
  ASSUME NEW s, Tidy(s)
  PROVE  Scan(s) = [out |-> s, pending |-> Waits(s, Len(s))]
<1>1. s \in Seq(Msg) /\ Len(s) \in Nat
  BY DEF Tidy
<1> DEFINE n == Len(s)
           start == [out |-> <<>>, pending |-> {}]
           h == [i \in 0 .. n |-> Seen(s, i)]
           F(f) == [i \in 0 .. n |-> IF i = 0 THEN start ELSE RepairStep(f[i - 1], s[i])]
           g == ScanTo(s)
<1>2. Seen(s, 0) = start
  <2>1. SubSeq(s, 1, 0) = <<>>
    BY <1>1
  <2>2. Waits(s, 0) = {}
    BY DEF Waits
  <2> QED BY <2>1, <2>2 DEF Seen
<1>3. h = F(h)
  <2>1. ASSUME NEW i \in 1 .. n PROVE Seen(s, i) = RepairStep(h[i - 1], s[i])
    <3>1. h[i - 1] = Seen(s, i - 1)
      BY <1>1
    <3> QED BY <3>1, SeenStep
  <2>2. \A i \in 0 .. n : Seen(s, i) = IF i = 0 THEN start ELSE RepairStep(h[i - 1], s[i])
    BY <1>1, <1>2, <2>1
  <2> QED BY <2>2
<1>4. g = F(g)
  <2>1. \E f : f = F(f)
    BY <1>3
  <2> QED BY <2>1 DEF ScanTo
<1>5. g[0] = start /\ \A i \in 1 .. n : g[i] = RepairStep(g[i - 1], s[i])
  <2> HIDE DEF g
  <2>1. \A i \in 0 .. n : g[i] = IF i = 0 THEN start ELSE RepairStep(g[i - 1], s[i])
    BY <1>4
  <2> QED BY <1>1, <2>1
<1> DEFINE Bad == {i \in 0 .. n : g[i] # Seen(s, i)}
<1>6. Bad = {}
  <2>1. SUFFICES ASSUME Bad # {} PROVE FALSE
    OBVIOUS
  <2>2. Bad \in SUBSET Nat
    BY <1>1
  <2>3. PICK i \in Bad : \A j \in Bad : i <= j
    <3> HIDE DEF Bad
    <3> QED BY <2>1, <2>2, NatMin
  <2> HIDE DEF g
  <2>4. i # 0
    BY <1>2, <1>5, <2>3
  <2>5. i \in 1 .. n /\ g[i - 1] = Seen(s, i - 1)
    BY <1>1, <2>3, <2>4
  <2> QED BY <1>5, <2>3, <2>5, SeenStep
<1>7. g[n] = Seen(s, n)
  BY <1>1, <1>6
<1>8. Scan(s) = g[n]
  BY DEF Scan, ScanTo
<1>9. SubSeq(s, 1, n) = s
  BY <1>1
<1> QED BY <1>7, <1>8, <1>9 DEF Seen

\* Repair takes a cut last round away, and nothing else.
LEMMA RepairTidy ==
  ASSUME NEW s, Tidy(s)
  PROVE  \/ Repair(s) = s /\ \A k \in Asking(s) : Trailing(s, k) => Whole(s, k)
         \/ \E k \in Asking(s) : /\ Trailing(s, k) /\ ~Whole(s, k)
                                 /\ Repair(s) = SubSeq(s, 1, k - 1)
<1> DEFINE n == Len(s)
<1>1. s \in Seq(Msg) /\ n \in Nat /\ Asking(s) \subseteq 1 .. n
  BY AskingFacts DEF Tidy
<1>2. Repair(s) = IF Waits(s, n) = {} THEN s ELSE SubSeq(s, 1, Max(Asking(s)) - 1)
  BY ScanTidy DEF Repair, FilterIncomplete
<1>3. ASSUME NEW k \in Asking(s), Trailing(s, k)
      PROVE  /\ k \in 1 .. n /\ WaitsFor(s, n, k)
             /\ \E m \in Nat \ {0} :
                  /\ s[k] = Calls(s[k].round, 1 .. m) /\ s[k].ids = 1 .. m
                  /\ k + m <= n => Whole(s, k)
                  /\ Waits(s, n) = {id \in 1 .. m : id > n - k}
  <2>1. k \in 1 .. n /\ s[k].role = "calls"
    BY <1>1, AskingFacts
  <2>2. WaitsFor(s, n, k)
    BY <1>3, <2>1 DEF WaitsFor, Trailing
  <2>3. PICK m \in Nat \ {0} : s[k] = Calls(s[k].round, 1 .. m)
    BY <2>1 DEF Tidy, Asks
  <2>4. s[k].ids = 1 .. m
    BY <2>3, IdsFacts
  <2>5. Waits(s, n) = {id \in 1 .. m : id > n - k}
    <3>1. \A l \in 1 .. n : WaitsFor(s, n, l) => l = k
      BY <1>1, <2>1, <2>2, LastCalls
    <3> QED BY <2>1, <2>2, <2>4, <3>1 DEF Waits
  <2>6. ASSUME k + m <= n PROVE Whole(s, k)
    <3>1. ASSUME NEW j \in 1 .. m PROVE s[k + j] = Answer(s[k].round, j)
      <4>1. k + j \in 1 .. n /\ k + j \in k + 1 .. n
        BY <1>1, <2>1, <2>6
      <4>2. s[k + j].role = "tool"
        BY <1>3, <4>1 DEF Trailing
      <4>3. PICK l \in 1 .. (k + j) - 1 : BehindCalls(s, k + j, l)
        BY <4>1, <4>2 DEF Tidy, Behind
      <4>4. WaitsFor(s, (k + j) - 1, l)
        BY <4>3 DEF WaitsFor, BehindCalls
      <4>5. WaitsFor(s, (k + j) - 1, k) /\ k \in 1 .. (k + j) - 1 /\ (k + j) - 1 \in Nat
        BY <1>1, <2>1, <2>2, <4>1 DEF WaitsFor
      <4>6. l = k
        BY <4>4, <4>5, LastCalls
      <4>7. (k + j) - k = j
        BY <2>1
      <4> QED BY <4>3, <4>6, <4>7 DEF BehindCalls
    <3>2. WholeTo(s, k, m)
      BY <2>3, <2>6, <3>1 DEF WholeTo
    <3> QED BY <3>2 DEF Whole
  <2> QED BY <2>1, <2>2, <2>3, <2>4, <2>5, <2>6
<1>4. CASE Waits(s, n) = {}
  <2>1. ASSUME NEW k \in Asking(s), Trailing(s, k) PROVE Whole(s, k)
    <3>1. PICK m \in Nat \ {0} : /\ k + m <= n => Whole(s, k)
                                 /\ Waits(s, n) = {id \in 1 .. m : id > n - k}
      BY <1>3, <2>1
    <3>2. k \in 1 .. n
      BY <1>1
    <3>3. m \notin Waits(s, n)
      BY <1>4
    <3> QED BY <1>1, <3>1, <3>2, <3>3
  <2> QED BY <1>2, <1>4, <2>1
<1>5. CASE Waits(s, n) # {}
  <2>1. PICK k \in 1 .. n, id \in Nat : WaitsFor(s, n, k) /\ id \in s[k].ids /\ id > n - k
    BY <1>5 DEF Waits
  <2>2. k \in Asking(s) /\ Trailing(s, k)
    BY <1>1, <2>1, AskingFacts DEF WaitsFor, Trailing
  <2>3. ~Whole(s, k)
    <3>1. SUFFICES ASSUME Whole(s, k) PROVE FALSE
      OBVIOUS
    <3>2. PICK m \in Nat \ {0} : WholeTo(s, k, m)
      BY <3>1 DEF Whole
    <3>3. s[k].ids = 1 .. m /\ k + m <= n
      BY <3>2, IdsFacts DEF WholeTo
    <3> QED BY <1>1, <2>1, <3>3
  <2>4. Max(Asking(s)) = k
    <3>1. /\ Max(Asking(s)) \in Asking(s)
          /\ \A j \in Asking(s) : Max(Asking(s)) >= j
      BY <1>1, <2>2, MaxFacts
    <3>2. Max(Asking(s)) \in 1 .. n /\ Max(Asking(s)) >= k
      BY <1>1, <2>2, <3>1
    <3>3. s[Max(Asking(s))].role = "calls"
      BY <1>1, <3>1, <3>2, AskingFacts
    <3>4. ~(Max(Asking(s)) > k)
      <4>1. SUFFICES ASSUME Max(Asking(s)) > k PROVE FALSE
        OBVIOUS
      <4>2. Max(Asking(s)) \in k + 1 .. n
        BY <2>1, <3>2, <4>1
      <4> QED BY <2>2, <3>3, <4>2 DEF Trailing
    <3> QED BY <2>1, <3>2, <3>4
  <2> QED BY <1>2, <1>5, <2>2, <2>3, <2>4
<1> QED BY <1>4, <1>5

\* A round that is whole is not cut by the cut of a later one.
LEMMA WholeBefore ==
  ASSUME NEW s, Tidy(s), NEW i \in Asking(s), NEW k \in Asking(s), i < k, Whole(s, i)
  PROVE  LET v == SubSeq(s, 1, k - 1)
         IN  i \in Asking(v) /\ Whole(v, i) /\ v[i] = s[i]
<1> DEFINE v == SubSeq(s, 1, k - 1)
<1>1. s \in Seq(Msg) /\ i \in 1 .. Len(s) /\ k \in 1 .. Len(s) /\ s[k].role = "calls"
  BY AskingFacts DEF Tidy
<1>2. PICK n \in Nat \ {0} : WholeTo(s, i, n)
  BY DEF Whole
<1>3. k - 1 \in 0 .. Len(s) /\ i \in 1 .. k - 1
  BY <1>1
<1>4. /\ Len(v) = k - 1 /\ \A j \in 1 .. k - 1 : v[j] = s[j]
      /\ Asking(v) = Asking(s) \cap (1 .. k - 1)
  BY <1>3, Prefix
<1> HIDE DEF v
<1>5. ~(k <= i + n)
  <2>1. SUFFICES ASSUME k <= i + n PROVE FALSE
    OBVIOUS
  <2>2. k - i \in 1 .. n /\ i + (k - i) = k
    BY <1>1, <2>1
  <2>3. s[k] = Answer(s[i].round, k - i) /\ s[i].round \in Nat
    BY <1>1, <1>2, <2>2, AskingFacts DEF WholeTo, Msg
  <2> QED BY <1>1, <2>2, <2>3, MsgFacts
<1>6. WholeTo(v, i, n)
  <2>1. v[i] = s[i] /\ i + n <= Len(v)
    BY <1>1, <1>3, <1>4, <1>5
  <2>2. ASSUME NEW j \in 1 .. n PROVE v[i + j] = Answer(v[i].round, j)
    <3>1. i + j \in 1 .. k - 1
      BY <1>1, <1>5
    <3> QED BY <1>2, <1>4, <2>1, <3>1 DEF WholeTo
  <2> QED BY <1>2, <2>1, <2>2 DEF WholeTo
<1>7. i \in Asking(v) /\ v[i] = s[i]
  BY <1>3, <1>4
<1> QED BY <1>6, <1>7 DEF Whole, v

LEMMA RepairFacts ==
  ASSUME NEW s, Tidy(s)
  PROVE  /\ Tidy(Repair(s))
         /\ \E n \in 0 .. Len(s) : Repair(s) = SubSeq(s, 1, n)
         /\ \A i \in Asking(s) : Whole(s, i) =>
              i \in Asking(Repair(s)) /\ Whole(Repair(s), i) /\ Repair(s)[i] = s[i]
         /\ OpenEnd(s) => Complete(Repair(s))
         /\ AllWhole(s) => Repair(s) = s
<1>1. s \in Seq(Msg) /\ Len(s) \in Nat /\ SubSeq(s, 1, Len(s)) = s
      /\ Asking(s) \subseteq 1 .. Len(s)
  BY AskingFacts DEF Tidy
<1>2. CASE Repair(s) = s /\ \A k \in Asking(s) : Trailing(s, k) => Whole(s, k)
  <2>1. \E n \in 0 .. Len(s) : Repair(s) = SubSeq(s, 1, n)
    <3>1. Len(s) \in 0 .. Len(s) /\ Repair(s) = SubSeq(s, 1, Len(s))
      BY <1>1, <1>2
    <3> QED BY <3>1
  <2>2. OpenEnd(s) => AllWhole(s)
    BY <1>2 DEF OpenEnd, AllWhole
  <2> QED BY <1>2, <2>1, <2>2 DEF Complete
<1>3. CASE \E k \in Asking(s) : /\ Trailing(s, k) /\ ~Whole(s, k)
                                /\ Repair(s) = SubSeq(s, 1, k - 1)
  <2>1. PICK k \in Asking(s) : /\ Trailing(s, k) /\ ~Whole(s, k)
                               /\ Repair(s) = SubSeq(s, 1, k - 1)
    BY <1>3
  <2> DEFINE v == SubSeq(s, 1, k - 1)
  <2>2. k - 1 \in 0 .. Len(s) /\ k \in 1 .. Len(s) /\ s[k].role = "calls"
    BY <1>1, AskingFacts
  <2>3. Tidy(v) /\ Asking(v) = Asking(s) \cap (1 .. k - 1)
    BY <2>2, Prefix
  <2>4. ASSUME NEW i \in Asking(s), Whole(s, i)
        PROVE  i \in Asking(v) /\ Whole(v, i) /\ v[i] = s[i]
    <3>1. i < k
      <4>1. SUFFICES ASSUME i > k PROVE FALSE
        BY <1>1, <2>1, <2>4
      <4>2. i \in k + 1 .. Len(s) /\ s[i].role = "calls"
        BY <1>1, <2>2, <4>1, AskingFacts
      <4> QED BY <2>1, <4>2 DEF Trailing
    <3> QED BY <2>4, <3>1, WholeBefore
  <2>5. ASSUME OpenEnd(s) PROVE AllWhole(v)
    <3>1. ASSUME NEW i \in Asking(v) PROVE Whole(v, i)
      <4>1. i \in Asking(s) /\ i \in 1 .. k - 1
        BY <2>3
      <4>2. ~Trailing(s, i)
        <5>1. k \in i + 1 .. Len(s)
          BY <2>2, <4>1
        <5> QED BY <2>2, <5>1 DEF Trailing
      <4> QED BY <2>4, <2>5, <4>1, <4>2 DEF OpenEnd
    <3> QED BY <3>1 DEF AllWhole
  <2>6. ~AllWhole(s)
    BY <2>1 DEF AllWhole
  <2> HIDE DEF v
  <2> QED BY <2>1, <2>2, <2>3, <2>4, <2>5, <2>6 DEF Complete, v
<1> QED BY <1>2, <1>3, RepairTidy

\* A whole round is answered.
LEMMA WholeAnswered ==
  ASSUME NEW s \in Seq(Msg), NEW i \in Asking(s), Whole(s, i)
  PROVE  Answered(s, i)
<1>1. i \in Nat
  BY AskingFacts
<1>2. PICK n \in Nat \ {0} : WholeTo(s, i, n)
  BY DEF Whole
<1>3. s[i].ids = 1 .. n
  BY <1>2, IdsFacts DEF WholeTo
<1>4. Cardinality(s[i].ids) = n
  <2>1. Cardinality(1 .. n) = n
    BY FS_Interval
  <2> QED BY <1>3, <2>1
<1>5. {s[j] : j \in i + 1 .. i + n} = {Answer(s[i].round, id) : id \in s[i].ids}
  <2>1. ASSUME NEW j \in i + 1 .. i + n
        PROVE  j - i \in s[i].ids /\ s[j] = Answer(s[i].round, j - i)
    <3>1. j - i \in 1 .. n /\ i + (j - i) = j
      BY <1>1
    <3> QED BY <1>2, <1>3, <3>1 DEF WholeTo
  <2>2. ASSUME NEW id \in s[i].ids
        PROVE  i + id \in i + 1 .. i + n /\ s[i + id] = Answer(s[i].round, id)
    BY <1>1, <1>2, <1>3 DEF WholeTo
  <2> QED BY <2>1, <2>2
<1>6. i + n <= Len(s)
  BY <1>2 DEF WholeTo
<1> QED BY <1>4, <1>5, <1>6 DEF Answered

\* What a provider accepts.
LEMMA CompletePaired ==
  ASSUME NEW s, Complete(s)
  PROVE  Paired(s)
<1>1. s \in Seq(Msg) /\ DOMAIN s = 1 .. Len(s) /\ Asking(s) \subseteq 1 .. Len(s)
  BY AskingFacts DEF Complete, Tidy
<1>2. ASSUME NEW i \in DOMAIN s, s[i].role = "calls" PROVE Answered(s, i)
  <2>1. i \in Asking(s)
    BY <1>2 DEF Asking
  <2> QED BY <1>1, <2>1, WholeAnswered DEF Complete, AllWhole
<1>3. ASSUME NEW i \in DOMAIN s, s[i].role = "tool"
      PROVE  \E k \in 1 .. i - 1 : /\ s[k].role = "calls"
                                   /\ i <= k + Cardinality(s[k].ids)
  <2>1. PICK k \in 1 .. i - 1 : BehindCalls(s, i, k)
    BY <1>1, <1>3 DEF Complete, Tidy, Behind
  <2>2. PICK n \in Nat \ {0} : s[k] = Calls(s[k].round, 1 .. n) /\ i - k <= n
    BY <2>1 DEF BehindCalls
  <2>3. Cardinality(1 .. n) = n
    BY FS_Interval
  <2>4. Cardinality(s[k].ids) = n
    BY <2>2, <2>3, IdsFacts
  <2>5. i <= k + n
    BY <1>1, <2>2
  <2> QED BY <2>1, <2>4, <2>5 DEF BehindCalls
<1> QED BY <1>2, <1>3 DEF Paired

(***************************************************************************)
(* Compression and the prompt                                              *)
(***************************************************************************)

LEMMA CompressFacts ==
  ASSUME NEW s, Tidy(s)
  PROVE  /\ Tidy(Compress(s))
         /\ AllWhole(s) => AllWhole(Compress(s))
         /\ \A i \in Asking(s) :
              Len(Suffix(s, i)) <= Budget => s[i].round \in RoundsOf(Compress(s))
<1> DEFINE S == SegmentStarts(s)
           fits == {i \in S : Len(Suffix(s, i)) <= Budget}
<1>1. /\ s \in Seq(Msg) /\ Len(s) \in Nat /\ S \subseteq 1 .. Len(s)
      /\ \A i \in 1 .. Len(s) : i \in S <=> s[i].role # "tool"
      /\ Asking(s) \subseteq S
  BY DEF Tidy, SegmentStarts, Asking
<1>2. CASE Len(s) <= Budget
  <2>1. Compress(s) = s
    BY <1>2 DEF Compress
  <2> QED BY <2>1 DEF RoundsOf
<1>3. CASE ~(Len(s) <= Budget)
  <2> DEFINE p == IF fits = {} THEN Max(S) ELSE Min(fits)
             v == Suffix(s, p)
  <2>1. Compress(s) = v
    BY <1>3 DEF Compress
  <2>2. 1 \in S
    <3>1. 1 \in 1 .. Len(s)
      BY <1>1, <1>3, BudgetAssumption
    <3>2. ~Behind(s, 1)
      BY DEF Behind
    <3> QED BY <1>1, <3>1, <3>2 DEF Tidy
  <2>3. fits \in SUBSET Nat /\ fits \subseteq S
    BY <1>1
  <2>4. p \in S /\ \A i \in fits : p <= i
    <3> HIDE DEF S, fits
    <3>1. CASE fits = {}
      BY <1>1, <2>2, <3>1, MaxFacts
    <3>2. CASE fits # {}
      BY <2>3, <3>2, MinFacts
    <3> QED BY <3>1, <3>2
  <2> HIDE DEF p
  <2>5. p \in 1 .. Len(s) /\ s[p].role # "tool"
    BY <1>1, <2>4
  <2>6. /\ Tidy(v) /\ Len(v) = Len(s) - p + 1
        /\ \A i \in 1 .. Len(v) : v[i] = s[i + (p - 1)]
        /\ AllWhole(s) => AllWhole(v)
    BY <2>5, SuffixTidy
  <2>7. ASSUME NEW i \in Asking(s), Len(Suffix(s, i)) <= Budget
        PROVE  s[i].round \in RoundsOf(v)
    <3>1. i \in fits /\ i \in 1 .. Len(s) /\ s[i].role = "calls"
      BY <1>1, <2>7, AskingFacts
    <3>2. p <= i
      BY <2>4, <3>1
    <3> DEFINE j == i - (p - 1)
    <3>3. j \in 1 .. Len(v) /\ j + (p - 1) = i
      BY <2>5, <2>6, <3>1, <3>2
    <3> HIDE DEF j, v
    <3>4. v[j] = s[i]
      BY <2>6, <3>3
    <3>5. v \in Seq(Msg)
      BY <2>6 DEF Tidy
    <3>6. j \in Asking(v)
      BY <3>1, <3>3, <3>4, <3>5, AskingFacts
    <3> QED BY <3>4, <3>6 DEF RoundsOf
  <2> QED BY <2>1, <2>6, <2>7
<1> QED BY <1>2, <1>3

LEMMA MergeFacts ==
  ASSUME NEW s, Tidy(s)
  PROVE  /\ Tidy(Merge(s))
         /\ OpenEnd(s) => OpenEnd(Merge(s))
         /\ Merge(s) = s \/ Merge(s) = <<Directive>> \o s
<1>1. Merge(s) = s \/ Merge(s) = <<Directive>> \o s
  BY DEF Merge
<1>2. Complete(<<Directive>>)
  BY SmallOnes, MsgFacts
<1>3. Tidy(<<Directive>> \o s) /\ (OpenEnd(s) => OpenEnd(<<Directive>> \o s))
  BY <1>2, ConcatTidy DEF Complete
<1> QED BY <1>1, <1>3

\* A directive in front changes nothing of what repair cuts off.
LEMMA RepairBehindDirective ==
  ASSUME NEW s, Tidy(s), OpenEnd(s)
  PROVE  LET c == <<Directive>> \o s
         IN  /\ Len(Repair(c)) = Len(Repair(s)) + 1
             /\ \A i \in 1 .. Len(Repair(s)) : Repair(c)[1 + i] = Repair(s)[i]
<1> DEFINE D == <<Directive>>
           c == D \o s
<1>1. s \in Seq(Msg) /\ Len(s) \in Nat /\ Asking(s) \subseteq 1 .. Len(s)
  BY AskingFacts DEF Tidy
<1>2. Complete(D) /\ D \in Seq(Msg) /\ Len(D) = 1
  BY SmallOnes, MsgFacts
<1> HIDE DEF D
<1>3. /\ c \in Seq(Msg) /\ Len(c) = 1 + Len(s)
      /\ \A i \in 1 .. Len(s) : c[1 + i] = s[i]
  <2>1. /\ c \in Seq(Msg) /\ Len(c) = Len(D) + Len(s)
        /\ \A i \in 1 .. Len(s) : c[Len(D) + i] = s[i]
    BY <1>1, <1>2, ConcatFacts
  <2> QED BY <1>2, <2>1
<1>4. /\ Tidy(c) /\ OpenEnd(c)
      /\ AllWhole(s) => AllWhole(c)
  BY <1>2, ConcatTidy DEF Complete
<1> HIDE DEF c
<1>5. CASE Repair(s) = s /\ \A k \in Asking(s) : Trailing(s, k) => Whole(s, k)
  <2>1. AllWhole(s)
    BY <1>5 DEF OpenEnd, AllWhole
  <2>2. Repair(c) = c
    BY <1>4, <2>1, RepairFacts
  <2>3. /\ Len(Repair(c)) = Len(Repair(s)) + 1
        /\ \A i \in 1 .. Len(Repair(s)) : Repair(c)[1 + i] = Repair(s)[i]
    BY <1>1, <1>3, <1>5, <2>2
  <2> QED BY <2>3 DEF c, D
<1>6. CASE \E k \in Asking(s) : /\ Trailing(s, k) /\ ~Whole(s, k)
                                /\ Repair(s) = SubSeq(s, 1, k - 1)
  <2>1. PICK k \in Asking(s) : /\ Trailing(s, k) /\ ~Whole(s, k)
                               /\ Repair(s) = SubSeq(s, 1, k - 1)
    BY <1>6
  <2>2. k \in 1 .. Len(s) /\ s[k].role = "calls" /\ k - 1 \in 0 .. Len(s)
    BY <1>1, AskingFacts
  <2>3. 1 + k \in Asking(c)
    <3>1. 1 + k \in 1 .. Len(c) /\ c[1 + k].role = "calls"
      BY <1>1, <1>3, <2>2
    <3> QED BY <1>3, <3>1, AskingFacts
  <2>4. ~Whole(c, 1 + k)
    <3>1. /\ 1 \in Nat /\ 1 + Len(s) <= Len(c) /\ ~(1 + Len(s) < Len(c))
          /\ \A i \in 1 .. Len(s) : s[i] = c[i + 1]
      BY <1>1, <1>3
    <3>2. s[1].role # "tool"
      <4>1. ~Behind(s, 1) /\ 1 \in 1 .. Len(s)
        BY <1>1, <2>2 DEF Behind
      <4> QED BY <4>1 DEF Tidy
    <3>3. Whole(c, k + 1) => Whole(s, k) \/ (Trailing(s, k) /\ 1 + Len(s) < Len(c))
      BY <1>1, <1>4, <2>2, <3>1, <3>2, Window
    <3>4. k + 1 = 1 + k
      BY <1>1
    <3> QED BY <2>1, <3>1, <3>3, <3>4
  <2>5. PICK l \in Asking(c) : /\ Trailing(c, l) /\ ~Whole(c, l)
                               /\ Repair(c) = SubSeq(c, 1, l - 1)
    <3>1. ~ \A j \in Asking(c) : Trailing(c, j) => Whole(c, j)
      <4>1. Trailing(c, 1 + k)
        BY <1>4, <2>3, <2>4 DEF OpenEnd
      <4> QED BY <2>3, <2>4, <4>1
    <3> QED BY <1>4, <3>1, RepairTidy
  <2>6. l = 1 + k
    <3>1. Trailing(c, 1 + k)
      BY <1>4, <2>3, <2>4 DEF OpenEnd
    <3>2. l \in 1 .. Len(c) /\ c[l].role = "calls"
      BY <1>3, AskingFacts
    <3>3. 1 + k \in 1 .. Len(c) /\ c[1 + k].role = "calls"
      BY <1>3, <2>3, AskingFacts
    <3>4. ~(l < 1 + k)
      <4>1. l < 1 + k => 1 + k \in l + 1 .. Len(c)
        BY <3>2, <3>3
      <4> QED BY <2>5, <3>3, <4>1 DEF Trailing
    <3>5. ~(1 + k < l)
      <4>1. 1 + k < l => l \in (1 + k) + 1 .. Len(c)
        BY <3>2, <3>3
      <4> QED BY <3>1, <3>2, <4>1 DEF Trailing
    <3> QED BY <3>2, <3>3, <3>4, <3>5
  <2>7. Repair(c) = SubSeq(c, 1, k)
    <3>1. l - 1 = k
      BY <1>1, <2>2, <2>6
    <3> QED BY <2>5, <3>1
  <2>8. /\ Len(Repair(s)) = k - 1 /\ \A i \in 1 .. k - 1 : Repair(s)[i] = s[i]
    BY <2>1, <2>2, Prefix
  <2>9. /\ Len(Repair(c)) = k /\ \A i \in 1 .. k : Repair(c)[i] = c[i]
    <3>1. k \in 0 .. Len(c)
      BY <1>1, <1>3, <2>2
    <3> QED BY <1>4, <2>7, <3>1, Prefix
  <2>10. \A i \in 1 .. k - 1 : Repair(c)[1 + i] = Repair(s)[i]
    <3> TAKE i \in 1 .. k - 1
    <3>1. 1 + i \in 1 .. k /\ i \in 1 .. Len(s)
      BY <2>2
    <3> QED BY <1>3, <2>8, <2>9, <3>1
  <2>11. Len(Repair(c)) = Len(Repair(s)) + 1
    BY <2>2, <2>8, <2>9
  <2> QED BY <2>8, <2>10, <2>11 DEF c, D
<1> QED BY <1>5, <1>6, RepairTidy

\* What a prompt is prepared from.
LEMMA MaterializeFacts ==
  ASSUME NEW s, Tidy(s)
  PROVE  /\ Tidy(Materialize(s))
         /\ OpenEnd(s) => Complete(Materialize(s))
         /\ OpenEnd(s) =>
              \A i \in Asking(Repair(s)) :
                Len(Suffix(Repair(s), i)) <= Budget =>
                  Repair(s)[i].round \in RoundsOf(Materialize(s))
<1> DEFINE c == Merge(s)
           rep == Repair(c)
           cut == Compress(rep)
<1>1. Tidy(c) /\ (OpenEnd(s) => OpenEnd(c)) /\ (c = s \/ c = <<Directive>> \o s)
  BY MergeFacts
<1>2. Materialize(s) = Repair(cut)
  BY DEF Materialize, Shrink
<1> HIDE DEF c
<1>3. Tidy(rep) /\ (OpenEnd(s) => Complete(rep))
  BY <1>1, RepairFacts
<1> HIDE DEF rep
<1>4. /\ Tidy(cut)
      /\ AllWhole(rep) => AllWhole(cut)
      /\ \A i \in Asking(rep) :
           Len(Suffix(rep, i)) <= Budget => rep[i].round \in RoundsOf(cut)
  BY <1>3, CompressFacts
<1> HIDE DEF cut
<1>5. Tidy(Materialize(s)) /\ (OpenEnd(s) => Materialize(s) = cut /\ Complete(cut))
  BY <1>2, <1>3, <1>4, RepairFacts DEF Complete
<1>6. ASSUME OpenEnd(s), NEW i \in Asking(Repair(s)), Len(Suffix(Repair(s), i)) <= Budget
      PROVE  Repair(s)[i].round \in RoundsOf(cut)
  <2> DEFINE st == Repair(s)
  <2>1. CASE c = s
    BY <1>4, <1>6, <2>1 DEF rep
  <2>2. CASE c = <<Directive>> \o s
    <3>1. st \in Seq(Msg) /\ i \in 1 .. Len(st) /\ st[i].role = "calls"
      BY RepairFacts, AskingFacts DEF Tidy
    <3>2. /\ Len(rep) = Len(st) + 1
          /\ \A j \in 1 .. Len(st) : rep[1 + j] = st[j]
      BY <1>6, <2>2, RepairBehindDirective DEF rep
    <3>3. rep \in Seq(Msg)
      BY <1>3 DEF Tidy
    <3> HIDE DEF st
    <3>4. 1 + i \in 1 .. Len(rep) /\ rep[1 + i] = st[i]
      BY <3>1, <3>2
    <3>5. 1 + i \in Asking(rep)
      BY <3>1, <3>3, <3>4, AskingFacts
    <3>6. Len(Suffix(rep, 1 + i)) = Len(Suffix(st, i))
      BY <3>1, <3>2, <3>3, <3>4 DEF Suffix
    <3> QED BY <1>4, <1>6, <3>4, <3>5, <3>6 DEF st
  <2> QED BY <1>1, <2>1, <2>2
<1> QED BY <1>5, <1>6

(***************************************************************************)
(* Hints                                                                   *)
(***************************************************************************)

KeptTo(s) ==
  CHOOSE f : f = [i \in 0 .. Len(s) |->
                    IF i = 0 THEN <<>>
                    ELSE IF s[i] = User("ephemeral") THEN f[i - 1]
                    ELSE Append(f[i - 1], s[i])]

LEMMA KeptFacts ==
  ASSUME NEW s \in Seq(Msg)
  PROVE  /\ WithoutHints(s) = KeptTo(s)[Len(s)]
         /\ KeptTo(s)[0] = <<>>
         /\ \A i \in 1 .. Len(s) :
              KeptTo(s)[i] = IF s[i] = Hint THEN KeptTo(s)[i - 1]
                             ELSE Append(KeptTo(s)[i - 1], s[i])
         /\ \A i \in 0 .. Len(s) : KeptTo(s)[i] \in Seq(Msg)
<1> DEFINE n == Len(s)
           V == Seq(Msg)
           G == [q \in (1 .. n) \X V |->
                   IF s[q[1]] = Hint THEN q[2] ELSE Append(q[2], s[q[1]])]
           K(f) == [i \in 0 .. n |->
                      IF i = 0 THEN <<>>
                      ELSE IF s[i] = Hint THEN f[i - 1] ELSE Append(f[i - 1], s[i])]
           g == KeptTo(s)
<1>1. n \in Nat /\ <<>> \in V /\ \A i \in 1 .. n : s[i] \in Msg
  BY AskingFacts
<1>2. G \in [(1 .. n) \X V -> V]
  <2>1. ASSUME NEW q \in (1 .. n) \X V
        PROVE  (IF s[q[1]] = Hint THEN q[2] ELSE Append(q[2], s[q[1]])) \in V
    <3>1. q[1] \in 1 .. n /\ q[2] \in V
      OBVIOUS
    <3>2. s[q[1]] \in Msg
      BY <1>1, <3>1
    <3>3. Append(q[2], s[q[1]]) \in V
      BY <3>1, <3>2
    <3> QED BY <3>1, <3>3
  <2> QED BY <2>1
<1>3. \A i \in 1 .. n : \A v \in V :
        G[<<i, v>>] = IF s[i] = Hint THEN v ELSE Append(v, s[i])
  OBVIOUS
<1> DEFINE b == <<>>
<1>b. b \in V /\ b = <<>>
  BY <1>1
<1> HIDE DEF G, V, b, n
<1>0. \E f \in [0 .. n -> V] : Recurs(f, n, b, G)
  <2>1. n \in Nat /\ b \in V /\ G \in [(1 .. n) \X V -> V]
    BY <1>1, <1>2, <1>b
  <2> HIDE DEF K, g
  <2> QED BY ONLY <2>1, Recursion, ZenonT(30)
<1>4. PICK f \in [0 .. n -> V] : Recurs(f, n, b, G)
  BY <1>0
<1>5. f[0] = b /\ \A i \in 1 .. n : f[i] = G[<<i, f[i - 1]>>]
  BY <1>4 DEF Recurs
<1>6. ASSUME NEW i \in 1 .. n
      PROVE  f[i] = IF s[i] = Hint THEN f[i - 1] ELSE Append(f[i - 1], s[i])
  <2> DEFINE v == f[i - 1]
  <2>1. i \in 0 .. n /\ i # 0 /\ i - 1 \in 0 .. n
    BY <1>1
  <2>2. v \in V
    BY <1>4, <2>1
  <2>3. f[i] = G[<<i, v>>]
    BY <1>5
  <2> HIDE DEF v
  <2>4. f[i] = IF s[i] = Hint THEN v ELSE Append(v, s[i])
    BY <1>3, <2>2, <2>3
  <2> QED BY <2>4 DEF v
<1>8. f = K(f)
  <2>1. ASSUME NEW i \in 0 .. n PROVE f[i] = K(f)[i]
    <3>1. CASE i = 0
      BY <1>5, <1>b, <3>1
    <3>2. CASE i # 0
      <4>1. i \in 1 .. n
        BY <1>1, <3>2
      <4>2. f[i] = IF s[i] = Hint THEN f[i - 1] ELSE Append(f[i - 1], s[i])
        BY <1>6, <4>1
      <4> QED BY <3>2, <4>2
    <3> QED BY <3>1, <3>2
  <2> HIDE DEF K
  <2>2. K(f) = [i \in 0 .. n |-> K(f)[i]]
    BY DEF K
  <2>3. f = [i \in 0 .. n |-> f[i]]
    BY <1>4
  <2> QED BY <2>1, <2>2, <2>3
<1>9. g = K(g)
  <2>1. \E h : h = K(h)
    BY <1>8
  <2> QED BY <2>1 DEF KeptTo, Hint, n
<1>10. /\ g[0] = <<>>
       /\ \A i \in 1 .. n :
            g[i] = IF s[i] = Hint THEN g[i - 1] ELSE Append(g[i - 1], s[i])
  <2> HIDE DEF g
  <2>1. \A i \in 0 .. n :
          g[i] = IF i = 0 THEN <<>>
                 ELSE IF s[i] = Hint THEN g[i - 1] ELSE Append(g[i - 1], s[i])
    BY <1>9
  <2> QED BY <1>1, <2>1
<1> DEFINE Bad == {i \in 0 .. n : g[i] \notin V}
<1>11. Bad = {}
  <2>1. SUFFICES ASSUME Bad # {} PROVE FALSE
    OBVIOUS
  <2>2. Bad \in SUBSET Nat
    BY <1>1
  <2>3. PICK i \in Bad : \A j \in Bad : i <= j
    <3> HIDE DEF Bad
    <3> QED BY <2>1, <2>2, NatMin
  <2> HIDE DEF g
  <2>4. i \in 1 .. n /\ g[i - 1] \in V
    <3>1. i # 0
      BY <1>1, <1>10, <2>3
    <3> QED BY <1>1, <2>3, <3>1
  <2>5. g[i] \in V
    <3>1. Append(g[i - 1], s[i]) \in V
      BY <1>1, <2>4 DEF V
    <3> QED BY <1>10, <2>4, <3>1
  <2> QED BY <2>3, <2>5
<1>12. WithoutHints(s) = g[n]
  BY DEF WithoutHints, KeptTo, n
<1> QED BY <1>10, <1>11, <1>12 DEF V, n

LEMMA KeepEmpty == WithoutHints(<<>>) = <<>>
<1>1. <<>> \in Seq(Msg) /\ Len(<<>>) = 0
  OBVIOUS
<1> QED BY <1>1, KeptFacts

LEMMA KeepAppend ==
  ASSUME NEW s \in Seq(Msg), NEW m \in Msg
  PROVE  /\ WithoutHints(s) \in Seq(Msg)
         /\ WithoutHints(Append(s, m)) =
              IF m = Hint THEN WithoutHints(s) ELSE Append(WithoutHints(s), m)
<1> DEFINE t == Append(s, m)
           n == Len(s)
           g == KeptTo(s)
           h == KeptTo(t)
<1>1. /\ t \in Seq(Msg) /\ Len(t) = n + 1 /\ n \in Nat /\ t[n + 1] = m
      /\ \A i \in 1 .. n : t[i] = s[i]
  OBVIOUS
<1> HIDE DEF t
<1>2. /\ WithoutHints(s) = g[n] /\ g[0] = <<>>
      /\ \A i \in 1 .. n :
           g[i] = IF s[i] = Hint THEN g[i - 1] ELSE Append(g[i - 1], s[i])
      /\ \A i \in 0 .. n : g[i] \in Seq(Msg)
  BY KeptFacts
<1>3. /\ WithoutHints(t) = h[n + 1] /\ h[0] = <<>>
      /\ \A i \in 1 .. n + 1 :
           h[i] = IF t[i] = Hint THEN h[i - 1] ELSE Append(h[i - 1], t[i])
  BY <1>1, KeptFacts
<1> HIDE DEF g, h
<1> DEFINE Bad == {i \in 0 .. n : h[i] # g[i]}
<1>4. Bad = {}
  <2>1. SUFFICES ASSUME Bad # {} PROVE FALSE
    OBVIOUS
  <2>2. Bad \in SUBSET Nat
    BY <1>1
  <2>3. PICK i \in Bad : \A j \in Bad : i <= j
    <3> HIDE DEF Bad
    <3> QED BY <2>1, <2>2, NatMin
  <2>4. i # 0
    BY <1>2, <1>3, <2>3
  <2>5. i \in 1 .. n /\ i \in 1 .. n + 1 /\ h[i - 1] = g[i - 1] /\ t[i] = s[i]
    BY <1>1, <2>3, <2>4
  <2>6. h[i] = g[i]
    BY <1>2, <1>3, <2>5
  <2> QED BY <2>3, <2>6
<1>5. h[n] = g[n]
  BY <1>1, <1>4
<1>6. n + 1 \in 1 .. n + 1 /\ (n + 1) - 1 = n /\ n \in 0 .. n
  BY <1>1
<1>7. h[n + 1] = IF m = Hint THEN h[n] ELSE Append(h[n], m)
  BY <1>1, <1>3, <1>6
<1> QED BY <1>2, <1>3, <1>5, <1>6, <1>7 DEF t

LEMMA AppendBehind ==
  ASSUME NEW s \in Seq(Msg), NEW t \in Seq(Msg), NEW m \in Msg
  PROVE  s \o t \in Seq(Msg) /\ s \o Append(t, m) = Append(s \o t, m)
<1>1. s \o t \in Seq(Msg) /\ Append(t, m) \in Seq(Msg)
  OBVIOUS
<1> DEFINE u == s \o Append(t, m)
           v == Append(s \o t, m)
<1>2. u \in Seq(Msg) /\ v \in Seq(Msg) /\ Len(u) = Len(v)
  BY <1>1
<1>3. \A i \in 1 .. Len(u) : u[i] = v[i]
  BY <1>1
<1> QED BY <1>2, <1>3

\* What holds no hint is kept as it is.
LEMMA KeepConcat ==
  ASSUME NEW s \in Seq(Msg), NEW t \in Seq(Msg), \A i \in 1 .. Len(t) : t[i] # Hint
  PROVE  WithoutHints(s \o t) = WithoutHints(s) \o t
<1> DEFINE n == Len(t)
           w == WithoutHints(s)
           T(k) == SubSeq(t, 1, k)
           Bad == {k \in 0 .. n : WithoutHints(s \o T(k)) # w \o T(k)}
<1>1. n \in Nat /\ T(n) = t /\ T(0) = <<>>
  OBVIOUS
<1>2. w \in Seq(Msg)
  BY KeptFacts
<1>3. Bad = {}
  <2>1. SUFFICES ASSUME Bad # {} PROVE FALSE
    OBVIOUS
  <2>2. Bad \in SUBSET Nat
    BY <1>1
  <2>3. PICK k \in Bad : \A j \in Bad : k <= j
    <3> HIDE DEF Bad
    <3> QED BY <2>1, <2>2, NatMin
  <2>4. k # 0
    <3>1. s \o T(0) = s /\ w \o T(0) = w
      BY <1>1, <1>2
    <3> QED BY <2>3, <3>1
  <2>5. k \in 1 .. n /\ k - 1 \in 0 .. n /\ k - 1 \notin Bad
    BY <1>1, <2>3, <2>4
  <2>6. WithoutHints(s \o T(k - 1)) = w \o T(k - 1)
    BY <2>5
  <2>7. t[k] \in Msg /\ t[k] # Hint
    BY <2>5, AskingFacts
  <2>8. T(k - 1) \in Seq(Msg) /\ T(k) = Append(T(k - 1), t[k])
    BY <2>5
  <2> DEFINE a == T(k - 1)
  <2>9. a \in Seq(Msg) /\ T(k) = Append(a, t[k]) /\ WithoutHints(s \o a) = w \o a
    BY <2>6, <2>8
  <2> HIDE DEF a, w
  <2>10. s \o a \in Seq(Msg) /\ s \o T(k) = Append(s \o a, t[k])
    BY <2>7, <2>9, AppendBehind
  <2>12. w \o T(k) = Append(w \o a, t[k])
    <3> DEFINE m == t[k]
    <3> HIDE DEF m, T
    <3>1. m \in Msg /\ T(k) = Append(a, m)
      BY <2>7, <2>9 DEF m
    <3>2. w \o Append(a, m) = Append(w \o a, m)
      BY <1>2, <2>9, <3>1, AppendBehind
    <3> QED BY <3>1, <3>2 DEF m
  <2>11. WithoutHints(s \o T(k)) = w \o T(k)
    BY <2>7, <2>9, <2>10, <2>12, KeepAppend
  <2> QED BY <2>3, <2>11 DEF w
<1>4. n \in 0 .. n
  BY <1>1
<1>5. WithoutHints(s \o T(n)) = w \o T(n)
  BY <1>3, <1>4
<1> QED BY <1>1, <1>5

(***************************************************************************)
(* The invariant                                                           *)
(***************************************************************************)

Rising(s) == \A i, j \in Asking(s) : i < j => s[i].round < s[j].round
UpTo(s, r) == \A i \in Asking(s) : s[i].round <= r
Below(s, t) == \A i \in Asking(s) : \A j \in Asking(t) : s[i].round < t[j].round

\* What the execution has added, without the hints: what it will persist.
Added == WithoutHints(Suffix(messages, base + 1))

TypeOK ==
  /\ pc \in {"idle", "invoke", "save"} /\ round \in Nat /\ iter \in Nat
  /\ pc # "idle" => iter >= 1

\* The marks of a cut append: what is glued is scarred, half a line ragged.
MarksOK ==
  /\ halfLine \in BOOLEAN /\ ragged \in BOOLEAN /\ scar \in BOOLEAN /\ glued \in BOOLEAN
  /\ (halfLine => ragged) /\ (glued => scar)

ChainOK == ~glued => Tidy(chain) /\ Rising(chain) /\ UpTo(chain, round)

OwedOK ==
  ~glued => \A r \in owed : \E i \in Asking(chain) :
                               chain[i].round = r /\ Whole(chain, i)

EndsOK ==
  /\ ~scar => OpenEnd(chain)
  /\ ~scar /\ ~ragged => AllWhole(chain)

RunningOK ==
  pc # "idle" /\ ~glued =>
    /\ messages \in Seq(Msg) /\ base \in 0 .. Len(messages)
    /\ Complete(Added) /\ Rising(Added) /\ UpTo(Added, round)
    /\ RoundsOf(Added) = done /\ Below(chain, Added)
    /\ ~scar => Complete(messages)
    /\ pc = "invoke" /\ iter = 1 /\ ~degraded => messages = Materialize(chain)

ItemInv == TypeOK /\ MarksOK /\ ChainOK /\ OwedOK /\ EndsOK /\ RunningOK

\* What is appended behind the loaded messages is appended to what is added.
LEMMA SuffixConcat ==
  ASSUME NEW s \in Seq(Msg), NEW t \in Seq(Msg), NEW b \in 0 .. Len(s)
  PROVE  /\ Suffix(s, b + 1) \in Seq(Msg)
         /\ Suffix(s \o t, b + 1) = Suffix(s, b + 1) \o t
         /\ b \in 0 .. Len(s \o t)
<1> DEFINE x == Suffix(s, b + 1)
           y == Suffix(s \o t, b + 1)
           z == x \o t
<1>1. /\ s \o t \in Seq(Msg) /\ Len(s \o t) = Len(s) + Len(t)
      /\ \A i \in 1 .. Len(s) : (s \o t)[i] = s[i]
      /\ \A i \in 1 .. Len(t) : (s \o t)[Len(s) + i] = t[i]
  BY ConcatFacts
<1> DEFINE u == s \o t
<1> HIDE DEF u
<1>2. u \in Seq(Msg) /\ Len(u) = Len(s) + Len(t)
  BY <1>1 DEF u
<1>3. /\ x \in Seq(Msg) /\ Len(x) = Len(s) - b
      /\ \A i \in 1 .. Len(x) : x[i] = s[i + b]
  BY DEF Suffix
<1> DEFINE w == Suffix(u, b + 1)
<1>4. /\ w \in Seq(Msg) /\ Len(w) = Len(u) - b
      /\ \A i \in 1 .. Len(w) : w[i] = u[i + b]
  BY <1>2 DEF Suffix
<1> HIDE DEF x, w
<1>5. /\ z \in Seq(Msg) /\ Len(z) = Len(x) + Len(t)
      /\ \A i \in 1 .. Len(x) : z[i] = x[i]
      /\ \A i \in 1 .. Len(t) : z[Len(x) + i] = t[i]
  BY <1>3, ConcatFacts
<1> HIDE DEF z
<1>6. Len(w) = Len(z)
  BY <1>2, <1>3, <1>4, <1>5
<1>7. ASSUME NEW i \in 1 .. Len(w) PROVE w[i] = z[i]
  <2>1. CASE i <= Len(x)
    <3>1. i \in 1 .. Len(x) /\ i + b \in 1 .. Len(s)
      BY <1>3, <2>1
    <3>2. u[i + b] = s[i + b]
      BY <1>1, <3>1 DEF u
    <3> QED BY <1>3, <1>4, <1>5, <3>1, <3>2
  <2>2. CASE i > Len(x)
    <3> DEFINE j == i - Len(x)
    <3>1. /\ j \in 1 .. Len(t) /\ i = Len(x) + j /\ i + b = Len(s) + j
      BY <1>2, <1>3, <1>4, <1>5, <1>6, <2>2
    <3> HIDE DEF j
    <3>2. u[i + b] = t[j]
      BY <1>1, <3>1 DEF u
    <3>3. z[i] = t[j]
      BY <1>5, <3>1
    <3> QED BY <1>4, <3>2, <3>3
  <2> QED BY <1>3, <2>1, <2>2
<1>8. w = z
  BY <1>4, <1>5, <1>6, <1>7
<1> QED BY <1>1, <1>3, <1>8 DEF u, w, x, z

\* The rounds of two conversations, one behind the other.
LEMMA ConcatRounds ==
  ASSUME NEW s \in Seq(Msg), NEW t \in Seq(Msg)
  PROVE  /\ RoundsOf(s \o t) = RoundsOf(s) \cup RoundsOf(t)
         /\ Rising(s) /\ Rising(t) /\ Below(s, t) => Rising(s \o t)
         /\ \A r : UpTo(s, r) /\ UpTo(t, r) => UpTo(s \o t, r)
         /\ \A v : Below(v, s) /\ Below(v, t) => Below(v, s \o t)
<1> DEFINE u == s \o t
           n == Len(s)
<1>1. /\ u \in Seq(Msg) /\ n \in Nat /\ Len(u) = n + Len(t)
      /\ \A i \in 1 .. n : u[i] = s[i]
      /\ \A i \in 1 .. Len(t) : u[n + i] = t[i]
  BY ConcatFacts
<1> HIDE DEF u
<1>2. /\ Asking(s) \subseteq 1 .. n /\ Asking(t) \subseteq 1 .. Len(t)
      /\ Asking(u) \subseteq 1 .. Len(u)
  BY <1>1, AskingFacts
<1>3. ASSUME NEW i \in Asking(s) PROVE i \in Asking(u) /\ u[i] = s[i]
  BY <1>1, <1>2, AskingFacts
<1>4. ASSUME NEW i \in Asking(t) PROVE n + i \in Asking(u) /\ u[n + i] = t[i]
  BY <1>1, <1>2, AskingFacts
<1>5. ASSUME NEW i \in Asking(u)
      PROVE  \/ i \in Asking(s) /\ u[i] = s[i]
             \/ i > n /\ i - n \in Asking(t) /\ u[i] = t[i - n]
  <2>1. i \in 1 .. Len(u) /\ u[i].role = "calls"
    BY <1>1, <1>2, AskingFacts
  <2>2. CASE i <= n
    <3>1. i \in 1 .. n /\ u[i] = s[i]
      BY <1>1, <2>1, <2>2
    <3> QED BY <2>1, <3>1, AskingFacts
  <2>3. CASE i > n
    <3>1. i - n \in 1 .. Len(t) /\ n + (i - n) = i
      BY <1>1, <2>1, <2>3
    <3>2. u[i] = t[i - n]
      BY <1>1, <3>1
    <3> QED BY <2>1, <2>3, <3>1, <3>2, AskingFacts
  <2> QED BY <1>1, <2>1, <2>2, <2>3
<1>6. RoundsOf(u) = RoundsOf(s) \cup RoundsOf(t)
  <2>1. ASSUME NEW r \in RoundsOf(u) PROVE r \in RoundsOf(s) \cup RoundsOf(t)
    BY <1>5 DEF RoundsOf
  <2>2. ASSUME NEW r \in RoundsOf(s) PROVE r \in RoundsOf(u)
    BY <1>3 DEF RoundsOf
  <2>3. ASSUME NEW r \in RoundsOf(t) PROVE r \in RoundsOf(u)
    <3>1. PICK i \in Asking(t) : r = t[i].round
      BY <2>3 DEF RoundsOf
    <3>2. n + i \in Asking(u) /\ r = u[n + i].round
      BY <1>4, <3>1
    <3> QED BY <3>2 DEF RoundsOf
  <2> QED BY <2>1, <2>2, <2>3
<1>7. ASSUME Rising(s), Rising(t), Below(s, t) PROVE Rising(u)
  <2> SUFFICES ASSUME NEW i \in Asking(u), NEW j \in Asking(u), i < j
               PROVE  u[i].round < u[j].round
    BY DEF Rising
  <2>0. i \in Nat /\ j \in Nat
    BY <1>2
  <2>1. CASE i \in Asking(s) /\ u[i] = s[i] /\ j \in Asking(s) /\ u[j] = s[j]
    BY <1>7, <2>1 DEF Rising
  <2>2. CASE i \in Asking(s) /\ u[i] = s[i] /\ j - n \in Asking(t) /\ u[j] = t[j - n]
    BY <1>7, <2>2 DEF Below
  <2>3. CASE i > n /\ j \in Asking(s)
    BY <1>1, <1>2, <2>0, <2>3
  <2>4. CASE /\ i - n \in Asking(t) /\ u[i] = t[i - n]
             /\ j - n \in Asking(t) /\ u[j] = t[j - n]
    <3>1. i - n < j - n
      BY <1>1, <2>0
    <3> QED BY <1>7, <2>4, <3>1 DEF Rising
  <2> QED BY <1>5, <2>1, <2>2, <2>3, <2>4
<1>8. ASSUME NEW r, UpTo(s, r), UpTo(t, r) PROVE UpTo(u, r)
  BY <1>5, <1>8 DEF UpTo
<1>9. ASSUME NEW v, Below(v, s), Below(v, t) PROVE Below(v, u)
  BY <1>5, <1>9 DEF Below
<1> QED BY <1>6, <1>7, <1>8, <1>9 DEF u

\* A hint is not persisted, and what the model accepts it accepts with a hint.
LEMMA HintBehind ==
  ASSUME NEW s \in Seq(Msg)
  PROVE  /\ Append(s, Hint) = s \o <<Hint>> /\ <<Hint>> \in Seq(Msg)
         /\ WithoutHints(s \o <<Hint>>) = WithoutHints(s)
         /\ Complete(s) => Complete(s \o <<Hint>>)
         /\ RoundsOf(s \o <<Hint>>) = RoundsOf(s)
<1>1. Hint \in Msg /\ Hint.role = "user"
  BY MsgFacts
<1>2. Append(s, Hint) = s \o <<Hint>> /\ <<Hint>> \in Seq(Msg)
  BY <1>1
<1>3. WithoutHints(s \o <<Hint>>) = WithoutHints(s)
  BY <1>1, <1>2, KeepAppend
<1>4. Complete(<<Hint>>) /\ Asking(<<Hint>>) = {}
  BY <1>1, SmallOnes
<1>5. Complete(s) => Complete(s \o <<Hint>>)
  BY <1>4, ConcatTidy DEF Complete
<1>6. RoundsOf(<<Hint>>) = {}
  BY <1>4 DEF RoundsOf
<1>7. RoundsOf(s \o <<Hint>>) = RoundsOf(s)
  <2> DEFINE t == <<Hint>>
  <2>1. t \in Seq(Msg) /\ RoundsOf(t) = {}
    BY <1>2, <1>6
  <2> HIDE DEF t
  <2>2. RoundsOf(s \o t) = RoundsOf(s) \cup RoundsOf(t)
    BY <2>1, ConcatRounds
  <2>3. RoundsOf(s \o t) = RoundsOf(s)
    BY <2>1, <2>2
  <2> QED BY <2>3 DEF t
<1> QED BY <1>2, <1>3, <1>5, <1>7

\* The messages of an iteration are those before it, perhaps with a hint.
LEMMA RequestFacts ==
  ASSUME ItemInv, pc = "invoke", ~glued
  PROVE  /\ Request \in Seq(Msg) /\ base \in 0 .. Len(Request)
         /\ Suffix(Request, base + 1) \in Seq(Msg)
         /\ WithoutHints(Suffix(Request, base + 1)) = Added
         /\ Complete(messages) => Complete(Request)
         /\ RoundsOf(Request) = RoundsOf(messages)
<1>1. messages \in Seq(Msg) /\ base \in 0 .. Len(messages)
  BY DEF ItemInv, RunningOK
<1>2. <<Hint>> \in Seq(Msg) /\ Append(messages, Hint) = messages \o <<Hint>>
  BY <1>1, HintBehind
<1>3. Request = messages \/ Request = messages \o <<Hint>>
  BY <1>2 DEF Request, Hint
<1>4. Suffix(messages, base + 1) \in Seq(Msg)
  BY <1>1, <1>2, SuffixConcat
<1>5. CASE Request = messages
  BY <1>1, <1>4, <1>5 DEF Added
<1>6. CASE Request = messages \o <<Hint>>
  <2>1. /\ Suffix(Request, base + 1) = Suffix(messages, base + 1) \o <<Hint>>
        /\ base \in 0 .. Len(Request)
    BY <1>1, <1>2, <1>6, SuffixConcat
  <2>2. WithoutHints(Suffix(Request, base + 1)) = Added
    BY <1>4, <2>1, HintBehind DEF Added
  <2>3. Request \in Seq(Msg) /\ Suffix(Request, base + 1) \in Seq(Msg)
    BY <1>1, <1>2, <1>4, <1>6, <2>1, ConcatFacts
  <2>4. /\ Complete(messages) => Complete(Request)
        /\ RoundsOf(Request) = RoundsOf(messages)
    BY <1>1, <1>6, HintBehind
  <2> QED BY <2>1, <2>2, <2>3, <2>4
<1> QED BY <1>3, <1>5, <1>6

LEMMA InitInv == Init => ItemInv
<1> SUFFICES ASSUME Init PROVE ItemInv
  OBVIOUS
<1>1. Tidy(<<>>) /\ Asking(<<>>) = {}
  BY SmallOnes DEF Complete
<1>2. chain = <<>> /\ owed = {} /\ pc = "idle"
  BY DEF Init
<1>3. TypeOK /\ MarksOK
  BY DEF Init, TypeOK, MarksOK
<1>4. ChainOK
  BY <1>1, <1>2 DEF ChainOK, Rising, UpTo
<1>5. OwedOK /\ EndsOK /\ RunningOK
  BY <1>1, <1>2 DEF OwedOK, EndsOK, RunningOK, OpenEnd, AllWhole
<1> QED BY <1>3, <1>4, <1>5 DEF ItemInv

\* The parts of the invariant that are about the file, if it does not change.
LEMMA FileKept ==
  ASSUME ItemInv, UNCHANGED fileVars, round' \in Nat, round <= round'
  PROVE  MarksOK' /\ ChainOK' /\ OwedOK' /\ EndsOK'
<1>1. /\ chain' = chain /\ halfLine' = halfLine /\ owed' = owed
      /\ ragged' = ragged /\ scar' = scar /\ glued' = glued
  BY DEF fileVars
<1>2. MarksOK'
  BY <1>1 DEF ItemInv, MarksOK
<1>3. OwedOK'
  BY <1>1 DEF ItemInv, OwedOK
<1>4. EndsOK'
  BY <1>1 DEF ItemInv, EndsOK
<1>5. ASSUME ~glued PROVE UpTo(chain, round')
  <2>1. \A i \in Asking(chain) : chain[i].round \in Nat /\ chain[i].round <= round
    BY <1>5, AskingFacts DEF ItemInv, ChainOK, UpTo, Tidy, Msg
  <2> QED BY <2>1 DEF UpTo, ItemInv, TypeOK
<1>6. ChainOK'
  BY <1>1, <1>5 DEF ItemInv, ChainOK
<1> QED BY <1>2, <1>3, <1>4, <1>6

LEMMA BeginInv == ASSUME ItemInv, BeginExecution PROVE ItemInv'
<1> USE DEF BeginExecution
<1>1. /\ pc' = "invoke" /\ iter' = 1 /\ done' = {}
      /\ round' = round /\ chain' = chain /\ glued' = glued /\ scar' = scar
      /\ UNCHANGED fileVars
  BY DEF fileVars
<1>2. TypeOK'
  BY <1>1 DEF ItemInv, TypeOK
<1>3. MarksOK' /\ ChainOK' /\ OwedOK' /\ EndsOK'
  BY <1>1, FileKept DEF ItemInv, TypeOK
<1>4. ASSUME ~glued PROVE RunningOK'
  <2> DEFINE a == Suffix(messages', base' + 1)
  <2>0. Complete(<<>>) /\ Asking(<<>>) = {} /\ <<>> \in Seq(Msg)
    BY SmallOnes DEF Complete, Tidy
  <2>1. SUFFICES /\ messages' \in Seq(Msg) /\ base' \in 0 .. Len(messages')
                 /\ Complete(WithoutHints(a)) /\ Asking(WithoutHints(a)) = {}
                 /\ ~scar => Complete(messages')
                 /\ ~degraded' => messages' = Materialize(chain)
    <3>1. Added' = WithoutHints(a)
      BY DEF Added
    <3> DEFINE w == WithoutHints(a)
    <3>2. RoundsOf(w) = {} /\ Rising(w) /\ UpTo(w, round) /\ Below(chain, w)
      BY <2>1 DEF RoundsOf, Rising, UpTo, Below
    <3> HIDE DEF w
    <3>3. Added' = w /\ Complete(w)
      BY <2>1, <3>1 DEF w
    <3> QED BY <1>1, <2>1, <3>2, <3>3 DEF RunningOK
  <2>2. CASE Prepared(Materialize(chain))
    <3>1. /\ messages' = Materialize(chain) /\ base' = Len(messages')
          /\ degraded' = FALSE
      BY <2>2 DEF Prepared
    <3>2. Tidy(messages') /\ (~scar => Complete(messages'))
      BY <1>4, <3>1, MaterializeFacts DEF ItemInv, ChainOK, EndsOK
    <3>3. messages' \in Seq(Msg) /\ base' \in 0 .. Len(messages')
      BY <3>1, <3>2 DEF Tidy
    <3>4. a = <<>>
      BY <3>1, <3>3 DEF Suffix
    <3> QED BY <2>0, <3>1, <3>2, <3>3, <3>4, KeepEmpty
  <2>3. CASE Degraded
    <3>1. PICK text \in {"directive", "hinted", "ephemeral"} :
            messages' = <<User(text)>>
      BY <2>3 DEF Degraded
    <3> DEFINE m == User(text)
    <3>2. m \in Msg /\ m.role = "user"
      BY MsgFacts
    <3> HIDE DEF m
    <3>3. messages' = <<m>> /\ base' = 0 /\ degraded' = TRUE
      BY <2>3, <3>1 DEF Degraded, m
    <3>8. <<m>> \in Seq(Msg) /\ Len(<<m>>) = 1 /\ <<m>> = Append(<<>>, m)
      BY <3>2
    <3>9. SubSeq(<<m>>, 1, 1) = <<m>>
      <4> DEFINE t == <<m>>
      <4>1. t \in Seq(Msg) /\ Len(t) = 1
        BY <3>8
      <4> HIDE DEF t
      <4>2. SubSeq(t, 1, Len(t)) = t
        BY ONLY <4>1
      <4> QED BY <4>1, <4>2 DEF t
    <3>10. a = Suffix(<<m>>, 1)
      BY <3>3
    <3>4. messages' \in Seq(Msg) /\ a = <<m>> /\ <<m>> = Append(<<>>, m)
      BY <3>3, <3>8, <3>9, <3>10 DEF Suffix
    <3>5. Complete(<<m>>) /\ Asking(<<m>>) = {}
      BY <3>2, SmallOnes
    <3>6. WithoutHints(Append(<<>>, m)) = IF m = Hint THEN <<>> ELSE Append(<<>>, m)
      BY <2>0, <3>2, KeepAppend, KeepEmpty
    <3>7. WithoutHints(a) = <<>> \/ WithoutHints(a) = <<m>>
      BY <3>4, <3>6
    <3> QED BY <2>0, <3>3, <3>4, <3>5, <3>7
  <2> QED BY <2>2, <2>3
<1>5. RunningOK'
  BY <1>1, <1>4 DEF RunningOK
<1> QED BY <1>2, <1>3, <1>5 DEF ItemInv

LEMMA AnswersInv == ASSUME ItemInv, Answers PROVE ItemInv'
<1> USE DEF Answers
<1>1. /\ pc = "invoke" /\ pc' = "save" /\ messages' = Request /\ base' = base
      /\ done' = done /\ round' = round /\ chain' = chain /\ glued' = glued
      /\ scar' = scar /\ iter' = iter /\ UNCHANGED fileVars
  BY DEF fileVars
<1>2. TypeOK'
  BY <1>1 DEF ItemInv, TypeOK
<1>3. MarksOK' /\ ChainOK' /\ OwedOK' /\ EndsOK'
  BY <1>1, FileKept DEF ItemInv, TypeOK
<1>4. ASSUME ~glued PROVE RunningOK'
  <2>1. /\ Request \in Seq(Msg) /\ base \in 0 .. Len(Request)
        /\ WithoutHints(Suffix(Request, base + 1)) = Added
        /\ Complete(messages) => Complete(Request)
    BY <1>1, <1>4, RequestFacts
  <2>2. Added' = Added
    BY <1>1, <2>1 DEF Added
  <2> QED BY <1>1, <1>4, <2>1, <2>2 DEF ItemInv, RunningOK
<1>5. RunningOK'
  BY <1>1, <1>4 DEF RunningOK
<1> QED BY <1>2, <1>3, <1>5 DEF ItemInv

LEMMA ToolRoundInv == ASSUME ItemInv, ToolRound PROVE ItemInv'
<1> USE DEF ToolRound
<1>1. /\ pc = "invoke" /\ pc' \in {"invoke", "save"} /\ round' = round + 1
      /\ base' = base /\ done' = done \cup {round'} /\ chain' = chain
      /\ glued' = glued /\ scar' = scar /\ UNCHANGED fileVars
      /\ round \in Nat /\ iter \in Nat /\ iter >= 1
  BY DEF fileVars, ItemInv, TypeOK
<1>2. TypeOK' /\ (pc' = "invoke" => iter' # 1)
  BY <1>1 DEF TypeOK
<1>3. MarksOK' /\ ChainOK' /\ OwedOK' /\ EndsOK'
  BY <1>1, FileKept
<1>4. ASSUME ~glued PROVE RunningOK'
  <2>1. /\ Request \in Seq(Msg) /\ base \in 0 .. Len(Request)
        /\ Suffix(Request, base + 1) \in Seq(Msg)
        /\ WithoutHints(Suffix(Request, base + 1)) = Added
        /\ Complete(messages) => Complete(Request)
    BY <1>1, <1>4, RequestFacts
  <2>2. PICK n \in RoundSizes : messages' = Request \o RoundMessages(round', n)
    OBVIOUS
  <2> DEFINE u == RoundMessages(round', n)
  <2>3. /\ Complete(u) /\ Asking(u) = {1} /\ u[1].round = round'
        /\ \A i \in 1 .. Len(u) : u[i] # Hint
    <3>1. round' \in Nat /\ n \in Nat \ {0}
      BY <1>1, RoundSizesAssumption
    <3> QED BY ONLY <3>1, RoundComplete
  <2>4. messages' = Request \o u
    BY <2>2
  <2> HIDE DEF u
  <2>5. u \in Seq(Msg) /\ Tidy(u) /\ AllWhole(u)
    BY <2>3 DEF Complete, Tidy
  <2>6. messages' \in Seq(Msg) /\ base' \in 0 .. Len(messages')
        /\ Suffix(messages', base' + 1) = Suffix(Request, base + 1) \o u
    <3> DEFINE q == Request
    <3>1. /\ q \in Seq(Msg) /\ base \in 0 .. Len(q) /\ messages' = q \o u
          /\ base' = base
      BY <1>1, <2>1, <2>4
    <3> HIDE DEF q
    <3>2. /\ Suffix(q \o u, base + 1) = Suffix(q, base + 1) \o u
          /\ base \in 0 .. Len(q \o u)
      BY ONLY <3>1, <2>5, SuffixConcat
    <3>3. q \o u \in Seq(Msg)
      BY ONLY <3>1, <2>5
    <3>4. Suffix(messages', base' + 1) = Suffix(q \o u, base + 1)
      BY <3>1
    <3> QED BY <3>1, <3>2, <3>3, <3>4 DEF q
  <2>7. Added' = Added \o u
    <3>1. WithoutHints(Suffix(Request, base + 1) \o u)
            = WithoutHints(Suffix(Request, base + 1)) \o u
      BY <2>1, <2>3, <2>5, KeepConcat
    <3> QED BY <2>1, <2>6, <3>1 DEF Added
  <2>8. /\ Complete(Added) /\ Added \in Seq(Msg) /\ Rising(Added)
        /\ UpTo(Added, round) /\ RoundsOf(Added) = done /\ Below(chain, Added)
        /\ ~scar => Complete(messages)
    BY <1>1, <1>4 DEF ItemInv, RunningOK, Complete, Tidy
  <2> DEFINE d == Added
             e == Added'
  <2>9. /\ Complete(d) /\ d \in Seq(Msg) /\ Rising(d) /\ UpTo(d, round)
        /\ RoundsOf(d) = done /\ Below(chain, d) /\ e = d \o u
    BY <2>7, <2>8
  <2> HIDE DEF d, e
  <2>10. Complete(e)
    BY <2>3, <2>9, ConcatTidy DEF Complete
  <2>11. /\ RoundsOf(u) = {round'} /\ UpTo(u, round') /\ Rising(u)
    BY <1>1, <2>3 DEF RoundsOf, UpTo, Rising
  <2>12. UpTo(d, round') /\ Below(d, u)
    <3>1. \A i \in Asking(d) : d[i].round \in Nat /\ d[i].round <= round
      BY <2>9, AskingFacts DEF UpTo, Msg
    <3> QED BY <1>1, <2>3, <3>1 DEF UpTo, Below
  <2>13. Below(chain, u)
    <3>1. \A i \in Asking(chain) : chain[i].round \in Nat /\ chain[i].round <= round
      BY <1>4, AskingFacts DEF ItemInv, ChainOK, UpTo, Tidy, Msg
    <3> QED BY <1>1, <2>3, <3>1 DEF Below
  <2>14. /\ RoundsOf(e) = done' /\ Rising(e) /\ UpTo(e, round') /\ Below(chain, e)
    BY <1>1, <2>5, <2>9, <2>11, <2>12, <2>13, ConcatRounds
  <2>15. ~scar => Complete(messages')
    BY <2>1, <2>3, <2>4, <2>8, ConcatTidy DEF Complete
  <2> QED BY <1>1, <1>2, <2>6, <2>10, <2>14, <2>15 DEF RunningOK, e
<1>5. RunningOK'
  BY <1>1, <1>4 DEF RunningOK
<1> QED BY <1>2, <1>3, <1>5 DEF ItemInv

\* A crash, or the return of an execution that persists nothing.
LEMMA CrashInv == ASSUME ItemInv, Crash PROVE ItemInv'
<1>1. /\ pc' = "idle" /\ iter' = 0 /\ round' = round /\ UNCHANGED fileVars
  BY DEF Crash, Return
<1>2. MarksOK' /\ ChainOK' /\ OwedOK' /\ EndsOK'
  BY <1>1, FileKept DEF ItemInv, TypeOK
<1>3. TypeOK' /\ RunningOK'
  BY <1>1 DEF ItemInv, TypeOK, RunningOK
<1> QED BY <1>2, <1>3 DEF ItemInv

\* An append of the first n lines, whole if it is all of them.
LEMMA Stored ==
  ASSUME ItemInv, pc = "save", NEW n \in 0 .. Len(Delta),
         NEW half \in BOOLEAN, NEW whole \in BOOLEAN,
         half => ~whole, whole => n = Len(Delta),
         chain' = Written(Delta, n), Marks(n, half, whole), round' = round,
         ~glued'
  PROVE  /\ ChainOK' /\ EndsOK' /\ ~glued
         /\ \A i \in Asking(chain) : Whole(chain, i) =>
              i \in Asking(chain') /\ chain'[i] = chain[i] /\ Whole(chain', i)
         /\ whole => \A r \in done : \E i \in Asking(chain') :
                       chain'[i].round = r /\ Whole(chain', i)
<1>0. n \in Nat /\ (n > 0 \/ n = 0) /\ ~(n > 0 /\ n = 0)
  OBVIOUS
<1>m. /\ ~glued /\ ~(halfLine /\ n > 0)
      /\ ~scar' => ~scar /\ ~(ragged /\ n > 0)
      /\ ~ragged' => whole /\ ~(ragged /\ n = 0)
  <2> DEFINE p == n > 0
             q == n = 0
  <2> HIDE DEF p, q
  <2>1. /\ glued' = (glued \/ (halfLine /\ (p \/ half)))
        /\ scar' = (scar \/ (ragged /\ (p \/ half)))
        /\ ragged' = (~whole \/ (ragged /\ q))
    BY DEF Marks, p, q
  <2>2. /\ ~glued /\ ~(halfLine /\ p)
        /\ ~scar' => ~scar /\ ~(ragged /\ p)
        /\ ~ragged' => whole /\ ~(ragged /\ q)
    BY <2>1, Zenon
  <2> QED BY <2>2 DEF p, q
<1>1. ~glued /\ (halfLine => n = 0)
  BY <1>0, <1>m
<1>2. /\ Complete(Added) /\ Rising(Added) /\ UpTo(Added, round)
      /\ RoundsOf(Added) = done /\ Below(chain, Added)
      /\ Tidy(chain) /\ Rising(chain) /\ UpTo(chain, round)
  BY <1>1 DEF ItemInv, RunningOK, ChainOK
<1>3. Delta = Added
  BY <1>2, RepairFacts DEF Delta, Added, Complete
<1> DEFINE d == Added
           v == SubSeq(d, 1, n)
           c == chain
<1>4. /\ Tidy(d) /\ AllWhole(d) /\ d \in Seq(Msg) /\ c \in Seq(Msg)
      /\ n \in 0 .. Len(d) /\ Rising(d) /\ UpTo(d, round) /\ Below(c, d)
      /\ RoundsOf(d) = done
  BY <1>2, <1>3 DEF Complete, Tidy
<1>5. chain' = c \o v
  <2>1. CASE ~halfLine
    BY <1>3, <2>1 DEF Written
  <2>2. CASE halfLine
    <3>1. n = 0
      BY <1>1, <2>2
    <3>2. SubSeq(d, 2, 0) = <<>> /\ SubSeq(d, 1, 0) = <<>>
      BY <1>4
    <3> QED BY <1>3, <2>2, <3>1, <3>2 DEF Written
  <2> QED BY <2>1, <2>2
<1> HIDE DEF d
<1>6. /\ Tidy(v) /\ Len(v) = n /\ \A i \in 1 .. n : v[i] = d[i]
      /\ Asking(v) = Asking(d) \cap (1 .. n) /\ OpenEnd(v)
  BY <1>4, Prefix
<1>7. n = Len(d) => v = d
  BY <1>4
<1>8. n = 0 => v = <<>>
  BY <1>4
<1> HIDE DEF v
<1>9. v \in Seq(Msg)
  BY <1>6 DEF Tidy
<1>10. Rising(v) /\ UpTo(v, round) /\ Below(c, v)
  BY <1>4, <1>6 DEF Rising, UpTo, Below
<1>11. /\ Tidy(c \o v)
       /\ AllWhole(c) => OpenEnd(c \o v)
       /\ AllWhole(c) /\ AllWhole(v) => AllWhole(c \o v)
       /\ \A i \in 1 .. Len(c) : Whole(c, i) => Whole(c \o v, i)
       /\ \A i \in 1 .. Len(v) : Whole(v, i) => Whole(c \o v, Len(c) + i)
  BY <1>2, <1>6, ConcatTidy
<1>12. Rising(c \o v) /\ UpTo(c \o v, round)
  BY <1>2, <1>4, <1>9, <1>10, ConcatRounds
<1>13. ChainOK'
  BY <1>5, <1>11, <1>12 DEF ChainOK
<1>14. EndsOK'
  <2>1. n = 0 => c \o v = c
    BY <1>4, <1>8
  <2>2. ASSUME ~scar' PROVE OpenEnd(c \o v)
    <3>1. CASE n = 0
      BY <1>m, <2>1, <2>2, <3>1 DEF ItemInv, EndsOK
    <3>2. CASE n > 0
      <4>1. ~scar /\ ~ragged
        BY <1>m, <2>2, <3>2
      <4> QED BY <1>11, <4>1 DEF ItemInv, EndsOK
    <3> QED BY <1>4, <3>1, <3>2
  <2>3. ASSUME ~scar', ~ragged' PROVE AllWhole(c \o v)
    <3>1. whole /\ ~scar /\ ~ragged
      BY <1>0, <1>m, <2>3
    <3>2. v = d
      BY <1>3, <1>7, <3>1 DEF d
    <3> QED BY <1>4, <1>11, <3>1, <3>2 DEF ItemInv, EndsOK
  <2> QED BY <1>5, <2>2, <2>3 DEF EndsOK
<1>15. ASSUME NEW i \in Asking(c), Whole(c, i)
       PROVE  i \in Asking(chain') /\ chain'[i] = c[i] /\ Whole(chain', i)
  <2>1. i \in 1 .. Len(c) /\ c[i].role = "calls"
    BY <1>4, AskingFacts
  <2>2. /\ c \o v \in Seq(Msg) /\ i \in 1 .. Len(c \o v) /\ (c \o v)[i] = c[i]
    BY <1>4, <1>9, <2>1, ConcatFacts
  <2>3. i \in Asking(c \o v)
    BY <2>1, <2>2, AskingFacts
  <2> QED BY <1>5, <1>11, <1>15, <2>1, <2>2, <2>3
<1>16. ASSUME whole, NEW r \in done
       PROVE  \E i \in Asking(chain') : chain'[i].round = r /\ Whole(chain', i)
  <2>1. v = d
    BY <1>3, <1>7, <1>16 DEF d
  <2>2. PICK j \in Asking(v) : v[j].round = r
    BY <1>4, <2>1 DEF RoundsOf
  <2>3. Whole(v, j) /\ j \in 1 .. Len(v) /\ v[j].role = "calls"
    BY <1>4, <1>9, <2>1, AskingFacts DEF AllWhole
  <2> DEFINE i == Len(c) + j
  <2>4. /\ c \o v \in Seq(Msg) /\ i \in 1 .. Len(c \o v) /\ (c \o v)[i] = v[j]
    BY <1>4, <1>9, <2>3, ConcatFacts
  <2>5. Whole(c \o v, i)
    BY <1>11, <2>3
  <2> HIDE DEF i
  <2>6. i \in Asking(c \o v) /\ (c \o v)[i].round = r
    BY <2>2, <2>3, <2>4, AskingFacts
  <2> QED BY <1>5, <2>5, <2>6
<1> QED BY <1>1, <1>13, <1>14, <1>15, <1>16

LEMMA SaveInv == ASSUME ItemInv, Save PROVE ItemInv'
<1>1. /\ pc = "save" /\ pc' = "idle" /\ iter' = 0 /\ round' = round
      /\ chain' = Written(Delta, Len(Delta)) /\ Marks(Len(Delta), FALSE, TRUE)
      /\ owed' = owed \cup done
  BY DEF Save, Return
<1>2. TypeOK' /\ RunningOK'
  BY <1>1 DEF ItemInv, TypeOK, RunningOK
<1>3. MarksOK'
  BY <1>1 DEF ItemInv, MarksOK, Marks
<1>4. glued' => scar'
  BY <1>3 DEF MarksOK
<1>5. CASE glued'
  BY <1>2, <1>3, <1>4, <1>5 DEF ItemInv, ChainOK, OwedOK, EndsOK
<1>6. CASE ~glued'
  <2>0. Len(Delta) \in 0 .. Len(Delta)
    <3>1. ~glued
      BY <1>1, <1>6 DEF Marks
    <3>2. Complete(Added)
      BY <1>1, <3>1 DEF ItemInv, RunningOK
    <3>3. Delta \in Seq(Msg)
      BY <3>2, RepairFacts DEF Delta, Added, Complete, Tidy
    <3> QED BY <3>3
  <2>1. /\ ChainOK' /\ EndsOK' /\ ~glued
        /\ \A i \in Asking(chain) : Whole(chain, i) =>
             i \in Asking(chain') /\ chain'[i] = chain[i] /\ Whole(chain', i)
        /\ \A r \in done : \E i \in Asking(chain') :
             chain'[i].round = r /\ Whole(chain', i)
    BY <1>1, <1>6, <2>0, Stored
  <2>2. OwedOK'
    <3> SUFFICES ASSUME NEW r \in owed'
                 PROVE  \E i \in Asking(chain') :
                          chain'[i].round = r /\ Whole(chain', i)
      BY DEF OwedOK
    <3>1. CASE r \in done
      BY <2>1, <3>1
    <3>2. CASE r \in owed
      <4>1. PICK i \in Asking(chain) : chain[i].round = r /\ Whole(chain, i)
        BY <2>1, <3>2 DEF ItemInv, OwedOK
      <4> QED BY <2>1, <4>1
    <3> QED BY <1>1, <3>1, <3>2
  <2> QED BY <1>2, <1>3, <2>1, <2>2 DEF ItemInv
<1> QED BY <1>5, <1>6

LEMMA SaveCutInv == ASSUME ItemInv, SaveCut PROVE ItemInv'
<1>1. /\ pc = "save" /\ pc' = "idle" /\ iter' = 0 /\ round' = round
      /\ owed' = owed
  BY DEF SaveCut, Return
<1>2. PICK n \in 0 .. Len(Delta) - 1, half \in BOOLEAN :
        chain' = Written(Delta, n) /\ Marks(n, half, FALSE)
  BY DEF SaveCut
<1>3. TypeOK' /\ RunningOK'
  BY <1>1 DEF ItemInv, TypeOK, RunningOK
<1>4. MarksOK'
  BY <1>2 DEF ItemInv, MarksOK, Marks
<1>5. CASE glued'
  BY <1>3, <1>4, <1>5 DEF ItemInv, ChainOK, OwedOK, EndsOK, MarksOK
<1>6. CASE ~glued'
  <2>0. n \in 0 .. Len(Delta)
    <3>1. ~glued
      BY <1>2, <1>6 DEF Marks
    <3>2. Complete(Added)
      BY <1>1, <3>1 DEF ItemInv, RunningOK
    <3>3. Delta \in Seq(Msg)
      BY <3>2, RepairFacts DEF Delta, Added, Complete, Tidy
    <3>4. Len(Delta) \in Nat
      BY <3>3
    <3> QED BY <3>4
  <2>1. /\ ChainOK' /\ EndsOK' /\ ~glued
        /\ \A i \in Asking(chain) : Whole(chain, i) =>
             i \in Asking(chain') /\ chain'[i] = chain[i] /\ Whole(chain', i)
    BY <1>1, <1>2, <1>6, <2>0, Stored
  <2>2. OwedOK'
    <3> SUFFICES ASSUME NEW r \in owed
                 PROVE  \E i \in Asking(chain') :
                          chain'[i].round = r /\ Whole(chain', i)
      BY <1>1 DEF OwedOK
    <3>1. PICK i \in Asking(chain) : chain[i].round = r /\ Whole(chain, i)
      BY <2>1 DEF ItemInv, OwedOK
    <3> QED BY <2>1, <3>1
  <2> QED BY <1>3, <1>4, <2>1, <2>2 DEF ItemInv
<1> QED BY <1>5, <1>6

\* The invariant of an item's executions, for every budget, number of
\* iterations, of calls in a round, of executions and of faults.
THEOREM ItemInvariant == Spec => []ItemInv
<1>1. ASSUME ItemInv, [Next]_vars PROVE ItemInv'
  <2>1. CASE BeginExecution BY <1>1, <2>1, BeginInv
  <2>2. CASE Answers BY <1>1, <2>2, AnswersInv
  <2>3. CASE ToolRound BY <1>1, <2>3, ToolRoundInv
  <2>4. CASE Save BY <1>1, <2>4, SaveInv
  <2>5. CASE SaveCut BY <1>1, <2>5, SaveCutInv
  <2>6. CASE Crash BY <1>1, <2>6, CrashInv
  <2>7. CASE UNCHANGED vars
    BY <1>1, <2>7 DEF vars, fileVars, ItemInv, TypeOK, MarksOK, ChainOK, OwedOK,
       EndsOK, RunningOK, Added
  <2> QED BY <1>1, <2>1, <2>2, <2>3, <2>4, <2>5, <2>6, <2>7 DEF Next
<1> QED BY <1>1, InitInv, PTL DEF Spec

(***************************************************************************)
(* What it is for                                                          *)
(***************************************************************************)

LEMMA RequestSent ==
  ASSUME ItemInv, pc = "invoke", ~scar
  PROVE  Prompt = Request /\ Complete(Request) /\ RoundsOf(Request) = RoundsOf(messages)
<1>1. ~glued
  BY DEF ItemInv, MarksOK
<1>2. Complete(messages)
  BY <1>1 DEF ItemInv, RunningOK
<1>3. Complete(Request) /\ RoundsOf(Request) = RoundsOf(messages)
  BY <1>1, <1>2, RequestFacts
<1> QED BY <1>3, RepairFacts DEF Prompt, Complete

\* Every prompt that is sent pairs calls with their own answers: what
\* messagesForLLMInvoke repairs the conversation for.
THEOREM PromptIsPaired == Spec => []PromptPaired
<1>1. ItemInv => PromptPaired
  BY RequestSent, CompletePaired DEF PromptPaired
<1> QED BY <1>1, ItemInvariant, PTL

\* What appendPrivateChainDelta stored of an execution that ended is whole
\* in what is read of it later, once and in its order.
THEOREM RoundsAreKept == Spec => []RoundsKept
<1>1. ASSUME ItemInv PROVE RoundsKept
  <2> DEFINE s == Repair(chain)
  <2> SUFFICES ASSUME ~glued
               PROVE  /\ \A r \in owed : \E i \in Asking(s) :
                           s[i].round = r /\ Answered(s, i)
                      /\ \A i, j \in Asking(s) : i < j => s[i].round < s[j].round
    BY DEF RoundsKept
  <2>1. Tidy(chain) /\ Rising(chain)
    BY <1>1 DEF ItemInv, ChainOK
  <2>2. /\ Tidy(s) /\ \E n \in 0 .. Len(chain) : s = SubSeq(chain, 1, n)
        /\ \A i \in Asking(chain) : Whole(chain, i) =>
             i \in Asking(s) /\ Whole(s, i) /\ s[i] = chain[i]
    BY <2>1, RepairFacts
  <2> HIDE DEF s
  <2>3. PICK n \in 0 .. Len(chain) : s = SubSeq(chain, 1, n)
    BY <2>2
  <2>4. /\ Asking(s) = Asking(chain) \cap (1 .. n)
        /\ \A i \in 1 .. n : s[i] = chain[i]
    BY <2>1, <2>3, Prefix
  <2>5. ASSUME NEW i \in Asking(s), NEW j \in Asking(s), i < j
        PROVE  s[i].round < s[j].round
    BY <2>1, <2>4, <2>5 DEF Rising
  <2>6. ASSUME NEW r \in owed
        PROVE  \E i \in Asking(s) : s[i].round = r /\ Answered(s, i)
    <3>1. PICK i \in Asking(chain) : chain[i].round = r /\ Whole(chain, i)
      BY <1>1 DEF ItemInv, OwedOK
    <3>2. i \in Asking(s) /\ Whole(s, i) /\ s[i].round = r
      BY <2>2, <3>1
    <3>3. Answered(s, i)
      BY <2>2, <3>2, WholeAnswered DEF Tidy
    <3> QED BY <3>2, <3>3
  <2> QED BY <2>5, <2>6
<1> QED BY <1>1, ItemInvariant, PTL

\* A retry sees what earlier executions found out, as far as there is room:
\* neither compressMessages nor the repair takes it away.
THEOREM EvidenceIsSeen == Spec => []EvidenceSeen
<1>1. ASSUME ItemInv PROVE EvidenceSeen
  <2> DEFINE s == Repair(chain)
  <2> SUFFICES ASSUME pc = "invoke", iter = 1, ~degraded, ~scar,
                      NEW i \in Asking(s), Len(Suffix(s, i)) <= Budget
               PROVE  s[i].round \in RoundsOf(Prompt)
    BY DEF EvidenceSeen
  <2>1. ~glued
    BY <1>1 DEF ItemInv, MarksOK
  <2>2. Tidy(chain) /\ OpenEnd(chain) /\ messages = Materialize(chain)
    BY <1>1, <2>1 DEF ItemInv, ChainOK, EndsOK, RunningOK
  <2>3. s[i].round \in RoundsOf(messages)
    BY <2>2, MaterializeFacts
  <2>4. RoundsOf(Prompt) = RoundsOf(messages)
    BY <1>1, RequestSent
  <2> QED BY <2>3, <2>4
<1> QED BY <1>1, ItemInvariant, PTL
=============================================================================
