---------------------------- MODULE AppOutputProofs ----------------------------
(***************************************************************************)
(* Theorems about the logs of commands, for any secrets, letters, sizes,   *)
(* jobs and rows of the transcript: what opens one is evidence of a wait;  *)
(* what is said has the secrets replaced, however it is cut; and a log is  *)
(* the end of it.                                                          *)
(***************************************************************************)
EXTENDS AppOutput, FiniteSetTheorems, SequenceTheorems, WellFoundedInduction, TLAPS

-------------------------------------------------------------------------------
(* WaitInv                                                                  *)

\* The agent is in the phase the hooks left, as far as the observer relies on it: in "tools" it
\* waits for the tool it called, unless the transcript says that this is done.
PhaseIsTrue ==
  /\ phase = "tools" => Waits \/ (rows # <<>> /\ rows[Len(rows)] = "DONE")
  /\ phase = "waiting" => agent = "paused"

\* A row was only ever taken for one that is waited for when the agent waited.
SeenWaiting == evidence.steps # {} => evidence.waits

\* What is held back is of a command that runs, bound in the job it was asked in.
HeldBack ==
  waiting = "buffered" =>
    command = "running" /\ (binding.job # 0 => commandTurn = binding.job)

WaitIInv == WaitTypeOK /\ PhaseIsTrue /\ SeenWaiting /\ HeldBack

-------------------------------------------------------------------------------

LEMMA WaitIInvInit == OutputInit => WaitIInv
  BY WaitAssumption
  DEF OutputInit, WaitInit, WaitIInv, WaitTypeOK, PhaseIsTrue, SeenWaiting, HeldBack, Unbound,
     Unseen

\* A row more.
LEMMA AddTypes ==
  ASSUME WaitTypeOK, NEW row \in Row, Add(row)
  PROVE  rows' \in Seq(Row) /\ Len(rows') <= MaxRows
  BY WaitAssumption DEF Add, WaitTypeOK

\* Rows the observer tells of are rows of the transcript, and the agent does wait.
LEMMA WaitingStepsWait ==
  ASSUME WaitTypeOK, PhaseIsTrue
  PROVE  WaitingSteps \in SUBSET (1..MaxRows) /\ (WaitingSteps # {} => Waits)
<1>1. Len(rows) \in Nat /\ Len(rows) <= MaxRows /\ DOMAIN rows = 1..Len(rows)
  BY DEF WaitTypeOK
<1>2. WaitingSteps \subseteq 1..Len(rows)
  BY <1>1 DEF WaitingSteps
<1>3. WaitingSteps \subseteq 1..MaxRows
  BY <1>1, <1>2, WaitAssumption
<1>4. CASE phase = "tools"
  <2>1. ASSUME NEW i \in WaitingSteps, rows # <<>>, rows[Len(rows)] = "DONE"
        PROVE  FALSE
    BY <1>1, <1>4, <2>1 DEF WaitingSteps
  <2>2. QED
    BY <1>3, <1>4, <2>1 DEF PhaseIsTrue
<1>5. CASE phase = "waiting"
  BY <1>3, <1>5 DEF PhaseIsTrue, Waits
<1>6. CASE phase \notin {"tools", "waiting"}
  BY <1>3, <1>6 DEF WaitingSteps
<1>7. QED
  BY <1>4, <1>5, <1>6

\* The types, through whatever the agent, its hooks and its observer do.
LEMMA WaitTypesNext ==
  ASSUME WaitTypeOK, PhaseIsTrue, [OutputNext]_vars
  PROVE  WaitTypeOK'
<1> USE WaitAssumption DEF WaitTypeOK
<1>1. CASE BeginJob
  BY <1>1 DEF BeginJob, Submitted, Started, Unseen
<1>2. CASE EndJob
  BY <1>2 DEF EndJob, Finishes, Unseen
<1>3. CASE AgentGoesOn
  <2>1. CASE Responds
    BY <2>1, AddTypes DEF Responds, Row
  <2>2. CASE Progress \/ Pauses
    BY <2>2 DEF Progress, Pauses
  <2>3. CASE ToolReturns \/ SaysRunning
    BY <2>3, AddTypes DEF ToolReturns, SaysRunning, Row
  <2>4. CASE ToBackground
    BY <2>4 DEF ToBackground, CommandReturned
  <2>5. CASE Continues
    BY <2>5 DEF Continues, Started, Unseen
  <2>6. CASE Observes
    <3>1. evidence' = [steps |-> WaitingSteps, waits |-> WaitingSteps # {} /\ Waits]
      BY <2>6 DEF Observes
    <3>2. evidence' \in [steps : SUBSET (1..MaxRows), waits : BOOLEAN]
      BY <3>1, WaitingStepsWait
    <3>3. QED
      BY <2>6, <3>2 DEF Observes
  <2>7. QED
    BY <1>3, <2>1, <2>2, <2>3, <2>4, <2>5, <2>6 DEF AgentGoesOn, WaitNext
<1>4. ASSUME NEW secrets \in SUBSET Secret, Exec(secrets)
      PROVE  WaitTypeOK'
  <2>1. Len(rows) \in 0..MaxRows
    OBVIOUS
  <2>2. QED
    BY <1>4, <2>1 DEF Exec, Binds, Unbound
<1>5. CASE Returns
  <2>1. agent = "command" => rows' \in Seq(Row) /\ Len(rows') <= MaxRows
    BY <1>5, AddTypes DEF Returns, CommandOver, Row
  <2>2. QED
    BY <1>5, <2>1 DEF Returns, CommandOver, CommandReturned, Unbound
<1>6. CASE SessionGone
  BY <1>6 DEF SessionGone, Unbound, Unseen
<1>7. CASE UNCHANGED waitVars
  BY <1>7 DEF waitVars
<1>8. ASSUME NEW s \in Stream, NEW text \in BoundedSeq(Letter, 2), Writes(s, text)
      PROVE  UNCHANGED waitVars
  BY <1>8 DEF Writes
<1>9. CASE Closes \/ Update \/ UNCHANGED vars
  BY <1>7, <1>9 DEF Closes, Update, vars
<1>10. QED
  BY <1>1, <1>2, <1>3, <1>4, <1>5, <1>6, <1>7, <1>8, <1>9 DEF OutputNext

\* The phase stays true: whatever begins or ends a wait says so.
LEMMA PhaseNext ==
  ASSUME WaitTypeOK, PhaseIsTrue, HeldBack, [OutputNext]_vars
  PROVE  PhaseIsTrue'
<1> USE DEF PhaseIsTrue, Waits
<1>1. CASE BeginJob \/ EndJob \/ SessionGone
  BY <1>1 DEF BeginJob, Submitted, Started, EndJob, Finishes, SessionGone
<1>2. CASE AgentGoesOn
  <2>1. CASE Responds
    <3>1. phase # "waiting"
      BY <2>1 DEF Responds
    <3>2. QED
      BY <2>1, <3>1 DEF Responds
  <2>2. CASE Progress \/ Pauses
    BY <2>2 DEF Progress, Pauses
  <2>3. CASE ToolReturns
    <3>1. rows' = Append(rows, "DONE") /\ rows \in Seq(Row)
      BY <2>3 DEF ToolReturns, Add, WaitTypeOK
    <3>2. rows' # <<>> /\ rows'[Len(rows')] = "DONE"
      BY <3>1 DEF Row
    <3>3. QED
      BY <2>3, <3>2 DEF ToolReturns
  <2>4. CASE SaysRunning
    BY <2>4 DEF SaysRunning
  <2>5. CASE ToBackground \/ Continues
    BY <2>5 DEF ToBackground, CommandReturned, Continues, Started
  <2>6. CASE Observes
    BY <2>6 DEF Observes
  <2>7. QED
    BY <1>2, <2>1, <2>2, <2>3, <2>4, <2>5, <2>6 DEF AgentGoesOn, WaitNext
<1>3. ASSUME NEW secrets \in SUBSET Secret, Exec(secrets)
      PROVE  PhaseIsTrue'
  BY <1>3 DEF Exec, Binds
<1>4. CASE Returns
  BY <1>4 DEF Returns, CommandOver, CommandReturned
<1>5. CASE UNCHANGED waitVars
  BY <1>5 DEF waitVars
<1>6. ASSUME NEW s \in Stream, NEW text \in BoundedSeq(Letter, 2), Writes(s, text)
      PROVE  UNCHANGED waitVars
  BY <1>6 DEF Writes
<1>7. CASE Closes \/ Update \/ UNCHANGED vars
  BY <1>5, <1>7 DEF Closes, Update, vars
<1>8. QED
  BY <1>1, <1>2, <1>3, <1>4, <1>5, <1>6, <1>7 DEF OutputNext

\* What was seen waiting did wait, and what is held back is of a command that runs.
LEMMA SeenNext ==
  ASSUME WaitIInv, [OutputNext]_vars
  PROVE  SeenWaiting' /\ HeldBack'
<1> USE DEF WaitIInv, SeenWaiting, HeldBack
<1>1. CASE BeginJob
  BY <1>1 DEF BeginJob, Submitted, Started, Unseen, outputVars
<1>2. CASE EndJob
  BY <1>2 DEF EndJob, Finishes, Unseen, outputVars
<1>3. CASE AgentGoesOn
  <2>1. UNCHANGED <<waiting, command, commandTurn, binding>>
    BY <1>3 DEF AgentGoesOn, WaitNext, outputVars, Responds, Progress, ToolReturns, SaysRunning,
                ToBackground, Continues, Pauses, Observes
  <2>2. CASE Observes
    <3>1. evidence'.steps = WaitingSteps /\ (evidence'.waits <=> WaitingSteps # {} /\ Waits)
      BY <2>2 DEF Observes
    <3>2. QED
      BY <2>1, <3>1, WaitingStepsWait
  <2>3. CASE Continues
    BY <2>1, <2>3 DEF Continues, Started, Unseen
  <2>4. CASE UNCHANGED evidence
    BY <2>1, <2>4
  <2>5. QED
    BY <1>3, <2>2, <2>3, <2>4
       DEF AgentGoesOn, WaitNext, Responds, Progress, ToolReturns, SaysRunning, ToBackground,
           CommandReturned, Pauses
<1>4. ASSUME NEW secrets \in SUBSET Secret, Exec(secrets)
      PROVE  SeenWaiting' /\ HeldBack'
  BY <1>4 DEF Exec, Binds, Unbound
<1>5. CASE Returns
  BY <1>5 DEF Returns, CommandGone, CommandOver, CommandReturned
<1>6. CASE SessionGone
  BY <1>6 DEF SessionGone, CommandGone, Unseen
<1>7. ASSUME NEW s \in Stream, NEW text \in BoundedSeq(Letter, 2), Writes(s, text)
      PROVE  SeenWaiting' /\ HeldBack'
  BY <1>7 DEF Writes, waitVars
<1>8. CASE Closes \/ Update \/ UNCHANGED vars
  BY <1>8 DEF Closes, Update, vars, waitVars, outputVars
<1>9. QED
  BY <1>1, <1>2, <1>3, <1>4, <1>5, <1>6, <1>7, <1>8 DEF OutputNext

LEMMA WaitIInvNext == WaitIInv /\ [OutputNext]_vars => WaitIInv'
  BY WaitTypesNext, PhaseNext, SeenNext DEF WaitIInv

-------------------------------------------------------------------------------

\* However hooks, rows, observations and polls pass each other, the log of a command opens
\* only on evidence of a wait since the agent was last seen to start, of the command's own job
\* and while it runs (waitingSteps, bindCommandWait and update).
THEOREM WaitInvHolds == OutputSpec => []WaitInv
<1>1. ASSUME WaitIInv
      PROVE  OpensOnWait
  BY <1>1 DEF WaitIInv, SeenWaiting, HeldBack, OpensOnWait, Evident
<1>2. WaitIInv => WaitInv
  BY <1>1 DEF WaitIInv, WaitInv
<1>3. QED
  BY <1>2, WaitIInvInit, WaitIInvNext, PTL DEF OutputSpec

-------------------------------------------------------------------------------
(* Induction on numbers, and functions defined by recursion.               *)

\* Numbers have no endless descent.
LEMMA LessIsWellFounded ==
  \A T : T \subseteq Nat /\ T # {} => \E x \in T : \A y \in T : ~(<<y, x>> \in OpToRel(<, Nat))
<1> DEFINE R == OpToRel(<, Nat)
<1>1. IsWellFoundedOn(R, Nat)
  BY NatLessThanWellFounded
<1> HIDE DEF R
<1>2. \A T : T \subseteq Nat /\ T # {} => \E x \in T : \A y \in T : ~(<<y, x>> \in R)
  BY <1>1, WFMin
<1>3. QED
  BY <1>2 DEF R

\* The order the library speaks of is the order of numbers.
LEMMA SmallerIsRelated ==
  ASSUME NEW x \in Nat, NEW y \in Nat, y < x
  PROVE  <<y, x>> \in OpToRel(<, Nat)
  BY Zenon DEF OpToRel

\* A set of numbers that is not empty has a least one.
LEMMA LeastNumber ==
  ASSUME NEW T, T \subseteq Nat, T # {}
  PROVE  \E x \in T : \A y \in T : x <= y
<1>1. PICK x \in T : \A y \in T : ~(<<y, x>> \in OpToRel(<, Nat))
  BY LessIsWellFounded
<1>2. \A y \in T : ~(y < x)
  BY <1>1, SmallerIsRelated
<1>3. QED
  BY <1>2

\* Induction over a set of numbers.
LEMMA SetInduction ==
  ASSUME NEW I, 0 \in I, \A n \in Nat : n \in I => n + 1 \in I
  PROVE  \A n \in Nat : n \in I
<1> SUFFICES ASSUME NEW m \in Nat, m \notin I
             PROVE  FALSE
  OBVIOUS
<1>1. PICK x \in Nat \ I : \A y \in Nat \ I : x <= y
  BY LeastNumber, Nat \ I \subseteq Nat, Nat \ I # {}
<1>2. x # 0 /\ x - 1 \in Nat
  BY <1>1
<1>3. x - 1 \in I
  BY <1>1, <1>2
<1>4. (x - 1) + 1 \in I
  BY <1>2, <1>3
<1>5. QED
  BY <1>1, <1>4

\* f is what the steps h make of b.
Steps(X, N, h) == h \in [1..N -> [X -> X]]
Follows(X, b, N, h, f) ==
  /\ f \in [0..N -> X]
  /\ f[0] = b
  /\ \A n \in 1..N : f[n] = h[n][f[n - 1]]

\* A function defined by recursion exists.
LEMMA Recursion ==
  ASSUME NEW X, NEW b \in X, NEW N \in Nat, NEW h, Steps(X, N, h)
  PROVE  \E f : Follows(X, b, N, h, f)
<1> DEFINE Upto(m, f) == /\ f \in [0..m -> X]
                         /\ f[0] = b
                         /\ \A n \in 1..m : f[n] = h[n][f[n - 1]]
           I == {m \in Nat : m <= N => \E f : Upto(m, f)}
<1>0. h \in [1..N -> [X -> X]]
  BY DEF Steps
<1>1. 0 \in I
  <2>1. Upto(0, [n \in 0..0 |-> b])
    OBVIOUS
  <2>2. QED
    BY <2>1
<1>2. ASSUME NEW m \in Nat, m + 1 <= N, NEW g, Upto(m, g)
      PROVE  \E f : Upto(m + 1, f)
  <2> DEFINE next == h[m + 1][g[m]]
             f == [n \in 0..m + 1 |-> IF n <= m THEN g[n] ELSE next]
  <2>1. m + 1 \in 1..N /\ g[m] \in X
    BY <1>2
  <2>2. next \in X
    BY <1>0, <2>1
  <2> HIDE DEF next
  <2>3. f \in [0..m + 1 -> X] /\ f[0] = b
    BY <1>2, <2>2
  <2>4. ASSUME NEW n \in 1..m + 1 PROVE f[n] = h[n][f[n - 1]]
    <3>1. CASE n <= m
      <4>1. n \in 1..m /\ f[n] = g[n] /\ f[n - 1] = g[n - 1]
        BY <3>1
      <4>2. QED
        BY <4>1, <1>2
    <3>2. CASE n = m + 1
      <4>1. f[n] = next /\ f[n - 1] = g[m]
        BY <3>2
      <4>2. QED
        BY <4>1, <3>2 DEF next
    <3>3. QED
      BY <3>1, <3>2
  <2>5. Upto(m + 1, f)
    BY <2>3, <2>4
  <2>6. QED
    BY <2>5
<1>3. N \in I
  <2>1. \A m \in Nat : m \in I => m + 1 \in I
    <3> HIDE DEF Upto
    <3>1. QED
      BY <1>2
  <2> HIDE DEF I
  <2>2. QED
    BY <1>1, <2>1, SetInduction
<1>4. PICK f : Upto(N, f)
  <2> HIDE DEF Upto
  <2>1. QED
    BY <1>3
<1>5. QED
  BY <1>4 DEF Follows

\* And there is only one.
GoAlike(N, f, g) ==
  /\ f[0] = g[0]
  /\ \A n \in 1..N : f[n - 1] = g[n - 1] => f[n] = g[n]
SameUpTo(N, f, g) == \A n \in 0..N : f[n] = g[n]

LEMMA OneRecursion ==
  ASSUME NEW N \in Nat, NEW f, NEW g, GoAlike(N, f, g)
  PROVE  SameUpTo(N, f, g)
<1> DEFINE I == {m \in Nat : m <= N => f[m] = g[m]}
<1>0. f[0] = g[0] /\ \A n \in 1..N : f[n - 1] = g[n - 1] => f[n] = g[n]
  BY DEF GoAlike
<1>1. 0 \in I
  BY <1>0
<1>2. ASSUME NEW m \in Nat, m \in I PROVE m + 1 \in I
  <2> SUFFICES ASSUME m + 1 <= N PROVE f[m + 1] = g[m + 1]
    OBVIOUS
  <2>1. m + 1 \in 1..N /\ (m + 1) - 1 = m /\ f[m] = g[m]
    BY <1>2
  <2>2. QED
    BY <1>0, <2>1
<1>3. \A m \in Nat : m \in I
  <2> HIDE DEF I
  <2>1. QED
    BY <1>1, <1>2, SetInduction
<1>4. QED
  BY <1>3 DEF SameUpTo

-------------------------------------------------------------------------------
(* What is in a set, of a text.                                             *)

\* What Only computes, letter by letter.
Kept(T, text, some, f) ==
  /\ f \in [0..Len(text) -> Seq(T)]
  /\ f[0] = <<>>
  /\ \A n \in 1..Len(text) :
       f[n] = IF text[n] \in some THEN Append(f[n - 1], text[n]) ELSE f[n - 1]
  /\ Only(text, some) = f[Len(text)]

LEMMA OnlySteps ==
  ASSUME NEW T, NEW text \in Seq(T), NEW some
  PROVE  \E f : Kept(T, text, some, f)
<1> DEFINE N == Len(text)
           Next1(n, x) == IF text[n] \in some THEN Append(x, text[n]) ELSE x
           h == [n \in 1..N |-> [x \in Seq(T) |-> Next1(n, x)]]
           Eqn(f) == f = [n \in 0..N |-> IF n = 0 THEN <<>>
                                         ELSE IF text[n] \in some THEN Append(f[n - 1], text[n])
                                              ELSE f[n - 1]]
<1>1. N \in Nat /\ \A n \in 1..N : text[n] \in T
  OBVIOUS
<1>2. h \in [1..N -> [Seq(T) -> Seq(T)]]
  <2>1. \A n \in 1..N : \A x \in Seq(T) : Next1(n, x) \in Seq(T)
    BY <1>1
  <2> HIDE DEF Next1
  <2>2. QED
    BY <2>1
<1>3. PICK g : Follows(Seq(T), <<>>, N, h, g)
  <2>1. N \in Nat /\ <<>> \in Seq(T) /\ Steps(Seq(T), N, h)
    BY <1>1, <1>2, EmptySeq DEF Steps
  <2> HIDE DEF h, N
  <2>2. QED
    BY <2>1, Recursion
<1>3a. g \in [0..N -> Seq(T)] /\ g[0] = <<>> /\ \A n \in 1..N : g[n] = h[n][g[n - 1]]
  BY <1>3 DEF Follows
<1>4. \A n \in 1..N : g[n] = IF text[n] \in some THEN Append(g[n - 1], text[n]) ELSE g[n - 1]
  <2>1. \A n \in 1..N : g[n - 1] \in Seq(T)
    BY <1>1, <1>3a
  <2>2. QED
    BY <1>3a, <2>1
<1>5. Eqn(g)
  <2>1. \A n \in 0..N : g[n] = IF n = 0 THEN <<>>
                               ELSE IF text[n] \in some THEN Append(g[n - 1], text[n])
                                    ELSE g[n - 1]
    <3> TAKE n \in 0..N
    <3>1. n = 0 \/ n \in 1..N
      BY <1>1
    <3>2. QED
      BY <3>1, <1>3a, <1>4
  <2>2. g = [n \in 0..N |-> g[n]]
    BY <1>3a
  <2>3. QED
    BY <2>1, <2>2
<1> DEFINE kept == CHOOSE f : Eqn(f)
<1>6. Eqn(kept)
  <2> HIDE DEF Eqn
  <2>1. QED
    BY <1>5
<1>7. Only(text, some) = kept[N]
  BY DEF Only
<1> HIDE DEF kept
<1>8. \A n \in 0..N : kept[n] = g[n]
  <2>0. \A n \in 0..N : kept[n] = IF n = 0 THEN <<>>
                                  ELSE IF text[n] \in some THEN Append(kept[n - 1], text[n])
                                       ELSE kept[n - 1]
    BY <1>6
  <2>1. kept[0] = g[0]
    BY <2>0, <1>1, <1>3a
  <2>2. \A n \in 1..N :
          kept[n] = IF text[n] \in some THEN Append(kept[n - 1], text[n]) ELSE kept[n - 1]
    BY <2>0, <1>1
  <2>3. \A n \in 1..N : kept[n - 1] = g[n - 1] => kept[n] = g[n]
    BY <2>2, <1>4
  <2>4. GoAlike(N, kept, g)
    BY <2>1, <2>3 DEF GoAlike
  <2> HIDE DEF N
  <2>5. SameUpTo(N, kept, g)
    BY <1>1, <2>4, OneRecursion
  <2>6. QED
    BY <2>5 DEF SameUpTo
<1>9. Only(text, some) = g[N]
  BY <1>1, <1>7, <1>8
<1>10. QED
  BY <1>3a, <1>4, <1>9 DEF Kept

LEMMA ConcatAppend ==
  ASSUME NEW T, NEW x \in Seq(T), NEW y \in Seq(T), NEW e \in T
  PROVE  x \o Append(y, e) = Append(x \o y, e)
<1>1. <<e>> \in Seq(T) /\ x \o y \in Seq(T)
  BY ConcatProperties
<1>2. Append(y, e) = y \o <<e>> /\ Append(x \o y, e) = (x \o y) \o <<e>>
  BY <1>1, AppendIsConcat
<1>3. QED
  BY <1>1, <1>2, ConcatAssociative

\* Only what is in the set, and no more than there was.
LEMMA OnlyFacts ==
  ASSUME NEW T, NEW text \in Seq(T), NEW some
  PROVE  /\ Only(text, some) \in Seq(T)
         /\ Only(text, some) \in Seq(T \cap some)
         /\ Len(Only(text, some)) <= Len(text)
<1>1. PICK f : Kept(T, text, some, f)
  BY OnlySteps
<1> DEFINE N == Len(text)
           I == {n \in Nat : n <= N => f[n] \in Seq(T \cap some) /\ Len(f[n]) <= n}
<1>2. /\ f[0] = <<>>
      /\ \A n \in 1..N : f[n] = IF text[n] \in some THEN Append(f[n - 1], text[n]) ELSE f[n - 1]
      /\ Only(text, some) = f[N]
  BY <1>1 DEF Kept
<1>3. N \in Nat /\ \A n \in 1..N : text[n] \in T
  OBVIOUS
<1>4. 0 \in I
  <2>1. <<>> \in Seq(T \cap some) /\ Len(<<>>) = 0
    BY EmptySeq
  <2>2. f[0] \in Seq(T \cap some) /\ Len(f[0]) <= 0
    BY <1>2, <2>1
  <2>3. QED
    BY <2>2
<1>5. ASSUME NEW n \in Nat, n \in I PROVE n + 1 \in I
  <2> SUFFICES ASSUME n + 1 <= N
               PROVE  f[n + 1] \in Seq(T \cap some) /\ Len(f[n + 1]) <= n + 1
    OBVIOUS
  <2>1. n + 1 \in 1..N /\ (n + 1) - 1 = n /\ f[n] \in Seq(T \cap some) /\ Len(f[n]) <= n
    BY <1>3, <1>5
  <2>2. f[n + 1] = IF text[n + 1] \in some THEN Append(f[n], text[n + 1]) ELSE f[n]
    BY <1>2, <2>1
  <2>3. CASE text[n + 1] \in some
    <3>1. text[n + 1] \in T \cap some
      BY <1>3, <2>1, <2>3
    <3>2. /\ Append(f[n], text[n + 1]) \in Seq(T \cap some)
          /\ Len(Append(f[n], text[n + 1])) = Len(f[n]) + 1
      BY <2>1, <3>1, AppendProperties
    <3>3. Len(f[n]) \in Nat
      BY <2>1
    <3>4. QED
      BY <2>1, <2>2, <2>3, <3>2, <3>3
  <2>4. CASE text[n + 1] \notin some
    BY <2>1, <2>2, <2>4
  <2>5. QED
    BY <2>3, <2>4
<1>6. N \in I
  <2> HIDE DEF I
  <2>1. QED
    BY <1>3, <1>4, <1>5, SetInduction
<1>7. f[N] \in Seq(T \cap some) /\ Len(f[N]) <= N
  BY <1>3, <1>6
<1>8. f[N] \in Seq(T)
  BY <1>7, SeqMonotonic, T \cap some \subseteq T
<1>9. QED
  BY <1>2, <1>7, <1>8

\* A text of two parts keeps what each part keeps.
LEMMA OnlyConcat ==
  ASSUME NEW T, NEW text \in Seq(T), NEW more \in Seq(T), NEW some
  PROVE  Only(text \o more, some) = Only(text, some) \o Only(more, some)
<1> DEFINE both == text \o more
           K == Len(text)
           L == Len(more)
<1>1. /\ both \in Seq(T) /\ Len(both) = K + L /\ K \in Nat /\ L \in Nat
      /\ \A i \in 1..K : both[i] = text[i]
      /\ \A i \in 1..L : both[K + i] = more[i]
  <2>1. K \in Nat /\ L \in Nat
    OBVIOUS
  <2>2. /\ both \in Seq(T) /\ Len(both) = K + L
        /\ \A i \in 1..K + L : both[i] = IF i <= K THEN text[i] ELSE more[i - K]
    BY ConcatProperties
  <2>3. \A i \in 1..K : i \in 1..K + L /\ i <= K
    BY <2>1
  <2>4. \A i \in 1..L : K + i \in 1..K + L /\ ~(K + i <= K) /\ (K + i) - K = i
    BY <2>1
  <2> HIDE DEF both, K, L
  <2>5. QED
    BY <2>1, <2>2, <2>3, <2>4
<1>2. PICK f : Kept(T, both, some, f)
  BY <1>1, OnlySteps
<1>3. PICK g : Kept(T, text, some, g)
  BY OnlySteps
<1>4. PICK h : Kept(T, more, some, h)
  BY OnlySteps
<1> HIDE DEF both
<1>5. /\ f[0] = <<>>
      /\ \A n \in 1..K + L : f[n] = IF both[n] \in some THEN Append(f[n - 1], both[n]) ELSE f[n - 1]
      /\ Only(both, some) = f[K + L]
  BY <1>1, <1>2 DEF Kept
<1>6. /\ g \in [0..K -> Seq(T)] /\ g[0] = <<>>
      /\ \A n \in 1..K : g[n] = IF text[n] \in some THEN Append(g[n - 1], text[n]) ELSE g[n - 1]
      /\ Only(text, some) = g[K]
  BY <1>3 DEF Kept
<1>7. /\ h \in [0..L -> Seq(T)] /\ h[0] = <<>>
      /\ \A n \in 1..L : h[n] = IF more[n] \in some THEN Append(h[n - 1], more[n]) ELSE h[n - 1]
      /\ Only(more, some) = h[L]
  BY <1>4 DEF Kept
<1>8. \A n \in 1..K : n \in 1..K + L
  BY <1>1
<1>8a. \A n \in 1..L : K + n \in 1..K + L /\ (K + n) - 1 = K + (n - 1) /\ n - 1 \in 0..L
  BY <1>1
<1>8b. K \in Nat /\ L \in Nat
  BY <1>1
<1> HIDE DEF K, L
<1>9. f[K] = g[K]
  <2>1. \A n \in 1..K : f[n - 1] = g[n - 1] => f[n] = g[n]
    BY <1>1, <1>5, <1>6, <1>8
  <2>2. f[0] = g[0]
    BY <1>5, <1>6
  <2>3. GoAlike(K, f, g)
    BY <2>1, <2>2 DEF GoAlike
  <2>4. SameUpTo(K, f, g)
    BY <1>8b, <2>3, OneRecursion
  <2>5. QED
    BY <1>8b, <2>4 DEF SameUpTo
<1>10. g[K] \in Seq(T)
  BY <1>1, <1>6
<1>11. f[K + L] = g[K] \o h[L]
  <2> DEFINE u == [n \in 0..L |-> f[K + n]]
             v == [n \in 0..L |-> g[K] \o h[n]]
  <2>1. u[0] = v[0]
    <3>1. g[K] \o <<>> = g[K] /\ 0 \in 0..L /\ K + 0 = K
      BY <1>8b, <1>10, ConcatEmptySeq
    <3>2. QED
      BY <1>7, <1>9, <3>1
  <2>2. ASSUME NEW n \in 1..L, u[n - 1] = v[n - 1] PROVE u[n] = v[n]
    <3>1. f[K + (n - 1)] = g[K] \o h[n - 1]
      BY <1>8a, <2>2
    <3>2. f[K + n] = IF more[n] \in some THEN Append(f[K + (n - 1)], more[n]) ELSE f[K + (n - 1)]
      BY <1>1, <1>5, <1>8a
    <3>3. h[n - 1] \in Seq(T) /\ more[n] \in T
      <4>1. more[n] \in T
        BY ElementOfSeq DEF L
      <4>2. QED
        BY <1>7, <1>8a, <4>1
    <3>4. g[K] \o Append(h[n - 1], more[n]) = Append(g[K] \o h[n - 1], more[n])
      <4> DEFINE x == g[K]
                 y == h[n - 1]
                 e == more[n]
      <4>1. x \in Seq(T) /\ y \in Seq(T) /\ e \in T
        BY <1>10, <3>3
      <4> HIDE DEF x, y, e
      <4>2. x \o Append(y, e) = Append(x \o y, e)
        BY <4>1, ConcatAppend
      <4>3. QED
        BY <4>2 DEF x, y, e
    <3>5. f[K + n] = g[K] \o h[n]
      BY <1>7, <3>1, <3>2, <3>4
    <3>6. n \in 0..L
      BY <1>8b
    <3>7. QED
      BY <3>5, <3>6
  <2> HIDE DEF u, v
  <2>3. GoAlike(L, u, v)
    BY <2>1, <2>2 DEF GoAlike
  <2>4. SameUpTo(L, u, v)
    BY <1>8b, <2>3, OneRecursion
  <2>5. u[L] = v[L] /\ L \in 0..L
    BY <1>8b, <2>4 DEF SameUpTo
  <2>6. QED
    BY <2>5 DEF u, v
<1>12. QED
  BY <1>5, <1>6, <1>7, <1>11 DEF both

\* All of a text, or nothing of it.
LEMMA OnlyAll ==
  ASSUME NEW T, NEW text \in Seq(T), NEW some
  PROVE  /\ T \subseteq some => Only(text, some) = text
         /\ T \cap some = {} => Only(text, some) = <<>>
<1>1. PICK f : Kept(T, text, some, f)
  BY OnlySteps
<1> DEFINE N == Len(text)
<1>2. /\ f[0] = <<>>
      /\ \A n \in 1..N : f[n] = IF text[n] \in some THEN Append(f[n - 1], text[n]) ELSE f[n - 1]
      /\ Only(text, some) = f[N]
  BY <1>1 DEF Kept
<1>3. N \in Nat /\ \A n \in 1..N : text[n] \in T
  OBVIOUS
<1>4. ASSUME T \subseteq some PROVE f[N] = text
  <2> DEFINE v == [n \in 0..N |-> SubSeq(text, 1, n)]
  <2>1. f[0] = v[0]
    BY <1>2, <1>3, SubSeqEmpty
  <2>2. ASSUME NEW n \in 1..N, f[n - 1] = v[n - 1] PROVE f[n] = v[n]
    <3>1. f[n - 1] = SubSeq(text, 1, n - 1) /\ text[n] \in T
      BY <1>3, <2>2
    <3>2. SubSeq(text, 1, n - 1) \in Seq(T)
      BY <1>3
    <3>3. SubSeq(text, 1, n) = SubSeq(text, 1, n - 1) \o <<text[n]>>
      BY <1>3, SubSeqRecursiveSecond
    <3>4. f[n] = Append(SubSeq(text, 1, n - 1), text[n])
      BY <1>2, <1>4, <3>1
    <3>5. f[n] = SubSeq(text, 1, n)
      BY <3>1, <3>2, <3>3, <3>4, AppendIsConcat
    <3>6. QED
      BY <1>3, <3>5
  <2> HIDE DEF v
  <2>3. GoAlike(N, f, v)
    BY <2>1, <2>2 DEF GoAlike
  <2>4. SameUpTo(N, f, v)
    BY <1>3, <2>3, OneRecursion
  <2>5. f[N] = v[N]
    BY <1>3, <2>4 DEF SameUpTo
  <2>6. f[N] = SubSeq(text, 1, N)
    BY <1>3, <2>5 DEF v
  <2>7. QED
    BY <2>6, SubSeqFull
<1>5. ASSUME T \cap some = {} PROVE f[N] = <<>>
  <2> DEFINE v == [n \in 0..N |-> <<>>]
  <2>1. f[0] = v[0] /\ \A n \in 1..N : f[n - 1] = v[n - 1] => f[n] = v[n]
    BY <1>2, <1>3, <1>5
  <2> HIDE DEF v
  <2>2. GoAlike(N, f, v)
    BY <2>1 DEF GoAlike
  <2>3. SameUpTo(N, f, v)
    BY <1>3, <2>2, OneRecursion
  <2>4. f[N] = v[N]
    BY <1>3, <2>3 DEF SameUpTo
  <2>5. QED
    BY <1>3, <2>4 DEF v
<1>6. QED
  BY <1>2, <1>4, <1>5

-------------------------------------------------------------------------------
(* Secrets: how long they are, and where they match.                        *)

\* A bounded set of numbers has a greatest one.
LEMMA MaxFacts ==
  ASSUME NEW S, S \subseteq Nat, S # {}, NEW B \in Nat, \A x \in S : x <= B
  PROVE  Max(S) \in S /\ Max(S) \in Nat /\ \A x \in S : x <= Max(S)
<1> DEFINE T == {n \in 0..B : B - n \in S}
<1>1. T \subseteq Nat /\ T # {}
  <2>1. PICK x \in S : x \in Nat /\ x <= B
    OBVIOUS
  <2>2. B - x \in 0..B /\ B - (B - x) = x
    BY <2>1
  <2>3. B - x \in T
    BY <2>1, <2>2
  <2>4. T \subseteq Nat
    OBVIOUS
  <2> HIDE DEF T
  <2>5. QED
    BY <2>3, <2>4
<1>2. PICK n \in T : \A m \in T : n <= m
  <2> HIDE DEF T
  <2>1. QED
    BY <1>1, LeastNumber
<1>3. B - n \in S /\ n \in 0..B
  BY <1>2
<1>4. ASSUME NEW x \in S PROVE x <= B - n
  <2>1. x \in Nat /\ x <= B
    BY <1>4
  <2>2. B - x \in 0..B /\ B - (B - x) = x
    BY <2>1
  <2>3. B - x \in T
    BY <1>4, <2>2
  <2>4. n <= B - x
    BY <1>2, <2>3
  <2>5. QED
    BY <1>3, <2>1, <2>4
<1>5. \E y \in S : \A x \in S : y >= x
  <2>1. \A x \in S : B - n >= x
    BY <1>3, <1>4
  <2>2. QED
    BY <1>3, <2>1
<1>6. Max(S) \in S /\ \A x \in S : Max(S) >= x
  BY <1>5 DEF Max
<1>7. QED
  BY <1>6

\* Finitely many secrets are of bounded length.
LEMMA SecretsBounded ==
  \E B \in Nat : \A t \in Secret : t \in Seq(Letter) /\ Len(t) \in Nat /\ Len(t) <= B
<1> DEFINE N == Cardinality(Secret)
<1>1. N \in Nat /\ ExistsBijection(1..N, Secret)
  BY OutputAssumption, FS_CardinalityType DEF OutputAssumption
<1>2. PICK f : f \in Bijection(1..N, Secret)
  BY <1>1 DEF ExistsBijection
<1>3. f \in [1..N -> Secret] /\ \A t \in Secret : \E n \in 1..N : f[n] = t
  BY <1>2 DEF Bijection, Surjection, Injection
<1>4. \A t \in Secret : t \in Seq(Letter) /\ Len(t) \in Nat
  BY OutputAssumption DEF OutputAssumption
<1> DEFINE I == {m \in Nat : m <= N => \E B \in Nat : \A n \in 1..m : Len(f[n]) <= B}
<1>5. 0 \in I
  BY <1>1
<1>6. ASSUME NEW m \in Nat, m \in I PROVE m + 1 \in I
  <2> SUFFICES ASSUME m + 1 <= N
               PROVE  \E B \in Nat : \A n \in 1..m + 1 : Len(f[n]) <= B
    OBVIOUS
  <2>0. m <= N
    BY <1>1
  <2>1. PICK A \in Nat : \A n \in 1..m : Len(f[n]) <= A
    BY <1>6, <2>0
  <2>2. m + 1 \in 1..N /\ \A n \in 1..m : n \in 1..N
    BY <1>1
  <2>3. Len(f[m + 1]) \in Nat /\ \A n \in 1..m : Len(f[n]) \in Nat
    BY <1>3, <1>4, <2>2
  <2> DEFINE B == A + Len(f[m + 1])
  <2>4. B \in Nat
    BY <2>3
  <2>5. ASSUME NEW n \in 1..m + 1 PROVE Len(f[n]) <= B
    <3>1. CASE n \in 1..m
      BY <2>1, <2>3, <3>1
    <3>2. CASE n = m + 1
      BY <2>3, <3>2
    <3>3. QED
      BY <3>1, <3>2
  <2> HIDE DEF B
  <2>6. QED
    BY <2>4, <2>5
<1>7. N \in I
  <2>1. \A m \in Nat : m \in I => m + 1 \in I
    BY <1>6
  <2> HIDE DEF I
  <2>2. QED
    BY <1>1, <1>5, <2>1, SetInduction
<1>8. PICK B \in Nat : \A n \in 1..N : Len(f[n]) <= B
  BY <1>1, <1>7
<1>9. \A t \in Secret : Len(t) <= B
  BY <1>3, <1>8
<1>10. QED
  BY <1>4, <1>9

\* What a filter keeps is one letter less than the longest secret.
LEMMA KeepFacts ==
  ASSUME hidden \subseteq Secret
  PROVE  Keep \in Nat /\ \A t \in hidden : Len(t) \in Nat /\ Len(t) > 0 /\ Len(t) - 1 <= Keep
<1>1. PICK B \in Nat : \A t \in Secret : t \in Seq(Letter) /\ Len(t) \in Nat /\ Len(t) <= B
  BY SecretsBounded
<1>2. \A t \in hidden : t \in Seq(Letter) /\ t # <<>>
  BY OutputAssumption DEF OutputAssumption
<1>3. \A t \in hidden : Len(t) \in Nat /\ Len(t) > 0 /\ Len(t) <= B
  BY <1>1, <1>2, EmptySeq
<1> DEFINE S == {0} \cup {Len(t) - 1 : t \in hidden}
<1>4. S \subseteq Nat /\ S # {} /\ \A x \in S : x <= B
  BY <1>3
<1>5. Keep = Max(S)
  BY DEF Keep
<1> HIDE DEF S
<1>6. Max(S) \in Nat /\ \A x \in S : x <= Max(S)
  BY <1>4, MaxFacts
<1>7. \A t \in hidden : Len(t) - 1 \in S
  BY DEF S
<1>8. QED
  BY <1>3, <1>5, <1>6, <1>7

\* A secret is in a text at i.
Occurs(t, text, i) ==
  i + Len(t) - 1 <= Len(text) /\ \A j \in 1..Len(t) : text[i + j - 1] = t[j]

LEMMA PrefixOccurs ==
  ASSUME NEW T, NEW text \in Seq(T), NEW t \in Seq(T), t # <<>>, NEW i \in 1..Len(text)
  PROVE  IsPrefix(t, SubSeq(text, i, Len(text))) <=> Occurs(t, text, i)
<1> DEFINE N == Len(text)
           rest == SubSeq(text, i, N)
           L == Len(t)
<1>1. N \in Nat /\ L \in Nat \ {0} /\ i \in 1..N
  BY EmptySeq
<1>2. /\ rest \in Seq(T) /\ Len(rest) = N - i + 1
      /\ \A j \in 1..(N - i + 1) : rest[j] = text[i + j - 1]
  <2>1. \A j \in i..N : text[j] \in T
    BY <1>1
  <2>2. i <= N /\ i \in Int /\ N \in Int
    BY <1>1
  <2>3. QED
    BY <2>1, <2>2, SubSeqProperties
<1>3. ASSUME L <= Len(rest)
      PROVE  SubSeq(t, 1, L) = SubSeq(rest, 1, L) <=> \A j \in 1..L : rest[j] = t[j]
  <2>1. SubSeq(t, 1, L) = t
    BY SubSeqFull
  <2>2. \A j \in 1..L : rest[j] \in T
    BY <1>1, <1>2, <1>3
  <2>3. /\ SubSeq(rest, 1, L) \in Seq(T) /\ Len(SubSeq(rest, 1, L)) = L
        /\ \A j \in 1..L : SubSeq(rest, 1, L)[j] = rest[j]
    <3> HIDE DEF rest, L
    <3>1. /\ SubSeq(rest, 1, L) \in Seq(T)
          /\ Len(SubSeq(rest, 1, L)) = (IF 1 <= L THEN L - 1 + 1 ELSE 0)
          /\ \A j \in 1..(L - 1 + 1) : SubSeq(rest, 1, L)[j] = rest[1 + j - 1]
      BY <1>1, <2>2, SubSeqProperties
    <3>2. QED
      BY <1>1, <3>1
  <2> DEFINE front == SubSeq(rest, 1, L)
  <2> HIDE DEF front, rest
  <2>4. t = front <=> \A j \in 1..L : front[j] = t[j]
    <3>1. front \in Seq(T) /\ Len(front) = L
      BY <2>3 DEF front
    <3>2. (\A j \in 1..L : front[j] = t[j]) => t = front
      BY <3>1, SeqEqual
    <3>3. QED
      BY <3>2
  <2>5. QED
    BY <2>1, <2>3, <2>4 DEF front
<1>4. L <= Len(rest) <=> i + L - 1 <= N
  BY <1>1, <1>2
<1>5. L <= Len(rest) => \A j \in 1..L : rest[j] = text[i + j - 1]
  BY <1>1, <1>2
<1> HIDE DEF rest, N, L
<1>6. IsPrefix(t, rest) <=> i + L - 1 <= N /\ \A j \in 1..L : text[i + j - 1] = t[j]
  BY <1>3, <1>4, <1>5 DEF IsPrefix, L
<1>7. QED
  BY <1>6 DEF rest, N, L, Occurs

LEMMA MatchFacts ==
  ASSUME hidden \subseteq Secret, NEW text \in Seq(Letter), NEW i \in 1..Len(text)
  PROVE  /\ Match(text, i) \in Nat /\ i + Match(text, i) <= Len(text) + 1
         /\ \A t \in hidden : Occurs(t, text, i) => Len(t) <= Match(text, i)
<1> DEFINE S == {0} \cup {Len(t) : t \in {t \in hidden : IsPrefix(t, SubSeq(text, i, Len(text)))}}
           N == Len(text)
<1>1. N \in Nat /\ N + 1 - i \in Nat
  OBVIOUS
<1>2. \A t \in hidden : t \in Seq(Letter) /\ t # <<>> /\ Len(t) \in Nat
  BY OutputAssumption DEF OutputAssumption
<1>3. \A t \in hidden : IsPrefix(t, SubSeq(text, i, Len(text))) <=> Occurs(t, text, i)
  BY <1>2, PrefixOccurs
<1>4. \A t \in hidden : Occurs(t, text, i) => Len(t) <= N + 1 - i
  BY <1>1, <1>2 DEF Occurs
<1>5. S \subseteq Nat /\ S # {} /\ \A x \in S : x <= N + 1 - i
  BY <1>1, <1>2, <1>3, <1>4
<1>6. \A t \in hidden : Occurs(t, text, i) => Len(t) \in S
  BY <1>3
<1>7. Match(text, i) = Max(S)
  BY DEF Match
<1> HIDE DEF S
<1>8. Max(S) \in S /\ Max(S) \in Nat /\ \A x \in S : x <= Max(S)
  BY <1>1, <1>5, MaxFacts
<1>9. Max(S) <= N + 1 - i
  BY <1>5, <1>8
<1>10. QED
  BY <1>1, <1>6, <1>7, <1>8, <1>9

\* What matches depends on what comes next only.
LEMMA SameMatch ==
  ASSUME hidden \subseteq Secret,
         NEW text \in Seq(Letter), NEW i \in 1..Len(text),
         NEW other \in Seq(Letter), NEW k \in 1..Len(other),
         \A t \in hidden : Occurs(t, text, i) <=> Occurs(t, other, k)
  PROVE  Match(text, i) = Match(other, k)
<1>1. \A t \in hidden : t \in Seq(Letter) /\ t # <<>>
  BY OutputAssumption DEF OutputAssumption
<1>2. \A t \in hidden : IsPrefix(t, SubSeq(text, i, Len(text))) <=> Occurs(t, text, i)
  BY <1>1, PrefixOccurs
<1>3. \A t \in hidden : IsPrefix(t, SubSeq(other, k, Len(other))) <=> Occurs(t, other, k)
  BY <1>1, PrefixOccurs
<1>4. {t \in hidden : IsPrefix(t, SubSeq(text, i, Len(text)))}
        = {t \in hidden : IsPrefix(t, SubSeq(other, k, Len(other)))}
  BY <1>2, <1>3
<1>5. QED
  BY <1>4 DEF Match

-------------------------------------------------------------------------------
(* How a text is read: at which places the loop of write() stands.          *)

Stride(text, i) == IF Match(text, i) = 0 THEN 1 ELSE Match(text, i)
Sign(text, i) == IF Match(text, i) = 0 THEN text[i] ELSE Redacted

\* Reading the text up to a boundary gives out; at[n] is where its n-th letter comes from.
Reads(text, boundary, out, at) ==
  /\ out \in Seq(Shown)
  /\ at \in [1..Len(out) + 1 -> 1..Len(text) + 1]
  /\ at[1] = 1
  /\ \A n \in 1..Len(out) :
       /\ at[n] <= boundary /\ at[n] <= Len(text)
       /\ at[n + 1] = at[n] + Stride(text, at[n])
       /\ out[n] = Sign(text, at[n])

LEMMA StrideFacts ==
  ASSUME hidden \subseteq Secret, NEW text \in Seq(Letter), NEW i \in 1..Len(text)
  PROVE  /\ Stride(text, i) \in Nat \ {0}
         /\ i + Stride(text, i) \in (i + 1)..(Len(text) + 1)
         /\ Sign(text, i) \in Shown
<1>1. Match(text, i) \in Nat /\ i + Match(text, i) <= Len(text) + 1
  BY MatchFacts
<1>2. text[i] \in Letter /\ Len(text) \in Nat
  OBVIOUS
<1>3. QED
  BY <1>1, <1>2 DEF Stride, Sign, Shown

\* One more round.
LEMMA ReadOn ==
  ASSUME hidden \subseteq Secret, NEW text \in Seq(Letter), NEW boundary \in 0..Len(text),
         NEW out, NEW at, Reads(text, boundary, out, at), at[Len(out) + 1] <= boundary
  PROVE  LET i == at[Len(out) + 1]
             more == [n \in 1..Len(out) + 2 |-> IF n <= Len(out) + 1 THEN at[n] ELSE i + Stride(text, i)]
         IN  /\ Reads(text, boundary, Append(out, Sign(text, i)), more)
             /\ Len(Append(out, Sign(text, i))) = Len(out) + 1
             /\ more[Len(out) + 2] = i + Stride(text, i) /\ i \in 1..Len(text)
<1> DEFINE N == Len(text)
           K == Len(out)
           i == at[K + 1]
           more == [n \in 1..K + 2 |-> IF n <= K + 1 THEN at[n] ELSE i + Stride(text, i)]
           longer == Append(out, Sign(text, i))
<1>1. N \in Nat /\ K \in Nat /\ out \in Seq(Shown) /\ at \in [1..K + 1 -> 1..N + 1]
  BY DEF Reads
<1>2. i \in 1..N /\ i <= boundary
  BY <1>1
<1>3. i + Stride(text, i) \in 1..N + 1 /\ Sign(text, i) \in Shown
  BY <1>2, StrideFacts
<1>4. /\ longer \in Seq(Shown) /\ Len(longer) = K + 1
      /\ \A n \in 1..K : longer[n] = out[n]
      /\ longer[K + 1] = Sign(text, i)
  BY <1>1, <1>3, AppendProperties
<1>5. more \in [1..K + 2 -> 1..N + 1]
  BY <1>1, <1>3
<1>6. /\ \A n \in 1..K + 1 : more[n] = at[n]
      /\ more[K + 2] = i + Stride(text, i)
  BY <1>1
<1>7. at[1] = 1 /\ \A n \in 1..K : /\ at[n] <= boundary /\ at[n] <= N
                                   /\ at[n + 1] = at[n] + Stride(text, at[n])
                                   /\ out[n] = Sign(text, at[n])
  BY DEF Reads
<1>8. more[1] = 1
  BY <1>1, <1>6, <1>7
<1>9. ASSUME NEW n \in 1..K + 1
      PROVE  /\ more[n] <= boundary /\ more[n] <= N
             /\ more[n + 1] = more[n] + Stride(text, more[n])
             /\ longer[n] = Sign(text, more[n])
  <2>1. CASE n \in 1..K
    <3>1. n + 1 \in 1..K + 1 /\ more[n] = at[n] /\ more[n + 1] = at[n + 1] /\ longer[n] = out[n]
      BY <1>1, <1>4, <1>6, <2>1
    <3>2. QED
      BY <1>7, <2>1, <3>1
  <2>2. CASE n = K + 1
    <3>1. more[n] = i /\ more[n + 1] = i + Stride(text, i) /\ longer[n] = Sign(text, i)
      BY <1>1, <1>4, <1>6, <2>2
    <3>2. QED
      BY <1>2, <3>1
  <2>3. QED
    BY <1>1, <2>1, <2>2
<1> HIDE DEF more, longer
<1>10. Reads(text, boundary, longer, more)
  <2>1. Len(longer) + 1 = K + 2 /\ 1..Len(longer) = 1..K + 1
    BY <1>1, <1>4
  <2>2. QED
    BY <1>4, <1>5, <1>8, <1>9, <2>1 DEF Reads
<1>11. QED
  BY <1>2, <1>4, <1>6, <1>10 DEF more, longer

\* What Scan computes, round by round.
Scans(text, boundary, f) ==
  /\ f[0] = [out |-> <<>>, next |-> 1]
  /\ \A n \in 1..Len(text) : f[n] = Round(text, boundary, f[n - 1])
  /\ Scan(text, boundary) = f[Len(text)]

LEMMA ScanSteps ==
  ASSUME hidden \subseteq Secret, NEW text \in Seq(Letter), NEW boundary \in 0..Len(text)
  PROVE  \E f : Scans(text, boundary, f)
<1> DEFINE N == Len(text)
           X == [out : Seq(Shown), next : Nat \ {0}]
           b == [out |-> <<>>, next |-> 1]
           h == [n \in 1..N |-> [x \in X |-> Round(text, boundary, x)]]
           Eqn(f) == f = [n \in 0..N |-> IF n = 0 THEN [out |-> <<>>, next |-> 1]
                                         ELSE Round(text, boundary, f[n - 1])]
<1>1. N \in Nat
  OBVIOUS
<1>2. ASSUME NEW x \in X PROVE Round(text, boundary, x) \in X
  <2>1. CASE x.next > boundary
    BY <2>1 DEF Round
  <2>2. CASE ~(x.next > boundary)
    <3>1. x.next \in 1..N /\ x.out \in Seq(Shown)
      BY <1>1, <2>2
    <3>2. /\ Stride(text, x.next) \in Nat \ {0}
          /\ Sign(text, x.next) \in Shown
      BY <3>1, StrideFacts
    <3>3. Append(x.out, Sign(text, x.next)) \in Seq(Shown)
      BY <3>1, <3>2, AppendProperties
    <3>4. x.next + Stride(text, x.next) \in Nat \ {0}
      BY <3>1, <3>2
    <3>5. Round(text, boundary, x) = [out |-> Append(x.out, Sign(text, x.next)),
                                      next |-> x.next + Stride(text, x.next)]
      BY <2>2 DEF Round, Sign, Stride
    <3>6. QED
      BY <3>3, <3>4, <3>5
  <2>3. QED
    BY <2>1, <2>2
<1>3. b \in X
  BY EmptySeq
<1>4. h \in [1..N -> [X -> X]]
  <2> HIDE DEF X
  <2>1. QED
    BY <1>2
<1>5a. PICK g : Follows(X, b, N, h, g)
  <2>1. b \in X /\ N \in Nat /\ Steps(X, N, h)
    BY <1>1, <1>3, <1>4 DEF Steps
  <2> HIDE DEF X, b, h, N
  <2>2. QED
    BY <2>1, Recursion
<1>5. g \in [0..N -> X] /\ g[0] = b /\ \A n \in 1..N : g[n] = h[n][g[n - 1]]
  BY <1>5a DEF Follows
<1>6. g[0] = b /\ \A n \in 1..N : g[n] = Round(text, boundary, g[n - 1])
  <2> HIDE DEF X, b
  <2>1. \A n \in 1..N : g[n - 1] \in X
    BY <1>1, <1>5
  <2>2. QED
    BY <1>5, <2>1
<1>7. Eqn(g)
  <2>1. \A n \in 0..N : g[n] = IF n = 0 THEN [out |-> <<>>, next |-> 1]
                               ELSE Round(text, boundary, g[n - 1])
    <3> TAKE n \in 0..N
    <3>1. n = 0 \/ n \in 1..N
      BY <1>1
    <3>2. QED
      BY <3>1, <1>6
  <2>2. g = [n \in 0..N |-> g[n]]
    BY <1>5
  <2>3. QED
    BY <2>1, <2>2
<1> DEFINE after == CHOOSE f : Eqn(f)
<1>8. Eqn(after)
  <2> HIDE DEF Eqn
  <2>1. QED
    BY <1>7
<1>9. Scan(text, boundary) = after[N]
  BY DEF Scan
<1> HIDE DEF after
<1>10. \A n \in 0..N : after[n] = IF n = 0 THEN [out |-> <<>>, next |-> 1]
                                  ELSE Round(text, boundary, after[n - 1])
  BY <1>8
<1>11. after[0] = [out |-> <<>>, next |-> 1]
  BY <1>1, <1>10
<1>12. \A n \in 1..N : after[n] = Round(text, boundary, after[n - 1])
  BY <1>1, <1>10
<1>13. QED
  BY <1>9, <1>11, <1>12 DEF Scans

\* Scan reads the text up to the boundary, and stands behind it.
LEMMA ScanReads ==
  ASSUME hidden \subseteq Secret, NEW text \in Seq(Letter), NEW boundary \in 0..Len(text)
  PROVE  LET scan == Scan(text, boundary)
         IN  \E at : /\ Reads(text, boundary, scan.out, at)
                     /\ at[Len(scan.out) + 1] = scan.next
                     /\ scan.next > boundary
<1> DEFINE N == Len(text)
<1>1. PICK f : Scans(text, boundary, f)
  BY ScanSteps
<1>2. /\ f[0] = [out |-> <<>>, next |-> 1]
      /\ \A n \in 1..N : f[n] = Round(text, boundary, f[n - 1])
      /\ Scan(text, boundary) = f[N]
  BY <1>1 DEF Scans
<1> DEFINE Stands(n) == \E at : /\ Reads(text, boundary, f[n].out, at)
                                /\ at[Len(f[n].out) + 1] = f[n].next
                                /\ f[n].next > boundary \/ f[n].next >= n + 1
           I == {n \in Nat : n <= N => Stands(n)}
<1>3. N \in Nat /\ boundary \in Nat /\ boundary <= N
  OBVIOUS
<1>4. Stands(0)
  <2> DEFINE at == [n \in 1..1 |-> 1]
  <2>1. f[0].out = <<>> /\ f[0].next = 1 /\ Len(<<>>) = 0 /\ <<>> \in Seq(Shown)
    BY <1>2, EmptySeq
  <2>2. at \in [1..0 + 1 -> 1..N + 1] /\ at[1] = 1 /\ 1..0 = {}
    BY <1>3
  <2> HIDE DEF at
  <2>3. Reads(text, boundary, <<>>, at)
    BY <2>1, <2>2 DEF Reads
  <2>4. QED
    BY <2>1, <2>2, <2>3
<1>5. ASSUME NEW n \in Nat, n + 1 <= N, Stands(n) PROVE Stands(n + 1)
  <2>1. PICK at : /\ Reads(text, boundary, f[n].out, at)
                  /\ at[Len(f[n].out) + 1] = f[n].next
                  /\ f[n].next > boundary \/ f[n].next >= n + 1
    BY <1>5
  <2>2. f[n + 1] = Round(text, boundary, f[n])
    <3>1. n + 1 \in 1..N /\ (n + 1) - 1 = n
      BY <1>3, <1>5
    <3>2. QED
      BY <1>2, <3>1
  <2>3. CASE f[n].next > boundary
    <3>1. f[n + 1] = f[n]
      BY <2>2, <2>3 DEF Round
    <3>2. QED
      BY <2>1, <2>3, <3>1
  <2>4. CASE ~(f[n].next > boundary)
    <3> DEFINE out == f[n].out
               i == f[n].next
               longer == Append(out, Sign(text, i))
               more == [m \in 1..Len(out) + 2 |->
                          IF m <= Len(out) + 1 THEN at[m] ELSE i + Stride(text, i)]
    <3>1. Len(out) \in Nat /\ i \in 1..N + 1
      BY <2>1 DEF Reads
    <3>2. at[Len(out) + 1] <= boundary /\ at[Len(out) + 1] = i /\ Reads(text, boundary, out, at)
      BY <1>3, <2>1, <2>4, <3>1
    <3>3. /\ Reads(text, boundary, longer, more)
          /\ Len(longer) = Len(out) + 1
          /\ more[Len(out) + 2] = i + Stride(text, i)
          /\ i \in 1..N
      <4> HIDE DEF out, i
      <4>1. QED
        BY <3>2, ReadOn
    <3>4. f[n + 1] = [out |-> longer, next |-> i + Stride(text, i)]
      BY <2>2, <2>4 DEF Round, Sign, Stride
    <3>5. Stride(text, i) \in Nat \ {0}
      BY <3>3, StrideFacts
    <3> HIDE DEF longer, more
    <3>6. f[n + 1].out = longer /\ f[n + 1].next = i + Stride(text, i)
      BY <3>4
    <3>7. more[Len(longer) + 1] = i + Stride(text, i)
      BY <3>1, <3>3
    <3>8. i + Stride(text, i) >= (n + 1) + 1
      BY <2>1, <2>4, <3>1, <3>5
    <3>9. QED
      BY <3>3, <3>6, <3>7, <3>8
  <2>5. QED
    BY <2>3, <2>4
<1>6. Stands(N)
  <2>1. \A n \in Nat : n \in I => n + 1 \in I
    <3> HIDE DEF Stands
    <3>1. QED
      BY <1>3, <1>5
  <2>2. 0 \in I
    BY <1>4
  <2> HIDE DEF I
  <2>3. N \in I
    BY <1>3, <2>1, <2>2, SetInduction
  <2> HIDE DEF Stands
  <2>4. QED
    BY <1>3, <2>3 DEF I
<1>7. PICK at : /\ Reads(text, boundary, f[N].out, at)
                /\ at[Len(f[N].out) + 1] = f[N].next
                /\ f[N].next > boundary \/ f[N].next >= N + 1
  BY <1>6
<1>8. f[N].next \in Nat
  BY <1>3, <1>7 DEF Reads
<1>9. f[N].next > boundary
  BY <1>3, <1>7, <1>8
<1>10. QED
  BY <1>2, <1>7, <1>9

LEMMA ReadsFacts ==
  ASSUME NEW text \in Seq(Letter), NEW boundary, NEW out, NEW at, Reads(text, boundary, out, at)
  PROVE  /\ out \in Seq(Shown) /\ Len(out) \in Nat /\ at[1] = 1
         /\ \A n \in 1..Len(out) + 1 : at[n] \in 1..Len(text) + 1
         /\ \A n \in 1..Len(out) :
              /\ at[n] \in 1..Len(text) /\ at[n] <= boundary
              /\ at[n + 1] = at[n] + Stride(text, at[n])
              /\ out[n] = Sign(text, at[n])
<1>1. Len(text) \in Nat /\ out \in Seq(Shown) /\ Len(out) \in Nat
  BY DEF Reads
<1>2. \A n \in 1..Len(out) + 1 : at[n] \in 1..Len(text) + 1
  BY DEF Reads
<1>3. \A n \in 1..Len(out) : n \in 1..Len(out) + 1 /\ at[n] <= Len(text)
  BY <1>1 DEF Reads
<1>4. \A n \in 1..Len(out) : at[n] \in 1..Len(text)
  BY <1>1, <1>2, <1>3
<1>5. QED
  BY <1>1, <1>2, <1>4 DEF Reads

\* Two ways to read a text go through the same places.
LEMMA ReadsAgree ==
  ASSUME NEW text \in Seq(Letter), NEW b, NEW o, NEW at, Reads(text, b, o, at),
         NEW c, NEW p, NEW au, Reads(text, c, p, au)
  PROVE  /\ \A n \in 1..Len(o) + 1 : n <= Len(p) + 1 => at[n] = au[n]
         /\ \A n \in 1..Len(o) : n <= Len(p) => o[n] = p[n]
<1> DEFINE I == {m \in Nat : m <= Len(o) /\ m <= Len(p) => at[m + 1] = au[m + 1]}
<1>1. /\ Len(o) \in Nat /\ at[1] = 1
      /\ \A n \in 1..Len(o) : at[n + 1] = at[n] + Stride(text, at[n]) /\ o[n] = Sign(text, at[n])
  BY ReadsFacts
<1>2. /\ Len(p) \in Nat /\ au[1] = 1
      /\ \A n \in 1..Len(p) : au[n + 1] = au[n] + Stride(text, au[n]) /\ p[n] = Sign(text, au[n])
  BY ReadsFacts
<1>3. 0 \in I
  BY <1>1, <1>2
<1>4. ASSUME NEW m \in Nat, m \in I PROVE m + 1 \in I
  <2> SUFFICES ASSUME m + 1 <= Len(o), m + 1 <= Len(p) PROVE at[(m + 1) + 1] = au[(m + 1) + 1]
    OBVIOUS
  <2>1. m + 1 \in 1..Len(o) /\ m + 1 \in 1..Len(p) /\ at[m + 1] = au[m + 1]
    BY <1>1, <1>2, <1>4
  <2>2. QED
    BY <1>1, <1>2, <2>1
<1>5. \A m \in Nat : m <= Len(o) /\ m <= Len(p) => at[m + 1] = au[m + 1]
  <2>1. 0 \in I /\ \A m \in Nat : m \in I => m + 1 \in I
    BY <1>3, <1>4
  <2> HIDE DEF I
  <2>2. \A m \in Nat : m \in I
    BY <2>1, SetInduction
  <2>3. QED
    BY <2>2 DEF I
<1>6. ASSUME NEW n \in 1..Len(o) + 1, n <= Len(p) + 1 PROVE at[n] = au[n]
  <2>1. n - 1 \in Nat /\ n - 1 <= Len(o) /\ n - 1 <= Len(p) /\ (n - 1) + 1 = n
    BY <1>1, <1>2, <1>6
  <2>2. QED
    BY <1>5, <2>1
<1>7. ASSUME NEW n \in 1..Len(o), n <= Len(p) PROVE o[n] = p[n]
  <2>1. n \in 1..Len(o) + 1 /\ n <= Len(p) + 1 /\ n \in 1..Len(p)
    BY <1>1, <1>2, <1>7
  <2>2. at[n] = au[n]
    BY <1>6, <2>1
  <2>3. QED
    BY <1>1, <1>2, <2>1, <2>2
<1>8. QED
  BY <1>6, <1>7

\* What has been read so far begins what is read of the whole.
LEMMA ReadsPrefix ==
  ASSUME NEW text \in Seq(Letter), NEW b, NEW o, NEW at, Reads(text, b, o, at),
         NEW c, NEW p, NEW au, Reads(text, c, p, au), au[Len(p) + 1] > Len(text)
  PROVE  IsPrefix(o, p) /\ (at[Len(o) + 1] > Len(text) => o = p)
<1>1. /\ Len(text) \in Nat /\ Len(o) \in Nat /\ Len(p) \in Nat
      /\ o \in Seq(Shown) /\ p \in Seq(Shown)
      /\ \A n \in 1..Len(o) : at[n] \in 1..Len(text)
      /\ \A n \in 1..Len(p) : au[n] \in 1..Len(text)
  BY ReadsFacts
<1>2. /\ \A n \in 1..Len(o) + 1 : n <= Len(p) + 1 => at[n] = au[n]
      /\ \A n \in 1..Len(o) : n <= Len(p) => o[n] = p[n]
  BY ReadsAgree
<1>3. Len(o) <= Len(p)
  <2> SUFFICES ASSUME Len(p) + 1 <= Len(o) PROVE FALSE
    BY <1>1
  <2>1. /\ Len(p) + 1 \in 1..Len(o) /\ Len(p) + 1 \in 1..Len(o) + 1
        /\ Len(p) + 1 <= Len(p) + 1
    BY <1>1
  <2>2. at[Len(p) + 1] = au[Len(p) + 1] /\ at[Len(p) + 1] \in 1..Len(text)
    BY <1>1, <1>2, <2>1
  <2>3. QED
    BY <1>1, <2>2
<1>4. \A n \in 1..Len(o) : o[n] = p[n]
  BY <1>1, <1>2, <1>3
<1>5. SubSeq(o, 1, Len(o)) = SubSeq(p, 1, Len(o))
  <2> DEFINE K == Len(o)
             front == SubSeq(p, 1, K)
  <2>1. \A n \in 1..K : p[n] \in Shown
    BY <1>1, <1>3
  <2>2. /\ front \in Seq(Shown)
        /\ Len(front) = (IF 1 <= K THEN K - 1 + 1 ELSE 0)
        /\ \A n \in 1..(K - 1 + 1) : front[n] = p[1 + n - 1]
    BY <1>1, <2>1, SubSeqProperties
  <2> HIDE DEF front
  <2>3. Len(front) = K /\ \A n \in 1..K : front[n] = o[n]
    BY <1>1, <1>4, <2>2
  <2>4. o = front
    BY <1>1, <2>2, <2>3, SeqEqual
  <2>5. SubSeq(o, 1, K) = o
    BY <1>1, SubSeqFull
  <2>6. QED
    BY <2>4, <2>5 DEF front
<1>6. ASSUME at[Len(o) + 1] > Len(text) PROVE o = p
  <2>1. Len(p) <= Len(o)
    <3> SUFFICES ASSUME Len(o) + 1 <= Len(p) PROVE FALSE
      BY <1>1
    <3>1. Len(o) + 1 \in 1..Len(p) /\ Len(o) + 1 \in 1..Len(o) + 1 /\ Len(o) + 1 <= Len(p) + 1
      BY <1>1
    <3>2. at[Len(o) + 1] = au[Len(o) + 1] /\ au[Len(o) + 1] \in 1..Len(text)
      BY <1>1, <1>2, <3>1
    <3>3. QED
      BY <1>1, <1>6, <3>2
  <2>2. QED
    BY <1>1, <1>3, <1>4, <2>1, SeqEqual
<1>7. QED
  BY <1>3, <1>5, <1>6 DEF IsPrefix

\* No secret can be read in what is left of a text that was read.
LEMMA ReadsSilent ==
  ASSUME hidden \subseteq Secret, NEW text \in Seq(Letter), NEW b, NEW o, NEW at,
         Reads(text, b, o, at)
  PROVE  Silent(o)
<1> SUFFICES ASSUME NEW t \in hidden, NEW i \in 1..(Len(o) - Len(t) + 1),
                    SubSeq(o, i, i + Len(t) - 1) = t
             PROVE  FALSE
  BY DEF Silent
<1> DEFINE L == Len(t)
<1>1. t \in Seq(Letter) /\ L \in Nat /\ L > 0
  BY OutputAssumption, EmptySeq DEF OutputAssumption
<1>2. /\ Len(text) \in Nat /\ Len(o) \in Nat /\ o \in Seq(Shown)
      /\ \A n \in 1..Len(o) : /\ at[n] \in 1..Len(text)
                              /\ at[n + 1] = at[n] + Stride(text, at[n])
                              /\ o[n] = Sign(text, at[n])
  BY ReadsFacts
<1>3. \A j \in 1..L : i + j - 1 \in 1..Len(o)
  BY <1>1, <1>2
<1>4. \A j \in 1..L : o[i + j - 1] = t[j]
  <2> DEFINE e == i + L - 1
             part == SubSeq(o, i, e)
  <2>1. i \in Int /\ e \in Int /\ i <= e /\ e - i + 1 = L
    BY <1>1
  <2>2. \A n \in i..e : o[n] \in Shown
    BY <1>1, <1>2
  <2>3. \A j \in 1..(e - i + 1) : part[j] = o[i + j - 1]
    <3> HIDE DEF e
    <3>1. QED
      BY <2>1, <2>2, SubSeqProperties
  <2> HIDE DEF e
  <2>4. part = t
    BY DEF e
  <2> HIDE DEF part
  <2>5. QED
    BY <2>1, <2>3, <2>4
<1>5. ASSUME NEW j \in 1..L
      PROVE  Match(text, at[i + j - 1]) = 0 /\ t[j] = text[at[i + j - 1]]
  <2>1. t[j] \in Letter /\ Redacted \notin Letter
    BY <1>1, OutputAssumption DEF OutputAssumption
  <2>2. o[i + j - 1] = t[j] /\ o[i + j - 1] = Sign(text, at[i + j - 1])
    BY <1>2, <1>3, <1>4
  <2>3. QED
    BY <2>1, <2>2 DEF Sign
<1> HIDE DEF L
<1> DEFINE I == {m \in Nat : m + 1 <= L => at[i + m] = at[i] + m}
<1>6. at[i] \in 1..Len(text) /\ i \in Nat /\ i + 0 = i
  <2>1. 1 \in 1..L /\ i + 1 - 1 = i
    BY <1>1
  <2>2. QED
    BY <1>2, <1>3, <2>1
<1>7. 0 \in I
  BY <1>6
<1>8. ASSUME NEW m \in Nat, m \in I PROVE m + 1 \in I
  <2> SUFFICES ASSUME (m + 1) + 1 <= L PROVE at[i + (m + 1)] = at[i] + (m + 1)
    OBVIOUS
  <2>1. m + 1 \in 1..L /\ i + (m + 1) - 1 = i + m /\ (i + m) + 1 = i + (m + 1)
    BY <1>1, <1>6
  <2>2. at[i + m] = at[i] + m
    BY <1>1, <1>8
  <2>3. i + m \in 1..Len(o)
    BY <1>3, <2>1
  <2>4. Match(text, at[i + m]) = 0
    BY <1>5, <2>1
  <2>5. at[(i + m) + 1] = at[i + m] + 1
    BY <1>2, <2>3, <2>4 DEF Stride
  <2>6. at[i + (m + 1)] = (at[i] + m) + 1
    BY <2>1, <2>2, <2>5
  <2>7. at[i] \in Nat
    BY <1>2, <1>6
  <2> HIDE DEF I
  <2>8. QED
    BY <2>6, <2>7
<1>9. ASSUME NEW j \in 1..L PROVE at[i + j - 1] = at[i] + j - 1
  <2>1. 0 \in I /\ \A m \in Nat : m \in I => m + 1 \in I
    BY <1>7, <1>8
  <2>2. j - 1 \in Nat /\ (j - 1) + 1 <= L /\ i + (j - 1) = i + j - 1
    BY <1>1, <1>6
  <2>3. \A m \in Nat : m \in I
    <3> HIDE DEF I
    <3>1. QED
      BY <2>1, SetInduction
  <2>4. at[i + (j - 1)] = at[i] + (j - 1)
    BY <2>2, <2>3
  <2>5. QED
    BY <1>6, <2>2, <2>4
<1>10. Occurs(t, text, at[i])
  <2>1. \A j \in 1..L : text[at[i] + j - 1] = t[j]
    BY <1>5, <1>9
  <2>2. L \in 1..L
    BY <1>1
  <2>3. at[i] + L - 1 \in 1..Len(text)
    BY <1>2, <1>3, <1>9, <2>2
  <2>4. at[i] + L - 1 <= Len(text)
    BY <1>1, <1>2, <1>6, <2>3
  <2>5. QED
    BY <2>1, <2>4 DEF Occurs, L
<1>11. L <= Match(text, at[i])
  BY <1>6, <1>10, MatchFacts DEF L
<1>12. Match(text, at[i]) = 0
  <2>1. 1 \in 1..L /\ i + 1 - 1 = i
    BY <1>1, <1>6
  <2>2. QED
    BY <1>5, <2>1
<1>13. QED
  BY <1>1, <1>11, <1>12

\* Letters that come later do not change what was read with Keep letters left.
LEMMA ReadsLonger ==
  ASSUME hidden \subseteq Secret, NEW text \in Seq(Letter), NEW more \in Seq(Letter),
         NEW b \in Nat, b = 0 \/ b + Keep <= Len(text),
         NEW o, NEW at, Reads(text, b, o, at)
  PROVE  Reads(text \o more, b, o, at)
<1> DEFINE both == text \o more
           N == Len(text)
           M == Len(more)
<1>1. N \in Nat /\ M \in Nat
  OBVIOUS
<1>2. /\ both \in Seq(Letter) /\ Len(both) = N + M
      /\ \A i \in 1..N + M : both[i] = IF i <= N THEN text[i] ELSE more[i - N]
  BY ConcatProperties
<1> HIDE DEF both
<1>3. \A i \in 1..N : i \in 1..N + M /\ both[i] = text[i]
  BY <1>1, <1>2
<1>4. /\ Len(o) \in Nat /\ o \in Seq(Shown) /\ at[1] = 1
      /\ \A n \in 1..Len(o) + 1 : at[n] \in 1..N + 1
      /\ \A n \in 1..Len(o) :
           /\ at[n] \in 1..N /\ at[n] <= b
           /\ at[n + 1] = at[n] + Stride(text, at[n])
           /\ o[n] = Sign(text, at[n])
  BY ReadsFacts
<1>5. Keep \in Nat /\ \A t \in hidden : Len(t) \in Nat /\ Len(t) > 0 /\ Len(t) - 1 <= Keep
  BY KeepFacts
<1>6. ASSUME NEW n \in 1..Len(o)
      PROVE  Stride(both, at[n]) = Stride(text, at[n]) /\ Sign(both, at[n]) = Sign(text, at[n])
  <2> DEFINE i == at[n]
  <2>1. i \in 1..N /\ i <= b /\ i + Keep <= N
    BY <1>1, <1>4, <1>5
  <2> HIDE DEF i
  <2>2. i \in 1..Len(both) /\ both[i] = text[i]
    BY <1>2, <1>3, <2>1
  <2>3. ASSUME NEW t \in hidden PROVE Occurs(t, text, i) <=> Occurs(t, both, i)
    <3>1. Len(t) \in Nat /\ i + Len(t) - 1 <= N /\ i + Len(t) - 1 <= Len(both)
      BY <1>1, <1>2, <1>5, <2>1
    <3>2. \A j \in 1..Len(t) : i + j - 1 \in 1..N
      BY <1>1, <2>1, <3>1
    <3>3. QED
      BY <1>3, <3>1, <3>2 DEF Occurs
  <2>4. Match(text, i) = Match(both, i)
    BY <1>2, <2>1, <2>2, <2>3, SameMatch
  <2>5. QED
    BY <2>2, <2>4 DEF Stride, Sign, i
<1>7. at \in [1..Len(o) + 1 -> 1..Len(both) + 1]
  <2>1. at \in [1..Len(o) + 1 -> 1..N + 1]
    BY DEF Reads
  <2>2. 1..N + 1 \subseteq 1..Len(both) + 1
    BY <1>1, <1>2
  <2>3. QED
    BY <2>1, <2>2
<1>8. \A n \in 1..Len(o) : at[n] <= Len(both)
  BY <1>1, <1>2, <1>4
<1>9. QED
  BY <1>4, <1>6, <1>7, <1>8 DEF Reads, both

\* What comes at a place of the rest of a text comes at a place of the text.
LEMMA Further ==
  ASSUME hidden \subseteq Secret, NEW text \in Seq(Letter), NEW s \in 1..Len(text) + 1,
         NEW i \in 1..Len(text) - s + 1
  PROVE  LET rest == SubSeq(text, s, Len(text))
         IN  /\ rest \in Seq(Letter) /\ Len(rest) = Len(text) - s + 1
             /\ Stride(rest, i) = Stride(text, s + i - 1)
             /\ Sign(rest, i) = Sign(text, s + i - 1)
<1> DEFINE N == Len(text)
           rest == SubSeq(text, s, N)
           k == s + i - 1
<1>1. N \in Nat /\ s \in Nat /\ i \in Nat /\ i > 0 /\ k \in 1..N
  OBVIOUS
<1>2. /\ rest \in Seq(Letter) /\ Len(rest) = N - s + 1
      /\ \A j \in 1..N - s + 1 : rest[j] = text[s + j - 1]
  <2>1. \A j \in s..N : text[j] \in Letter
    BY <1>1
  <2>2. s \in Int /\ N \in Int /\ s <= N
    BY <1>1
  <2>3. QED
    BY <2>1, <2>2, SubSeqProperties
<1> HIDE DEF rest
<1>3. i \in 1..Len(rest) /\ rest[i] = text[k]
  BY <1>2
<1>4. ASSUME NEW t \in hidden PROVE Occurs(t, rest, i) <=> Occurs(t, text, k)
  <2>1. Len(t) \in Nat
    BY OutputAssumption DEF OutputAssumption
  <2>2. i + Len(t) - 1 <= Len(rest) <=> k + Len(t) - 1 <= N
    BY <1>1, <1>2, <2>1
  <2>3. ASSUME i + Len(t) - 1 <= Len(rest), NEW j \in 1..Len(t)
        PROVE  rest[i + j - 1] = text[k + j - 1]
    <3>1. i + j - 1 \in 1..N - s + 1 /\ s + (i + j - 1) - 1 = k + j - 1
      BY <1>1, <1>2, <2>1, <2>3
    <3>2. QED
      BY <1>2, <3>1
  <2> HIDE DEF k
  <2>4. QED
    BY <2>2, <2>3 DEF Occurs
<1>5. Match(rest, i) = Match(text, k)
  BY <1>1, <1>2, <1>3, <1>4, SameMatch
<1>6. QED
  BY <1>2, <1>3, <1>5 DEF Stride, Sign, rest

\* To read the rest of a text after its beginning is to read the text.
LEMMA ReadsJoin ==
  ASSUME hidden \subseteq Secret, NEW text \in Seq(Letter),
         NEW b \in Nat, NEW o, NEW at, Reads(text, b, o, at),
         NEW c \in Nat, NEW p, NEW au,
         Reads(SubSeq(text, at[Len(o) + 1], Len(text)), c, p, au),
         NEW d \in Nat, b <= d, c = 0 \/ at[Len(o) + 1] - 1 + c <= d
  PROVE  \E aw : /\ Reads(text, d, o \o p, aw)
                 /\ aw[Len(o \o p) + 1] = at[Len(o) + 1] + au[Len(p) + 1] - 1
<1> DEFINE N == Len(text)
           K == Len(o)
           L == Len(p)
           s == at[K + 1]
           rest == SubSeq(text, s, N)
           both == o \o p
           aw == [n \in 1..K + L + 1 |-> IF n <= K + 1 THEN at[n] ELSE s + au[n - K] - 1]
<1>1. /\ N \in Nat /\ K \in Nat /\ o \in Seq(Shown) /\ at[1] = 1
      /\ \A n \in 1..K + 1 : at[n] \in 1..N + 1
      /\ \A n \in 1..K :
           /\ at[n] \in 1..N /\ at[n] <= b
           /\ at[n + 1] = at[n] + Stride(text, at[n])
           /\ o[n] = Sign(text, at[n])
  BY ReadsFacts
<1>2. s \in 1..N + 1
  BY <1>1
<1>3. rest \in Seq(Letter) /\ Len(rest) = N - s + 1
  <2>1. \A j \in s..N : text[j] \in Letter
    BY <1>1, <1>2
  <2>2. s \in Int /\ N \in Int
    BY <1>1, <1>2
  <2>3. rest \in Seq(Letter) /\ Len(rest) = IF s <= N THEN N - s + 1 ELSE 0
    BY <2>1, <2>2, SubSeqProperties
  <2>4. QED
    BY <1>1, <1>2, <2>3
<1>4. Reads(rest, c, p, au)
  OBVIOUS
<1> HIDE DEF s, rest
<1>5. /\ L \in Nat /\ p \in Seq(Shown) /\ au[1] = 1
      /\ \A n \in 1..L + 1 : au[n] \in 1..(N - s + 1) + 1
      /\ \A n \in 1..L :
           /\ au[n] \in 1..(N - s + 1) /\ au[n] <= c
           /\ au[n + 1] = au[n] + Stride(rest, au[n])
           /\ p[n] = Sign(rest, au[n])
  BY <1>3, <1>4, ReadsFacts
<1>6. /\ both \in Seq(Shown) /\ Len(both) = K + L
      /\ \A n \in 1..K + L : both[n] = IF n <= K THEN o[n] ELSE p[n - K]
  BY <1>1, <1>5, ConcatProperties
<1> HIDE DEF both, K, L
<1>7. /\ \A n \in 1..K + 1 : aw[n] = at[n]
      /\ \A m \in 1..L + 1 : aw[K + m] = s + au[m] - 1
  <2>1. \A n \in 1..K + 1 : n \in 1..K + L + 1 /\ n <= K + 1
    BY <1>1, <1>5
  <2>2. ASSUME NEW m \in 1..L + 1 PROVE aw[K + m] = s + au[m] - 1
    <3>1. K + m \in 1..K + L + 1 /\ (K + m) - K = m
      BY <1>1, <1>5
    <3>2. CASE m = 1
      <4>1. K + m <= K + 1 /\ aw[K + m] = at[K + 1]
        BY <1>1, <3>1, <3>2
      <4>2. QED
        BY <1>2, <1>5, <3>2, <4>1 DEF s
    <3>3. CASE m # 1
      <4>1. ~(K + m <= K + 1)
        BY <1>1, <3>3
      <4>2. QED
        BY <3>1, <4>1
    <3>4. QED
      BY <3>2, <3>3
  <2>3. QED
    BY <2>1, <2>2
<1>8. ASSUME NEW n \in 1..K + L + 1 PROVE aw[n] \in 1..N + 1
  <2>1. CASE n <= K + 1
    <3>1. n \in 1..K + 1
      BY <1>1, <2>1
    <3>2. QED
      BY <1>1, <1>7, <3>1
  <2>2. CASE ~(n <= K + 1)
    <3>1. n - K \in 1..L + 1 /\ K + (n - K) = n
      BY <1>1, <1>5, <2>2
    <3>2. aw[n] = s + au[n - K] - 1 /\ au[n - K] \in 1..(N - s + 1) + 1
      BY <1>5, <1>7, <3>1
    <3>3. s + au[n - K] - 1 \in 1..N + 1
      <4> DEFINE i == au[n - K]
      <4>1. i \in 1..(N - s + 1) + 1
        BY <3>2
      <4> HIDE DEF i
      <4>2. s + i - 1 \in 1..N + 1
        BY <1>1, <1>2, <4>1
      <4>3. QED
        BY <4>2 DEF i
    <3> HIDE DEF aw
    <3>4. QED
      BY <3>2, <3>3
  <2>3. QED
    BY <2>1, <2>2
<1>9. ASSUME NEW n \in 1..K + L
      PROVE  /\ aw[n] <= d /\ aw[n] <= N
             /\ aw[n + 1] = aw[n] + Stride(text, aw[n])
             /\ both[n] = Sign(text, aw[n])
  <2>1. CASE n <= K
    <3>1. n \in 1..K /\ n \in 1..K + 1 /\ n + 1 \in 1..K + 1
      BY <1>1, <2>1
    <3>2. aw[n] = at[n] /\ aw[n + 1] = at[n + 1] /\ both[n] = o[n]
      BY <1>6, <1>7, <2>1, <3>1
    <3>3. at[n] \in 1..N /\ at[n] <= b
      BY <1>1, <3>1
    <3>4. at[n] <= d /\ at[n] <= N
      BY <1>1, <3>3
    <3>5. QED
      BY <1>1, <3>1, <3>2, <3>4
  <2>2. CASE ~(n <= K)
    <3> DEFINE m == n - K
               i == au[m]
    <3>1. m \in 1..L /\ m \in 1..L + 1 /\ m + 1 \in 1..L + 1 /\ K + m = n /\ K + (m + 1) = n + 1
      BY <1>1, <1>5, <2>2
    <3>2. aw[n] = s + i - 1 /\ aw[n + 1] = s + au[m + 1] - 1 /\ both[n] = p[m]
      BY <1>6, <1>7, <2>2, <3>1
    <3>3. i \in 1..(N - s + 1) /\ i <= c /\ au[m + 1] = i + Stride(rest, i) /\ p[m] = Sign(rest, i)
      BY <1>5, <3>1
    <3> HIDE DEF m, i
    <3>4. Stride(rest, i) = Stride(text, s + i - 1) /\ Sign(rest, i) = Sign(text, s + i - 1)
      BY <1>2, <3>3, Further DEF rest
    <3>5. s + i - 1 <= d /\ s + i - 1 <= N /\ s + i - 1 \in 1..N
      <4>1. c # 0
        BY <3>3
      <4>2. s - 1 + c <= d
        BY <4>1 DEF s, K
      <4>3. QED
        BY <1>1, <1>2, <3>3, <4>2
    <3>6. Stride(text, s + i - 1) \in Nat
      BY <3>5, StrideFacts
    <3>7. s + au[m + 1] - 1 = (s + i - 1) + Stride(text, s + i - 1)
      BY <1>2, <3>3, <3>4, <3>6
    <3>8. QED
      BY <3>2, <3>3, <3>4, <3>5, <3>7
  <2>3. QED
    BY <2>1, <2>2
<1>10. aw[1] = 1 /\ aw[K + L + 1] = s + au[L + 1] - 1
  <2>1. 1 \in 1..K + 1 /\ L + 1 \in 1..L + 1 /\ K + (L + 1) = K + L + 1
    BY <1>1, <1>5
  <2>2. QED
    BY <1>1, <1>7, <2>1
<1>11. aw \in [1..Len(both) + 1 -> 1..N + 1]
  <2>1. \A n \in 1..K + L + 1 : aw[n] \in 1..N + 1
    BY <1>8
  <2>2. aw = [n \in 1..Len(both) + 1 |-> aw[n]]
    BY <1>6
  <2> HIDE DEF aw
  <2>3. QED
    BY <1>6, <2>1, <2>2
<1> HIDE DEF aw
<1>12. Reads(text, d, both, aw)
  BY <1>6, <1>9, <1>10, <1>11 DEF Reads
<1>13. QED
  BY <1>6, <1>10, <1>12 DEF both, s, K, L

-------------------------------------------------------------------------------
(* What a filter lets through.                                              *)

\* How far a filter reads a text that may go on.
Short(text) == Max({0, Len(text) - Keep})

LEMMA ShortFacts ==
  ASSUME hidden \subseteq Secret, NEW text, Len(text) \in Nat
  PROVE  /\ Short(text) \in Nat /\ Short(text) <= Len(text)
         /\ Short(text) = 0 \/ Short(text) + Keep <= Len(text)
         /\ Len(text) - Keep <= Short(text)
<1> DEFINE n == Len(text) - Keep
<1>1. Keep \in Nat /\ n \in Int
  BY KeepFacts
<1>2. \E x \in {0, n} : \A y \in {0, n} : x >= y
  <2> HIDE DEF n
  <2>1. CASE n >= 0
    BY <1>1, <2>1
  <2>2. CASE ~(n >= 0)
    BY <1>1, <2>2
  <2>3. QED
    BY <2>1, <2>2
<1>3. Max({0, n}) \in {0, n} /\ \A y \in {0, n} : Max({0, n}) >= y
  <2> DEFINE S == {0, n}
  <2>1. \E x \in S : \A y \in S : x >= y
    BY <1>2
  <2> HIDE DEF S
  <2>2. Max(S) \in S /\ \A y \in S : Max(S) >= y
    BY <2>1 DEF Max
  <2>3. QED
    BY <2>2 DEF S
<1>4. Short(text) \in {0, n} /\ Short(text) >= 0 /\ Short(text) >= n
  BY <1>3 DEF Short
<1>5. QED
  BY <1>1, <1>4

\* The rest of the rest of a text is a rest of it.
LEMMA RestOfRest ==
  ASSUME NEW text \in Seq(Letter), NEW s \in 1..Len(text) + 1,
         NEW k \in 1..(Len(text) - s + 1) + 1
  PROVE  LET rest == SubSeq(text, s, Len(text))
         IN  /\ rest \in Seq(Letter) /\ Len(rest) = Len(text) - s + 1
             /\ SubSeq(rest, k, Len(rest)) = SubSeq(text, s + k - 1, Len(text))
<1> DEFINE N == Len(text)
           rest == SubSeq(text, s, N)
           one == SubSeq(rest, k, N - s + 1)
           two == SubSeq(text, s + k - 1, N)
<1>1. N \in Nat /\ s \in Nat /\ k \in Nat /\ k > 0
  OBVIOUS
<1>2. /\ rest \in Seq(Letter) /\ Len(rest) = N - s + 1
      /\ \A j \in 1..N - s + 1 : rest[j] = text[s + j - 1]
  <2>1. \A j \in s..N : text[j] \in Letter
    BY <1>1
  <2>2. s \in Int /\ N \in Int
    BY <1>1
  <2>3. /\ rest \in Seq(Letter) /\ Len(rest) = (IF s <= N THEN N - s + 1 ELSE 0)
        /\ \A j \in 1..N - s + 1 : rest[j] = text[s + j - 1]
    BY <2>1, <2>2, SubSeqProperties
  <2>4. QED
    BY <1>1, <2>3
<1> HIDE DEF rest
<1>3. /\ one \in Seq(Letter) /\ Len(one) = (IF k <= N - s + 1 THEN (N - s + 1) - k + 1 ELSE 0)
      /\ \A j \in 1..((N - s + 1) - k + 1) : one[j] = rest[k + j - 1]
  <2>1. \A j \in k..N - s + 1 : rest[j] \in Letter
    BY <1>1, <1>2
  <2>2. k \in Int /\ N - s + 1 \in Int
    BY <1>1
  <2>3. QED
    BY <2>1, <2>2, SubSeqProperties
<1>4. /\ two \in Seq(Letter) /\ Len(two) = (IF s + k - 1 <= N THEN N - (s + k - 1) + 1 ELSE 0)
      /\ \A j \in 1..(N - (s + k - 1) + 1) : two[j] = text[(s + k - 1) + j - 1]
  <2>1. \A j \in (s + k - 1)..N : text[j] \in Letter
    BY <1>1
  <2>2. s + k - 1 \in Int /\ N \in Int
    BY <1>1
  <2>3. QED
    BY <2>1, <2>2, SubSeqProperties
<1> HIDE DEF one, two
<1>5. Len(one) = Len(two)
  BY <1>1, <1>3, <1>4
<1>6. ASSUME NEW j \in 1..Len(one) PROVE one[j] = two[j]
  <2>1. /\ j \in 1..((N - s + 1) - k + 1) /\ j \in 1..(N - (s + k - 1) + 1)
        /\ k + j - 1 \in 1..N - s + 1 /\ s + (k + j - 1) - 1 = (s + k - 1) + j - 1
    BY <1>1, <1>3
  <2>2. one[j] = rest[k + j - 1] /\ rest[k + j - 1] = text[s + (k + j - 1) - 1]
    BY <1>2, <1>3, <2>1
  <2>3. two[j] = text[(s + k - 1) + j - 1]
    BY <1>4, <2>1
  <2>4. QED
    BY <2>1, <2>2, <2>3
<1>7. one = two
  BY <1>3, <1>4, <1>5, <1>6, SeqEqual
<1>8. QED
  BY <1>2, <1>7 DEF one, two, rest

\* A rest of a text grows with it.
LEMMA RestGrows ==
  ASSUME NEW text \in Seq(Letter), NEW more \in Seq(Letter), NEW s \in 1..Len(text) + 1
  PROVE  SubSeq(text, s, Len(text)) \o more = SubSeq(text \o more, s, Len(text \o more))
<1> DEFINE N == Len(text)
           M == Len(more)
           both == text \o more
           rest == SubSeq(text, s, N)
           one == rest \o more
           two == SubSeq(both, s, N + M)
<1>1. N \in Nat /\ M \in Nat /\ s \in Nat /\ s > 0
  OBVIOUS
<1>2. /\ rest \in Seq(Letter) /\ Len(rest) = N - s + 1
      /\ \A j \in 1..N - s + 1 : rest[j] = text[s + j - 1]
  <2>1. \A j \in s..N : text[j] \in Letter
    BY <1>1
  <2>2. s \in Int /\ N \in Int
    BY <1>1
  <2>3. /\ rest \in Seq(Letter) /\ Len(rest) = (IF s <= N THEN N - s + 1 ELSE 0)
        /\ \A j \in 1..N - s + 1 : rest[j] = text[s + j - 1]
    BY <2>1, <2>2, SubSeqProperties
  <2>4. QED
    BY <1>1, <2>3
<1>3. /\ both \in Seq(Letter) /\ Len(both) = N + M
      /\ \A j \in 1..N + M : both[j] = IF j <= N THEN text[j] ELSE more[j - N]
  BY ConcatProperties
<1> HIDE DEF rest, both
<1>4. /\ one \in Seq(Letter) /\ Len(one) = (N - s + 1) + M
      /\ \A j \in 1..(N - s + 1) + M :
           one[j] = IF j <= N - s + 1 THEN rest[j] ELSE more[j - (N - s + 1)]
  <2>1. /\ one \in Seq(Letter) /\ Len(one) = Len(rest) + M
        /\ \A j \in 1..Len(rest) + M :
             one[j] = IF j <= Len(rest) THEN rest[j] ELSE more[j - Len(rest)]
    BY <1>2, ConcatProperties
  <2> HIDE DEF one, M, N
  <2>2. QED
    BY <1>2, <2>1
<1>5. /\ two \in Seq(Letter) /\ Len(two) = (IF s <= N + M THEN (N + M) - s + 1 ELSE 0)
      /\ \A j \in 1..((N + M) - s + 1) : two[j] = both[s + j - 1]
  <2>1. \A j \in s..N + M : both[j] \in Letter
    BY <1>1, <1>3
  <2>2. s \in Int /\ N + M \in Int
    BY <1>1
  <2>3. QED
    BY <2>1, <2>2, SubSeqProperties
<1> HIDE DEF one, two, N, M
<1>6. s <= N + 1
  BY DEF N
<1>7. Len(one) = Len(two)
  BY <1>1, <1>4, <1>5, <1>6
<1>8. ASSUME NEW j \in 1..Len(one) PROVE one[j] = two[j]
  <2>1. j \in 1..(N - s + 1) + M /\ j \in 1..((N + M) - s + 1) /\ s + j - 1 \in 1..N + M
    BY <1>1, <1>4, <1>6
  <2>2. two[j] = both[s + j - 1]
    BY <1>5, <2>1
  <2>3. CASE j <= N - s + 1
    <3>1. j \in 1..N - s + 1 /\ s + j - 1 <= N
      BY <1>1, <1>6, <2>1, <2>3
    <3>2. both[s + j - 1] = text[s + j - 1]
      BY <1>3, <2>1, <3>1
    <3>3. QED
      BY <1>2, <1>4, <2>1, <2>2, <2>3, <3>1, <3>2
  <2>4. CASE ~(j <= N - s + 1)
    <3>1. ~(s + j - 1 <= N) /\ (s + j - 1) - N = j - (N - s + 1)
      BY <1>1, <1>6, <2>1, <2>4
    <3>2. both[s + j - 1] = more[(s + j - 1) - N]
      BY <1>3, <2>1, <3>1
    <3>3. QED
      BY <1>4, <2>1, <2>2, <2>4, <3>1, <3>2
  <2>5. QED
    BY <2>3, <2>4
<1>9. one = two
  BY <1>4, <1>5, <1>7, <1>8, SeqEqual
<1>10. QED
  BY <1>3, <1>9 DEF one, two, rest, both, N, M

\* What a filter has read of a stream and what it keeps: the rest from where it stands.
Stands(text, b, o, at, kept) ==
  /\ Reads(text, b, o, at)
  /\ kept = SubSeq(text, at[Len(o) + 1], Len(text))

\* A filter that stands in a stream reads on when the stream does, up to any boundary of what
\* it kept and got.
LEMMA FilterReads ==
  ASSUME hidden \subseteq Secret, NEW text \in Seq(Letter), NEW more \in Seq(Letter),
         NEW o, NEW at, NEW kept, Stands(text, Short(text), o, at, kept),
         NEW c \in 0..Len(kept \o more), NEW d \in Nat, Short(text) <= d,
         c = 0 \/ at[Len(o) + 1] - 1 + c <= d
  PROVE  LET scan == Scan(kept \o more, c)
             rest == SubSeq(kept \o more, scan.next, Len(kept \o more))
         IN  /\ \E aw : /\ Stands(text \o more, d, o \o scan.out, aw, rest)
                        /\ c = Len(kept \o more) =>
                             aw[Len(o \o scan.out) + 1] > Len(text \o more)
             /\ scan.out \in Seq(Shown) /\ rest \in Seq(Letter)
<1> DEFINE W == text \o more
           s == at[Len(o) + 1]
           both == kept \o more
           scan == Scan(both, c)
           rest == SubSeq(both, scan.next, Len(both))
<1>1. Reads(text, Short(text), o, at) /\ kept = SubSeq(text, s, Len(text))
  BY DEF Stands
<1>2. Len(text) \in Nat /\ s \in 1..Len(text) + 1
  <2>1. Len(o) \in Nat /\ \A n \in 1..Len(o) + 1 : at[n] \in 1..Len(text) + 1
    BY <1>1, ReadsFacts
  <2>2. QED
    BY <2>1
<1>3. W \in Seq(Letter) /\ Len(W) \in Nat /\ Len(W) >= Len(text)
  <2>1. W \in Seq(Letter) /\ Len(W) = Len(text) + Len(more) /\ Len(more) \in Nat
    BY ConcatProperties
  <2>2. QED
    BY <1>2, <2>1
<1>4. Short(text) \in Nat /\ (Short(text) = 0 \/ Short(text) + Keep <= Len(text))
  BY <1>2, ShortFacts
<1>5. Reads(W, Short(text), o, at)
  BY <1>1, <1>4, ReadsLonger
<1>6. both = SubSeq(W, s, Len(W))
  BY <1>1, <1>2, RestGrows
<1> HIDE DEF W, s, both
<1>7. s \in 1..Len(W) + 1
  BY <1>2, <1>3
<1>8. both \in Seq(Letter) /\ Len(both) = Len(W) - s + 1
  <2>1. 1 \in 1..(Len(W) - s + 1) + 1
    BY <1>3, <1>7
  <2>2. QED
    BY <1>3, <1>6, <1>7, <2>1, RestOfRest
<1>9. c \in 0..Len(both)
  BY DEF both
<1>10. PICK au : /\ Reads(both, c, scan.out, au)
                 /\ au[Len(scan.out) + 1] = scan.next
                 /\ scan.next > c
  BY <1>8, <1>9, ScanReads
<1> DEFINE p == scan.out
           k == scan.next
<1>11. p \in Seq(Shown) /\ k \in 1..Len(both) + 1
  <2>1. /\ p \in Seq(Shown) /\ Len(p) \in Nat
        /\ \A n \in 1..Len(p) + 1 : au[n] \in 1..Len(both) + 1
    BY <1>8, <1>10, ReadsFacts
  <2>2. QED
    BY <1>10, <2>1
<1> HIDE DEF p, k
<1>12. PICK aw : /\ Reads(W, d, o \o p, aw)
                 /\ aw[Len(o \o p) + 1] = s + k - 1
  <2>1. Reads(SubSeq(W, at[Len(o) + 1], Len(W)), c, p, au)
    BY <1>6, <1>10 DEF p, s
  <2>2. c \in Nat
    BY <1>8, <1>9
  <2>3. \E aw : /\ Reads(W, d, o \o p, aw)
                /\ aw[Len(o \o p) + 1] = at[Len(o) + 1] + au[Len(p) + 1] - 1
    BY SMTT(30), <1>3, <1>4, <1>5, <2>1, <2>2, ReadsJoin
  <2>4. QED
    BY <1>10, <2>3 DEF s, p, k
<1>13. SubSeq(both, k, Len(both)) = SubSeq(W, s + k - 1, Len(W))
  <2>1. k \in 1..(Len(W) - s + 1) + 1
    BY <1>8, <1>11
  <2>2. QED
    BY <1>3, <1>6, <1>7, <2>1, RestOfRest
<1>14. Stands(W, d, o \o p, aw, SubSeq(both, k, Len(both)))
  BY <1>12, <1>13 DEF Stands
<1>15. c = Len(both) => aw[Len(o \o p) + 1] > Len(W)
  BY <1>3, <1>7, <1>8, <1>10, <1>11, <1>12 DEF k
<1>16. SubSeq(both, k, Len(both)) \in Seq(Letter)
  <2>1. \A j \in k..Len(both) : both[j] \in Letter
    BY <1>8, <1>11
  <2>2. k \in Int /\ Len(both) \in Int
    BY <1>8, <1>11
  <2>3. QED
    BY <2>1, <2>2, SubSeqProperties
<1>17. QED
  BY <1>11, <1>14, <1>15, <1>16 DEF W, both, p, k

-------------------------------------------------------------------------------
(* What is said, stream by stream.                                          *)

SaidLetter == [stream : Stream, letter : Shown]

LEMMA LettersFacts ==
  ASSUME NEW letters \in Seq(SaidLetter)
  PROVE  /\ LettersOf(letters) \in Seq(Shown) /\ Len(LettersOf(letters)) = Len(letters)
         /\ \A i \in 1..Len(letters) : LettersOf(letters)[i] = letters[i].letter
<1>1. Len(letters) \in Nat /\ DOMAIN letters = 1..Len(letters)
  OBVIOUS
<1>2. \A i \in 1..Len(letters) : letters[i] \in SaidLetter
  OBVIOUS
<1>3. \A i \in 1..Len(letters) : letters[i].letter \in Shown
  BY <1>2 DEF SaidLetter
<1>4. LettersOf(letters) = [i \in 1..Len(letters) |-> letters[i].letter]
  BY <1>1 DEF LettersOf
<1>5. QED
  BY <1>1, <1>3, <1>4

LEMMA LettersConcat ==
  ASSUME NEW letters \in Seq(SaidLetter), NEW more \in Seq(SaidLetter)
  PROVE  LettersOf(letters \o more) = LettersOf(letters) \o LettersOf(more)
<1> DEFINE both == letters \o more
           N == Len(letters)
           M == Len(more)
           a == LettersOf(letters)
           b == LettersOf(more)
           one == LettersOf(both)
           two == a \o b
<1>1. N \in Nat /\ M \in Nat
  OBVIOUS
<1>2. /\ both \in Seq(SaidLetter) /\ Len(both) = N + M
      /\ \A i \in 1..N + M : both[i] = IF i <= N THEN letters[i] ELSE more[i - N]
  BY ConcatProperties
<1> HIDE DEF both
<1>3. /\ a \in Seq(Shown) /\ Len(a) = N /\ \A i \in 1..N : a[i] = letters[i].letter
      /\ b \in Seq(Shown) /\ Len(b) = M /\ \A i \in 1..M : b[i] = more[i].letter
  BY LettersFacts
<1>4. one \in Seq(Shown) /\ Len(one) = N + M /\ \A i \in 1..N + M : one[i] = both[i].letter
  <2>1. one \in Seq(Shown) /\ Len(one) = Len(both) /\ \A i \in 1..Len(both) : one[i] = both[i].letter
    BY <1>2, LettersFacts
  <2> HIDE DEF one
  <2>2. QED
    BY <1>2, <2>1
<1> HIDE DEF a, b, one, N, M
<1>5. /\ two \in Seq(Shown) /\ Len(two) = N + M
      /\ \A i \in 1..N + M : two[i] = IF i <= N THEN a[i] ELSE b[i - N]
  <2>1. /\ two \in Seq(Shown) /\ Len(two) = Len(a) + Len(b)
        /\ \A i \in 1..Len(a) + Len(b) : two[i] = IF i <= Len(a) THEN a[i] ELSE b[i - Len(a)]
    BY <1>3, ConcatProperties
  <2> HIDE DEF two
  <2>2. QED
    BY <1>3, <2>1
<1> HIDE DEF two
<1>6. ASSUME NEW i \in 1..N + M PROVE one[i] = two[i]
  <2>1. CASE i <= N
    <3>1. i \in 1..N
      BY <1>1, <2>1
    <3>2. both[i] = letters[i] /\ two[i] = a[i]
      BY <1>2, <1>5, <2>1
    <3>3. QED
      BY <1>3, <1>4, <3>1, <3>2
  <2>2. CASE ~(i <= N)
    <3>1. i - N \in 1..M
      BY <1>1, <2>2
    <3>2. both[i] = more[i - N] /\ two[i] = b[i - N]
      BY <1>2, <1>5, <2>2
    <3>3. QED
      BY <1>3, <1>4, <3>1, <3>2
  <2>3. QED
    BY <2>1, <2>2
<1>7. one = two
  BY <1>4, <1>5, <1>6, SeqEqual
<1>8. QED
  BY <1>7 DEF one, two, a, b, both

LEMMA FromFacts ==
  ASSUME NEW s \in Stream, NEW text \in Seq(Shown)
  PROVE  /\ From(s, text) \in Seq(SaidLetter)
         /\ From(s, text) \in Seq([stream : {s}, letter : Shown])
         /\ Len(From(s, text)) = Len(text)
         /\ LettersOf(From(s, text)) = text
<1> DEFINE N == Len(text)
           f == From(s, text)
<1>1. N \in Nat /\ DOMAIN text = 1..N /\ \A i \in 1..N : text[i] \in Shown
  OBVIOUS
<1>2. f = [i \in 1..N |-> [stream |-> s, letter |-> text[i]]]
  BY <1>1 DEF From
<1>3. f \in Seq(SaidLetter) /\ f \in Seq([stream : {s}, letter : Shown]) /\ Len(f) = N
  BY <1>1, <1>2 DEF SaidLetter
<1>4. \A i \in 1..N : f[i].letter = text[i]
  BY <1>1, <1>2
<1> HIDE DEF f
<1>5. /\ LettersOf(f) \in Seq(Shown) /\ Len(LettersOf(f)) = N
      /\ \A i \in 1..N : LettersOf(f)[i] = f[i].letter
  BY <1>3, LettersFacts
<1>6. LettersOf(f) = text
  BY <1>4, <1>5, SeqEqual
<1>7. QED
  BY <1>3, <1>6 DEF f

\* What is appended of a stream is added to what was said of it, and to nothing else.
LEMMA OfStreamFacts ==
  ASSUME NEW letters \in Seq(SaidLetter), NEW r \in Stream, NEW text \in Seq(Shown),
         NEW s \in Stream
  PROVE  /\ letters \o From(r, text) \in Seq(SaidLetter)
         /\ OfStream(letters, s) \in Seq(Shown)
         /\ r = s => OfStream(letters \o From(r, text), s) = OfStream(letters, s) \o text
         /\ r # s => OfStream(letters \o From(r, text), s) = OfStream(letters, s)
<1> DEFINE some == [stream : {s}, letter : Shown]
           more == From(r, text)
           old == Only(letters, some)
           new == Only(more, some)
<1>1. more \in Seq(SaidLetter) /\ more \in Seq([stream : {r}, letter : Shown]) /\ LettersOf(more) = text
  BY FromFacts
<1> HIDE DEF more, some
<1>2. Only(letters \o more, some) = old \o new
  BY <1>1, OnlyConcat
<1>3. old \in Seq(SaidLetter) /\ new \in Seq(SaidLetter)
  BY <1>1, OnlyFacts
<1>4. r = s => new = more
  <2>1. r = s => [stream : {r}, letter : Shown] \subseteq some
    BY DEF some
  <2>2. QED
    BY <1>1, <2>1, OnlyAll
<1>5. r # s => new = <<>>
  <2> DEFINE T == [stream : {r}, letter : Shown]
  <2>1. r # s => T \cap some = {}
    BY DEF some
  <2>2. more \in Seq(T)
    BY <1>1
  <2> HIDE DEF T
  <2>3. T \cap some = {} => Only(more, some) = <<>>
    BY <2>2, OnlyAll
  <2>4. QED
    BY <2>1, <2>3
<1> HIDE DEF old, new
<1>6. LettersOf(old) \in Seq(Shown)
  BY <1>3, LettersFacts
<1>7. LettersOf(old \o new) = IF r = s THEN LettersOf(old) \o text ELSE LettersOf(old)
  <2>1. CASE r = s
    <3>1. LettersOf(old \o new) = LettersOf(old) \o LettersOf(new)
      BY <1>3, LettersConcat
    <3>2. QED
      BY <1>1, <1>4, <2>1, <3>1
  <2>2. CASE r # s
    <3>1. old \o <<>> = old
      BY <1>3, ConcatEmptySeq
    <3>2. QED
      BY <1>5, <2>2, <3>1
  <2>3. QED
    BY <2>1, <2>2
<1>8. letters \o more \in Seq(SaidLetter)
  BY <1>1, ConcatProperties
<1>9. /\ OfStream(letters, s) = LettersOf(old)
      /\ OfStream(letters \o more, s) = LettersOf(old \o new)
  BY <1>2 DEF OfStream, old, some
<1>10. QED
  BY <1>6, <1>7, <1>8, <1>9 DEF more

-------------------------------------------------------------------------------
(* StreamRedacted                                                           *)

\* What is said of a stream is what its filter has read of it; what it keeps is the rest.
Runs(s) ==
  \E text, b, o, at, kept :
    /\ text = raw[s] /\ b = Short(text) /\ o = OfStream(said, s) /\ kept = pending[s]
    /\ Stands(text, b, o, at, kept)

\* A flushed filter has read all of it.
Flushed(s) ==
  \E text, b, o, at : /\ text = raw[s] /\ b = Len(text) /\ o = OfStream(said, s)
                      /\ Reads(text, b, o, at) /\ at[Len(o) + 1] > Len(text)

StreamInv ==
  /\ hidden \subseteq Secret
  /\ command \in {"none", "running", "closed"}
  /\ raw \in [Stream -> Seq(Letter)] /\ pending \in [Stream -> Seq(Letter)]
  /\ said \in Seq(SaidLetter)
  /\ command = "none" => raw = NoText /\ pending = NoText /\ said = <<>>
  /\ command = "running" => \A s \in Stream : Runs(s)
  /\ command = "closed" => \A s \in Stream : Flushed(s)

\* Nothing of nothing is said.
LEMMA NothingSaid == \A s \in Stream : OfStream(<<>>, s) = <<>>
<1> TAKE s \in Stream
<1> DEFINE some == [stream : {s}, letter : Shown]
<1>1. <<>> \in Seq(SaidLetter)
  BY EmptySeq
<1>2. Only(<<>>, some) \in Seq(SaidLetter) /\ Len(Only(<<>>, some)) <= Len(<<>>)
  <2> HIDE DEF some
  <2>1. QED
    BY <1>1, OnlyFacts
<1>3. Only(<<>>, some) = <<>>
  <2> HIDE DEF some
  <2>1. QED
    BY <1>2, EmptySeq
<1>4. LettersOf(<<>>) = <<>>
  <2>1. LettersOf(<<>>) \in Seq(Shown) /\ Len(LettersOf(<<>>)) = Len(<<>>)
    BY <1>1, LettersFacts
  <2>2. QED
    BY <2>1, EmptySeq
<1>5. QED
  BY <1>3, <1>4 DEF OfStream

LEMMA ReadsNothing == \A b : Reads(<<>>, b, <<>>, [n \in 1..1 |-> 1])
<1> DEFINE at == [n \in 1..1 |-> 1]
<1>1. Len(<<>>) = 0 /\ <<>> \in Seq(Shown)
  BY EmptySeq
<1>2. at \in [1..0 + 1 -> 1..0 + 1] /\ at[1] = 1 /\ 1..0 = {}
  OBVIOUS
<1> HIDE DEF at
<1>3. ASSUME NEW b PROVE Reads(<<>>, b, <<>>, at)
  BY <1>1, <1>2 DEF Reads
<1>4. QED
  BY <1>3 DEF at

\* A state of the redaction has what the property says.
LEMMA StreamInvMeans == StreamInv => StreamRedacted
<1> SUFFICES ASSUME StreamInv, NEW s \in Stream
             PROVE  /\ IsPrefix(OfStream(said, s), Scan(raw[s], Len(raw[s])).out)
                    /\ command = "closed" => OfStream(said, s) = Scan(raw[s], Len(raw[s])).out
                    /\ Silent(OfStream(said, s))
  BY DEF StreamRedacted
<1> DEFINE text == raw[s]
           o == OfStream(said, s)
           whole == Scan(text, Len(text))
<1>1. hidden \subseteq Secret /\ text \in Seq(Letter) /\ Len(text) \in Nat
  BY DEF StreamInv
<1>2. \E b, at : Reads(text, b, o, at) /\ (command = "closed" => at[Len(o) + 1] > Len(text))
  <2>1. CASE command = "none"
    <3>1. text = <<>> /\ o = <<>>
      BY <2>1, NothingSaid DEF StreamInv, NoText
    <3> HIDE DEF text, o
    <3>2. Reads(text, 0, o, [n \in 1..1 |-> 1])
      BY <1>1, <3>1, ReadsNothing
    <3>3. QED
      BY <2>1, <3>2
  <2>2. CASE command = "running"
    BY <2>2 DEF StreamInv, Runs, Stands
  <2>3. CASE command = "closed"
    BY <2>3 DEF StreamInv, Flushed
  <2>4. QED
    BY <2>1, <2>2, <2>3 DEF StreamInv
<1> HIDE DEF text, o
<1>3. PICK b, at : Reads(text, b, o, at) /\ (command = "closed" => at[Len(o) + 1] > Len(text))
  BY <1>2
<1>4. PICK au : /\ Reads(text, Len(text), whole.out, au)
                /\ au[Len(whole.out) + 1] = whole.next
                /\ whole.next > Len(text)
  <2>1. Len(text) \in 0..Len(text)
    BY <1>1
  <2>2. QED
    BY <1>1, <2>1, ScanReads
<1> HIDE DEF whole
<1>5. IsPrefix(o, whole.out) /\ (at[Len(o) + 1] > Len(text) => o = whole.out)
  BY <1>1, <1>3, <1>4, ReadsPrefix
<1>6. Silent(o)
  BY <1>1, <1>3, ReadsSilent
<1>7. QED
  BY <1>3, <1>5, <1>6 DEF text, o, whole

LEMMA SameSecrets ==
  ASSUME hidden' = hidden, NEW text, NEW b, NEW o, NEW at, NEW kept
  PROVE  /\ Short(text)' = Short(text)
         /\ Reads(text, b, o, at)' <=> Reads(text, b, o, at)
         /\ Stands(text, b, o, at, kept)' <=> Stands(text, b, o, at, kept)
<1>1. Keep' = Keep
  BY DEF Keep
<1>2. \A i : Match(text, i)' = Match(text, i)
  BY DEF Match
<1>3. \A i : Stride(text, i)' = Stride(text, i) /\ Sign(text, i)' = Sign(text, i)
  BY <1>2 DEF Stride, Sign
<1>4. Reads(text, b, o, at)' <=> Reads(text, b, o, at)
  BY <1>3 DEF Reads
<1>5. Short(text)' = Short(text)
  BY <1>1 DEF Short
<1>6. QED
  BY <1>4, <1>5 DEF Stands

\* What a filter keeps is as long as what it has not read.
LEMMA KeptLength ==
  ASSUME NEW text \in Seq(Letter), NEW b, NEW o, NEW at, NEW kept, Stands(text, b, o, at, kept)
  PROVE  /\ at[Len(o) + 1] \in 1..Len(text) + 1 /\ o \in Seq(Shown)
         /\ kept \in Seq(Letter) /\ Len(kept) = Len(text) - at[Len(o) + 1] + 1
<1> DEFINE s == at[Len(o) + 1]
<1>1. Reads(text, b, o, at) /\ kept = SubSeq(text, s, Len(text))
  BY DEF Stands
<1>2. Len(text) \in Nat /\ s \in 1..Len(text) + 1 /\ o \in Seq(Shown)
  <2>1. /\ o \in Seq(Shown) /\ Len(o) \in Nat
        /\ \A n \in 1..Len(o) + 1 : at[n] \in 1..Len(text) + 1
    BY <1>1, ReadsFacts
  <2>2. QED
    BY <2>1
<1> HIDE DEF s
<1>3. 1 \in 1..(Len(text) - s + 1) + 1
  BY <1>2
<1>4. kept \in Seq(Letter) /\ Len(kept) = Len(text) - s + 1
  BY <1>1, <1>2, <1>3, RestOfRest
<1>5. QED
  BY <1>2, <1>4 DEF s

LEMMA RunsSame ==
  ASSUME hidden' = hidden, NEW s, raw'[s] = raw[s], pending'[s] = pending[s],
         OfStream(said', s) = OfStream(said, s), Runs(s)
  PROVE  Runs(s)'
<1>1. PICK text, b, o, at, kept :
        /\ text = raw[s] /\ b = Short(text) /\ o = OfStream(said, s) /\ kept = pending[s]
        /\ Stands(text, b, o, at, kept)
  BY DEF Runs
<1>2. Short(text)' = Short(text) /\ Stands(text, b, o, at, kept)'
  BY <1>1, SameSecrets
<1>3. QED
  BY <1>1, <1>2 DEF Runs

LEMMA BoundedIsSeq == BoundedSeq(Letter, 2) \subseteq Seq(Letter)
<1>1. \A m \in Nat : [1..m -> Letter] \subseteq Seq(Letter)
  OBVIOUS
<1>2. BoundedSeq(Letter, 2) = UNION {[1..m -> Letter] : m \in 0..2}
  BY DEF BoundedSeq, SeqOf
<1>3. ASSUME NEW x \in BoundedSeq(Letter, 2) PROVE x \in Seq(Letter)
  <2>1. PICK m \in 0..2 : x \in [1..m -> Letter]
    BY <1>2
  <2>2. QED
    BY <1>1, <2>1
<1>4. QED
  BY <1>3

\* One more chunk through its filter.
LEMMA WritesRuns ==
  ASSUME StreamInv, NEW r \in Stream, NEW chunk \in Seq(Letter), command = "running",
         LET f == Filter(r, chunk, FALSE)
         IN  /\ raw' = [raw EXCEPT ![r] = @ \o chunk]
             /\ pending' = [pending EXCEPT ![r] = f.pending]
             /\ said' = said \o From(r, f.out)
             /\ hidden' = hidden
  PROVE  /\ said' \in Seq(SaidLetter) /\ pending' \in [Stream -> Seq(Letter)]
         /\ \A s \in Stream : Runs(s)'
         /\ Filter(r, chunk, FALSE).out \in Seq(Shown)
<1> DEFINE f == Filter(r, chunk, FALSE)
<1>1. /\ hidden \subseteq Secret /\ raw \in [Stream -> Seq(Letter)]
      /\ pending \in [Stream -> Seq(Letter)] /\ said \in Seq(SaidLetter)
      /\ \A s \in Stream : Runs(s)
  BY DEF StreamInv
<1>2. PICK text, b, o, at, kept :
        /\ text = raw[r] /\ b = Short(text) /\ o = OfStream(said, r) /\ kept = pending[r]
        /\ Stands(text, b, o, at, kept)
  BY <1>1 DEF Runs
<1> DEFINE W == text \o chunk
           both == kept \o chunk
           c == Short(both)
           d == Short(W)
           scan == Scan(both, c)
           rest == SubSeq(both, scan.next, Len(both))
           s0 == at[Len(o) + 1]
<1>3. text \in Seq(Letter) /\ Len(text) \in Nat /\ Len(chunk) \in Nat
  BY <1>1, <1>2
<1>4. /\ s0 \in 1..Len(text) + 1 /\ kept \in Seq(Letter) /\ Len(kept) = Len(text) - s0 + 1
      /\ Len(kept) \in Nat
  BY <1>2, <1>3, KeptLength
<1>5. /\ W \in Seq(Letter) /\ Len(W) = Len(text) + Len(chunk)
      /\ both \in Seq(Letter) /\ Len(both) = Len(kept) + Len(chunk)
  BY <1>3, <1>4, ConcatProperties
<1>6. f.out = scan.out /\ f.pending = rest
  BY <1>2 DEF Filter, Short
<1>6a. /\ raw' = [raw EXCEPT ![r] = @ \o chunk]
       /\ pending' = [pending EXCEPT ![r] = f.pending]
       /\ said' = said \o From(r, f.out)
       /\ hidden' = hidden
  OBVIOUS
<1> HIDE DEF f, W, both, s0
<1>7. Len(W) \in Nat /\ Len(both) \in Nat /\ Len(both) = Len(W) - s0 + 1
  BY <1>3, <1>4, <1>5
<1>8. /\ Short(text) \in Nat /\ Short(text) <= Len(text)
      /\ Short(text) = 0 \/ Short(text) + Keep <= Len(text)
      /\ Len(text) - Keep <= Short(text) /\ Keep \in Nat
  BY <1>1, <1>3, ShortFacts, KeepFacts
<1>9. d \in Nat /\ Len(W) - Keep <= d
  BY <1>1, <1>7, ShortFacts
<1>10. c \in Nat /\ c <= Len(both) /\ (c = 0 \/ c + Keep <= Len(both))
  BY <1>1, <1>7, ShortFacts
<1> HIDE DEF c, d
<1>11. c \in 0..Len(both) /\ Short(text) <= d /\ (c = 0 \/ s0 - 1 + c <= d)
  <2>1. Len(text) <= Len(W)
    BY <1>3, <1>5
  <2>2. Short(text) <= d
    BY <1>3, <1>7, <1>8, <1>9, <2>1
  <2>3. c = 0 \/ s0 - 1 + c <= d
    BY <1>3, <1>4, <1>7, <1>8, <1>9, <1>10
  <2>4. QED
    BY <1>7, <1>10, <2>2, <2>3
<1>12. /\ \E aw : Stands(W, d, o \o scan.out, aw, rest)
       /\ scan.out \in Seq(Shown) /\ rest \in Seq(Letter)
  BY <1>1, <1>2, <1>3, <1>9, <1>11, FilterReads DEF W, both, s0
<1> DEFINE out == scan.out
<1> HIDE DEF scan, rest, out
<1>13. PICK aw : Stands(W, d, o \o out, aw, rest)
  BY <1>12 DEF out
<1>14. out \in Seq(Shown) /\ rest \in Seq(Letter)
  BY <1>12 DEF out
<1>15. /\ raw' = [raw EXCEPT ![r] = @ \o chunk]
       /\ pending' = [pending EXCEPT ![r] = rest]
       /\ said' = said \o From(r, out)
       /\ hidden' = hidden
  BY <1>6, <1>6a DEF out
<1>16. /\ said' \in Seq(SaidLetter)
       /\ \A s \in Stream : OfStream(said', s) = IF r = s THEN OfStream(said, s) \o out
                                                 ELSE OfStream(said, s)
  <2>1. ASSUME NEW s \in Stream
        PROVE  /\ said \o From(r, out) \in Seq(SaidLetter)
               /\ r = s => OfStream(said \o From(r, out), s) = OfStream(said, s) \o out
               /\ r # s => OfStream(said \o From(r, out), s) = OfStream(said, s)
    BY <1>1, <1>14, OfStreamFacts
  <2>2. QED
    BY <1>15, <2>1
<1>17. pending' \in [Stream -> Seq(Letter)]
  BY <1>1, <1>14, <1>15
<1>18. Runs(r)'
  <2>1. raw'[r] = W /\ pending'[r] = rest /\ OfStream(said', r) = o \o out
    BY <1>1, <1>2, <1>15, <1>16 DEF W
  <2>2. PICK t, e, u : t = W /\ e = d /\ u = o \o out
    OBVIOUS
  <2>3. PICK k : k = rest
    OBVIOUS
  <2>4. Stands(t, e, u, aw, k) /\ e = Short(t)
    BY <1>13, <2>2, <2>3 DEF d
  <2>5. Stands(t, e, u, aw, k)' /\ Short(t)' = e
    BY <1>15, <2>4, SameSecrets
  <2>6. t = raw'[r] /\ u = OfStream(said', r) /\ k = pending'[r]
    BY <2>1, <2>2, <2>3
  <2>7. QED
    BY <2>5, <2>6 DEF Runs
<1>19. ASSUME NEW s \in Stream, s # r PROVE Runs(s)'
  <2>1. raw'[s] = raw[s] /\ pending'[s] = pending[s] /\ OfStream(said', s) = OfStream(said, s)
    BY <1>1, <1>15, <1>16, <1>19
  <2>2. QED
    BY <1>1, <1>15, <2>1, RunsSame
<1>20. Filter(r, chunk, FALSE).out \in Seq(Shown)
  BY <1>6, <1>14 DEF f, out
<1>21. QED
  BY <1>16, <1>17, <1>18, <1>19, <1>20

\* The last of a stream, flushed.
LEMMA FlushReads ==
  ASSUME StreamInv, command = "running", NEW r \in Stream
  PROVE  LET out == Filter(r, <<>>, TRUE).out
         IN  /\ out \in Seq(Shown)
             /\ \E text, b, o, at : /\ text = raw[r] /\ b = Len(text) /\ o = OfStream(said, r) \o out
                                    /\ Reads(text, b, o, at) /\ at[Len(o) + 1] > Len(text)
<1>1. /\ hidden \subseteq Secret /\ raw \in [Stream -> Seq(Letter)]
      /\ \A s \in Stream : Runs(s)
  BY DEF StreamInv
<1>2. PICK text, b, o, at, kept :
        /\ text = raw[r] /\ b = Short(text) /\ o = OfStream(said, r) /\ kept = pending[r]
        /\ Stands(text, b, o, at, kept)
  BY <1>1 DEF Runs
<1>3. text \in Seq(Letter) /\ Len(text) \in Nat
  BY <1>1, <1>2
<1>4. /\ at[Len(o) + 1] \in 1..Len(text) + 1 /\ kept \in Seq(Letter)
      /\ Len(kept) = Len(text) - at[Len(o) + 1] + 1 /\ Len(kept) \in Nat
  BY <1>2, <1>3, KeptLength
<1>5. kept \o <<>> = kept /\ text \o <<>> = text /\ <<>> \in Seq(Letter)
  BY <1>3, <1>4, ConcatEmptySeq, EmptySeq
<1> DEFINE c == Len(kept \o <<>>)
           d == Len(text)
           scan == Scan(kept \o <<>>, c)
<1>6. Filter(r, <<>>, TRUE).out = scan.out
  BY <1>2 DEF Filter
<1>7. Short(text) <= d
  BY <1>1, <1>3, ShortFacts
<1>8. c \in 0..Len(kept \o <<>>) /\ d \in Nat /\ (c = 0 \/ at[Len(o) + 1] - 1 + c <= d)
  <2>1. c = Len(kept)
    BY <1>5
  <2>2. QED
    BY <1>3, <1>4, <1>5, <2>1
<1> DEFINE rest == SubSeq(kept \o <<>>, scan.next, Len(kept \o <<>>))
<1>9. /\ \E aw : /\ Stands(text \o <<>>, d, o \o scan.out, aw, rest)
                 /\ c = Len(kept \o <<>>) => aw[Len(o \o scan.out) + 1] > Len(text \o <<>>)
      /\ scan.out \in Seq(Shown)
  <2> HIDE DEF c, d
  <2>1. QED
    BY <1>1, <1>2, <1>3, <1>5, <1>7, <1>8, FilterReads
<1>10. \E aw : /\ Reads(text, d, o \o scan.out, aw)
               /\ aw[Len(o \o scan.out) + 1] > Len(text)
  BY <1>5, <1>9 DEF Stands
<1> HIDE DEF scan, c
<1>11. QED
  BY <1>2, <1>6, <1>9, <1>10

LEMMA StreamInvInit == OutputInit => StreamInv
<1> SUFFICES ASSUME OutputInit PROVE StreamInv
  OBVIOUS
<1>1. <<>> \in Seq(Letter) /\ <<>> \in Seq(SaidLetter)
  BY EmptySeq
<1>2. NoText \in [Stream -> Seq(Letter)]
  BY <1>1 DEF NoText
<1>3. QED
  BY <1>1, <1>2 DEF OutputInit, StreamInv

LEMMA StreamInvNext == StreamInv /\ [OutputNext]_vars => StreamInv'
<1> SUFFICES ASSUME StreamInv, [OutputNext]_vars PROVE StreamInv'
  OBVIOUS
<1>1. /\ hidden \subseteq Secret /\ command \in {"none", "running", "closed"}
      /\ raw \in [Stream -> Seq(Letter)] /\ pending \in [Stream -> Seq(Letter)]
      /\ said \in Seq(SaidLetter)
      /\ command = "none" => raw = NoText /\ pending = NoText /\ said = <<>>
      /\ command = "running" => \A s \in Stream : Runs(s)
      /\ command = "closed" => \A s \in Stream : Flushed(s)
  BY DEF StreamInv
<1>2. <<>> \in Seq(Letter) /\ <<>> \in Seq(SaidLetter) /\ NoText \in [Stream -> Seq(Letter)]
  BY EmptySeq DEF NoText
<1>3. ASSUME UNCHANGED <<raw, pending, said, command, hidden>>
      PROVE  StreamInv'
  <2>1. ASSUME NEW s \in Stream, Flushed(s) PROVE Flushed(s)'
    <3>1. PICK text, b, o, at : /\ text = raw[s] /\ b = Len(text) /\ o = OfStream(said, s)
                                /\ Reads(text, b, o, at) /\ at[Len(o) + 1] > Len(text)
      BY <2>1 DEF Flushed
    <3>2. Reads(text, b, o, at)'
      BY <1>3, <3>1, SameSecrets
    <3>3. QED
      BY <1>3, <3>1, <3>2 DEF Flushed
  <2>2. ASSUME NEW s \in Stream, Runs(s) PROVE Runs(s)'
    BY <1>3, <2>2, RunsSame
  <2>3. QED
    BY <1>1, <1>3, <2>1, <2>2 DEF StreamInv
<1>4. CASE CommandGone
  BY <1>2, <1>4 DEF CommandGone, StreamInv
<1>5. ASSUME NEW secrets \in SUBSET Secret, Exec(secrets)
      PROVE  StreamInv'
  <2>1. /\ command = "none" /\ command' = "running" /\ hidden' = secrets
        /\ raw' = raw /\ pending' = pending /\ said' = said
    BY <1>5 DEF Exec, streamVars
  <2>2. raw = NoText /\ pending = NoText /\ said = <<>>
    BY <1>1, <2>1
  <2>3. ASSUME NEW s \in Stream PROVE Runs(s)'
    <3>1. raw'[s] = <<>> /\ pending'[s] = <<>> /\ OfStream(said', s) = <<>>
      BY <2>1, <2>2, NothingSaid DEF NoText
    <3> DEFINE at == [n \in 1..1 |-> 1]
    <3>2. /\ Len(<<>>) = 0 /\ <<>> \in Seq(Shown) /\ SubSeq(<<>>, 1, 0) = <<>>
          /\ at \in [1..0 + 1 -> 1..0 + 1] /\ at[1] = 1 /\ 1..0 = {}
      BY <1>2, EmptySeq, SubSeqEmpty
    <3> HIDE DEF at
    <3>3. PICK b : b = Short(<<>>)'
      OBVIOUS
    <3>4. Reads(<<>>, b, <<>>, at)'
      BY <3>2 DEF Reads
    <3>5. Stands(<<>>, b, <<>>, at, <<>>)'
      BY <3>2, <3>4 DEF Stands
    <3>6. QED
      BY <3>1, <3>3, <3>5 DEF Runs
  <2>4. QED
    BY <1>1, <2>1, <2>3 DEF StreamInv
<1>6. ASSUME NEW r \in Stream, NEW chunk \in BoundedSeq(Letter, 2), Writes(r, chunk)
      PROVE  StreamInv'
  <2>1. chunk \in Seq(Letter)
    BY BoundedIsSeq
  <2> DEFINE f == Filter(r, chunk, FALSE)
  <2>2. /\ command = "running" /\ command' = command /\ hidden' = hidden
        /\ raw' = [raw EXCEPT ![r] = @ \o chunk]
        /\ pending' = [pending EXCEPT ![r] = f.pending]
        /\ said' = said \o From(r, f.out)
    BY <1>6 DEF Writes, Appended
  <2>3. /\ said' \in Seq(SaidLetter) /\ pending' \in [Stream -> Seq(Letter)]
        /\ \A s \in Stream : Runs(s)'
    BY <2>1, <2>2, WritesRuns
  <2>4. raw' \in [Stream -> Seq(Letter)]
    <3>1. raw[r] \o chunk \in Seq(Letter)
      BY <1>1, <2>1, ConcatProperties
    <3>2. QED
      BY <1>1, <2>2, <3>1
  <2>5. QED
    BY <1>1, <2>2, <2>3, <2>4 DEF StreamInv
<1>7. CASE Closes
  <2> DEFINE out == Filter("stdout", <<>>, TRUE).out
             err == Filter("stderr", <<>>, TRUE).out
             between == said \o From("stdout", out)
  <2>1. /\ command = "running" /\ command' = "closed" /\ pending' = NoText
        /\ said' = between \o From("stderr", err)
        /\ raw' = raw /\ hidden' = hidden
    BY <1>7 DEF Closes
  <2>2. "stdout" \in Stream /\ "stderr" \in Stream
    BY DEF Stream
  <2>3. out \in Seq(Shown) /\ err \in Seq(Shown)
    BY <2>1, <2>2, FlushReads
  <2>4. \E text, b, o, at : /\ text = raw["stdout"] /\ b = Len(text)
                            /\ o = OfStream(said, "stdout") \o out
                            /\ Reads(text, b, o, at) /\ at[Len(o) + 1] > Len(text)
    BY <2>1, <2>2, FlushReads
  <2>5. \E text, b, o, at : /\ text = raw["stderr"] /\ b = Len(text)
                            /\ o = OfStream(said, "stderr") \o err
                            /\ Reads(text, b, o, at) /\ at[Len(o) + 1] > Len(text)
    BY <2>1, <2>2, FlushReads
  <2> HIDE DEF out, err
  <2>6. /\ between \in Seq(SaidLetter)
        /\ OfStream(between, "stdout") = OfStream(said, "stdout") \o out
        /\ OfStream(between, "stderr") = OfStream(said, "stderr")
    BY <1>1, <2>2, <2>3, OfStreamFacts
  <2> HIDE DEF between
  <2>7. /\ said' \in Seq(SaidLetter)
        /\ OfStream(said', "stderr") = OfStream(between, "stderr") \o err
        /\ OfStream(said', "stdout") = OfStream(between, "stdout")
    BY <2>1, <2>2, <2>3, <2>6, OfStreamFacts
  <2>8. Flushed("stdout")'
    <3>1. PICK text, b, o, at : /\ text = raw["stdout"] /\ b = Len(text)
                                /\ o = OfStream(said, "stdout") \o out
                                /\ Reads(text, b, o, at) /\ at[Len(o) + 1] > Len(text)
      BY <2>4
    <3>2. Reads(text, b, o, at)' /\ text = raw'["stdout"] /\ o = OfStream(said', "stdout")
      BY <2>1, <2>6, <2>7, <3>1, SameSecrets
    <3>3. QED
      BY <3>1, <3>2 DEF Flushed
  <2>9. Flushed("stderr")'
    <3>1. PICK text, b, o, at : /\ text = raw["stderr"] /\ b = Len(text)
                                /\ o = OfStream(said, "stderr") \o err
                                /\ Reads(text, b, o, at) /\ at[Len(o) + 1] > Len(text)
      BY <2>5
    <3>2. Reads(text, b, o, at)' /\ text = raw'["stderr"] /\ o = OfStream(said', "stderr")
      BY <2>1, <2>6, <2>7, <3>1, SameSecrets
    <3>3. QED
      BY <3>1, <3>2 DEF Flushed
  <2>10. \A s \in Stream : Flushed(s)'
    BY <2>8, <2>9 DEF Stream
  <2>11. QED
    BY <1>1, <1>2, <2>1, <2>7, <2>10 DEF StreamInv
<1>8. CASE BeginJob \/ EndJob \/ AgentGoesOn \/ Update \/ UNCHANGED vars
  BY <1>3, <1>8 DEF BeginJob, EndJob, AgentGoesOn, Update, vars, outputVars, streamVars
<1>9. CASE Returns \/ SessionGone
  BY <1>4, <1>9 DEF Returns, SessionGone
<1>10. QED
  BY <1>5, <1>6, <1>7, <1>8, <1>9 DEF OutputNext

\* However a stream is cut into chunks, and whenever it ends, the filter lets through what
\* replacing the secrets in all of it at once would have given, as far as it has come, and no
\* secret can be read in it (SecretOutputFilter and execute()).
THEOREM StreamRedactedHolds == OutputSpec => []StreamRedacted
  BY StreamInvInit, StreamInvNext, StreamInvMeans, PTL DEF OutputSpec

-------------------------------------------------------------------------------
(* The end of a text.                                                       *)

Ends(T, x, y) == x \in Seq(T) /\ y \in Seq(T) /\ \E z \in Seq(T) : y = z \o x

LEMMA EndsSame ==
  ASSUME NEW T, NEW y \in Seq(T)
  PROVE  Ends(T, y, y)
<1>1. <<>> \in Seq(T) /\ <<>> \o y = y
  BY EmptySeq, ConcatEmptySeq
<1>2. QED
  BY <1>1 DEF Ends

LEMMA EndsTwice ==
  ASSUME NEW T, NEW x, NEW y, NEW w, Ends(T, x, y), Ends(T, y, w)
  PROVE  Ends(T, x, w)
<1>1. x \in Seq(T) /\ y \in Seq(T) /\ w \in Seq(T)
  BY DEF Ends
<1>2. PICK a \in Seq(T) : y = a \o x
  BY DEF Ends
<1>3. PICK b \in Seq(T) : w = b \o y
  BY DEF Ends
<1>4. b \o a \in Seq(T) /\ (b \o a) \o x = b \o (a \o x)
  <2>1. b \o a \in Seq(T)
    BY ConcatProperties
  <2>2. \A u \in Seq(T) : \A v \in Seq(T) : \A t \in Seq(T) : (u \o v) \o t = u \o (v \o t)
    BY ConcatAssociative
  <2>3. (b \o a) \o x = b \o (a \o x)
    BY <1>1, <2>2
  <2>4. QED
    BY <2>1, <2>3
<1>5. QED
  BY <1>1, <1>2, <1>3, <1>4 DEF Ends

LEMMA EndsConcat ==
  ASSUME NEW T, NEW x, NEW y, Ends(T, x, y), NEW w \in Seq(T)
  PROVE  Ends(T, x \o w, y \o w)
<1>1. x \in Seq(T) /\ y \in Seq(T)
  BY DEF Ends
<1>2. PICK a \in Seq(T) : y = a \o x
  BY DEF Ends
<1>3. (a \o x) \o w = a \o (x \o w) /\ x \o w \in Seq(T) /\ y \o w \in Seq(T)
  <2>1. \A u \in Seq(T) : \A v \in Seq(T) : \A t \in Seq(T) : (u \o v) \o t = u \o (v \o t)
    BY ConcatAssociative
  <2>2. (a \o x) \o w = a \o (x \o w)
    BY <1>1, <2>1
  <2>3. x \o w \in Seq(T) /\ y \o w \in Seq(T)
    BY <1>1, ConcatProperties
  <2>4. QED
    BY <2>2, <2>3
<1>4. QED
  BY <1>2, <1>3 DEF Ends

LEMMA EndsSubSeq ==
  ASSUME NEW T, NEW y \in Seq(T), NEW k \in 1..Len(y)
  PROVE  /\ Ends(T, SubSeq(y, k, Len(y)), y)
         /\ Len(SubSeq(y, k, Len(y))) = Len(y) - k + 1
<1> DEFINE N == Len(y)
           x == SubSeq(y, k, N)
           z == SubSeq(y, 1, k - 1)
<1>1. N \in Nat /\ k \in 1..N /\ \A i \in 1..N : y[i] \in T
  OBVIOUS
<1>2. x \in Seq(T) /\ Len(x) = N - k + 1
  <2>1. k \in Int /\ N \in Int /\ k <= N /\ \A i \in k..N : y[i] \in T
    BY <1>1
  <2>2. QED
    BY <2>1, SubSeqProperties
<1>3. z \in Seq(T)
  <2>1. 1 \in Int /\ k - 1 \in Int /\ \A i \in 1..k - 1 : y[i] \in T
    BY <1>1
  <2>2. QED
    BY <2>1, SubSeqProperties
<1>4. z \o x = y
  <2>1. /\ 1 \in 1..N + 1 /\ k - 1 \in 1 - 1..N /\ N \in k - 1..N /\ (k - 1) + 1 = k
    BY <1>1
  <2>2. SubSeq(y, 1, k - 1) \o SubSeq(y, (k - 1) + 1, N) = SubSeq(y, 1, N)
    BY <2>1, ConcatAdjacentSubSeq
  <2>3. SubSeq(y, 1, N) = y
    BY SubSeqFull
  <2>4. QED
    BY <2>1, <2>2, <2>3
<1> HIDE DEF x, z
<1>5. Ends(T, x, y)
  BY <1>2, <1>3, <1>4 DEF Ends
<1>6. QED
  BY <1>2, <1>5 DEF x

\* An end of a text is no longer than it, is all of it when it is as long, and ends like it.
LEMMA EndsFacts ==
  ASSUME NEW T, NEW x, NEW y, Ends(T, x, y)
  PROVE  /\ x \in Seq(T) /\ y \in Seq(T) /\ Len(x) \in Nat /\ Len(y) \in Nat
         /\ Len(x) <= Len(y)
         /\ \A i \in 1..Len(x) : x[i] = y[Len(y) - Len(x) + i]
<1>1. x \in Seq(T) /\ y \in Seq(T)
  BY DEF Ends
<1>2. PICK z \in Seq(T) : y = z \o x
  BY DEF Ends
<1> DEFINE K == Len(x)
           M == Len(z)
<1>3. K \in Nat /\ M \in Nat
  BY <1>1
<1>4. Len(y) = M + K /\ \A i \in 1..M + K : y[i] = IF i <= M THEN z[i] ELSE x[i - M]
  BY <1>1, <1>2, ConcatProperties
<1> HIDE DEF K, M
<1>5. ASSUME NEW i \in 1..K PROVE x[i] = y[Len(y) - K + i]
  <2>1. M + i \in 1..M + K /\ ~(M + i <= M) /\ (M + i) - M = i /\ Len(y) - K + i = M + i
    BY <1>3, <1>4
  <2>2. y[M + i] = x[(M + i) - M]
    BY <1>4, <2>1
  <2>3. QED
    BY <2>1, <2>2
<1>6. Len(y) \in Nat /\ K <= Len(y)
  BY <1>3, <1>4
<1>7. QED
  BY <1>1, <1>3, <1>5, <1>6 DEF K

LEMMA EndsIsSuffix ==
  ASSUME NEW T, NEW x, NEW y, Ends(T, x, y)
  PROVE  IsSuffix(x, y)
<1> DEFINE K == Len(x)
           N == Len(y)
           p == Reverse(x)
           q == Reverse(y)
<1>1. /\ x \in Seq(T) /\ y \in Seq(T) /\ K \in Nat /\ N \in Nat /\ K <= N
      /\ \A i \in 1..K : x[i] = y[N - K + i]
  BY EndsFacts
<1>2. /\ p \in Seq(T) /\ Len(p) = K /\ \A i \in 1..K : p[i] = x[(K - i) + 1]
  <2>1. \A i \in 1..K : (K - i) + 1 \in 1..K
    BY <1>1
  <2>2. \A i \in 1..K : x[(K - i) + 1] \in T
    BY <1>1, <2>1
  <2>3. p = [i \in 1..K |-> x[(K - i) + 1]]
    BY DEF Reverse
  <2> HIDE DEF p, K
  <2>4. QED
    BY <1>1, <2>2, <2>3
<1>3. /\ q \in Seq(T) /\ Len(q) = N /\ \A i \in 1..N : q[i] = y[(N - i) + 1]
  <2>1. \A i \in 1..N : (N - i) + 1 \in 1..N
    BY <1>1
  <2>2. \A i \in 1..N : y[(N - i) + 1] \in T
    BY <1>1, <2>1
  <2>3. q = [i \in 1..N |-> y[(N - i) + 1]]
    BY DEF Reverse
  <2> HIDE DEF q, N
  <2>4. QED
    BY <1>1, <2>2, <2>3
<1> HIDE DEF p, q
<1>4. \A i \in 1..K : p[i] = q[i]
  <2> TAKE i \in 1..K
  <2>1. (K - i) + 1 \in 1..K /\ i \in 1..N /\ N - K + ((K - i) + 1) = (N - i) + 1
    BY <1>1
  <2>2. p[i] = x[(K - i) + 1] /\ x[(K - i) + 1] = y[N - K + ((K - i) + 1)]
    BY <1>1, <1>2, <2>1
  <2>3. q[i] = y[(N - i) + 1]
    BY <1>3, <2>1
  <2>4. QED
    BY <2>1, <2>2, <2>3
<1> HIDE DEF K, N
<1>5. SubSeq(p, 1, K) = SubSeq(q, 1, K)
  <2> DEFINE front == SubSeq(q, 1, K)
  <2>1. \A i \in 1..K : q[i] \in T
    BY <1>1, <1>3
  <2>2. /\ front \in Seq(T) /\ Len(front) = (IF 1 <= K THEN K - 1 + 1 ELSE 0)
        /\ \A i \in 1..(K - 1 + 1) : front[i] = q[1 + i - 1]
    BY <1>1, <2>1, SubSeqProperties
  <2> HIDE DEF front
  <2>2a. Len(front) = K
    BY <1>1, <2>2
  <2>2b. ASSUME NEW i \in 1..K PROVE p[i] = front[i]
    <3>1. i \in 1..(K - 1 + 1) /\ 1 + i - 1 = i
      BY <1>1
    <3>2. front[i] = q[i]
      BY <2>2, <3>1
    <3>3. QED
      BY <1>4, <3>2
  <2>3. Len(front) = Len(p) /\ \A i \in 1..Len(p) : p[i] = front[i]
    BY <1>2, <2>2a, <2>2b
  <2>4. p = front
    BY <1>2, <2>2, <2>3, SeqEqual
  <2>5. SubSeq(p, 1, K) = p
    BY <1>2, SubSeqFull
  <2>6. QED
    BY <2>4, <2>5 DEF front
<1>6. IsPrefix(p, q)
  BY <1>1, <1>2, <1>3, <1>5 DEF IsPrefix
<1>7. QED
  BY <1>6 DEF IsSuffix, p, q

\* What an end of a text keeps is an end of what the text keeps.
LEMMA EndsOnly ==
  ASSUME NEW T, NEW x, NEW y, Ends(T, x, y), NEW some
  PROVE  Ends(T \cap some, Only(x, some), Only(y, some))
<1>1. x \in Seq(T) /\ y \in Seq(T)
  BY DEF Ends
<1>2. PICK z \in Seq(T) : y = z \o x
  BY DEF Ends
<1>3. Only(y, some) = Only(z, some) \o Only(x, some)
  BY <1>1, <1>2, OnlyConcat
<1>4. /\ Only(x, some) \in Seq(T \cap some) /\ Only(z, some) \in Seq(T \cap some)
      /\ Only(y, some) \in Seq(T \cap some)
  BY <1>1, OnlyFacts
<1>5. QED
  BY <1>3, <1>4 DEF Ends

LEMMA EndsLetters ==
  ASSUME NEW x, NEW y, Ends(SaidLetter, x, y)
  PROVE  Ends(Shown, LettersOf(x), LettersOf(y))
<1>1. x \in Seq(SaidLetter) /\ y \in Seq(SaidLetter)
  BY DEF Ends
<1>2. PICK z \in Seq(SaidLetter) : y = z \o x
  BY DEF Ends
<1>3. LettersOf(y) = LettersOf(z) \o LettersOf(x)
  BY <1>1, <1>2, LettersConcat
<1>4. LettersOf(x) \in Seq(Shown) /\ LettersOf(y) \in Seq(Shown) /\ LettersOf(z) \in Seq(Shown)
  BY <1>1, LettersFacts
<1>5. QED
  BY <1>3, <1>4 DEF Ends

\* The last letters of a text are an end of it, and all of it unless they are as many as asked for.
LEMMA LastLettersFacts ==
  ASSUME NEW T, NEW text \in Seq(T), NEW n \in Nat \ {0}
  PROVE  /\ Ends(T, LastLetters(text, n), text)
         /\ text # <<>> => LastLetters(text, n) # <<>>
         /\ Len(LastLetters(text, n)) < n => LastLetters(text, n) = text
<1> DEFINE N == Len(text)
           k == N - n + 1
           last == LastLetters(text, n)
<1>1. N \in Nat /\ n \in Nat /\ n > 0
  OBVIOUS
<1>2. CASE N <= n
  <2>1. last = text
    BY <1>2 DEF LastLetters
  <2> HIDE DEF last
  <2>2. QED
    BY <2>1, EndsSame DEF last
<1>3. CASE ~(N <= n)
  <2>1. last = SubSeq(text, k, N) /\ k \in 1..N /\ N - k + 1 = n
    BY <1>1, <1>3 DEF LastLetters
  <2> HIDE DEF last, k
  <2>2. Ends(T, last, text) /\ Len(last) = n
    BY <2>1, EndsSubSeq
  <2>3. last # <<>> /\ ~(Len(last) < n)
    BY <1>1, <2>2
  <2>4. QED
    BY <2>2, <2>3 DEF last
<1>4. QED
  BY <1>2, <1>3

-------------------------------------------------------------------------------
(* A log.                                                                   *)

Screen == Shown \cup {Marker}

LEMMA ScreenFacts ==
  /\ Shown \subseteq Screen /\ {Marker} \subseteq Screen
  /\ Screen \cap Shown = Shown /\ {Marker} \cap Shown = {}
  BY OutputAssumption DEF OutputAssumption, Screen, Shown, Redacted, Marker

\* A text that ends with a letter shows one.
LEMMA LastShown ==
  ASSUME NEW text \in Seq(Screen), text # <<>>, text[Len(text)] \in Shown
  PROVE  Only(text, Shown) # <<>>
<1>1. PICK f : Kept(Screen, text, Shown, f)
  BY OnlySteps
<1> DEFINE N == Len(text)
<1>2. N \in Nat /\ N > 0
  BY EmptySeq
<1>3. f[N - 1] \in Seq(Screen)
  BY <1>1, <1>2 DEF Kept
<1>4. N \in 1..N
  BY <1>2
<1>5. Only(text, Shown) = Append(f[N - 1], text[N])
  BY <1>1, <1>4 DEF Kept
<1>6. text[N] \in Screen
  BY ScreenFacts
<1>7. Append(f[N - 1], text[N]) # <<>>
  BY <1>3, <1>6, AppendProperties
<1>8. QED
  BY <1>5, <1>7

\* l is a log of what was said: it shows the end of it, something if anything was said, and
\* all of it unless it is full.
TailOf(l, all) ==
  /\ l \in Seq(Screen) /\ all \in Seq(Shown)
  /\ Ends(Shown, Only(l, Shown), all)
  /\ all # <<>> => Only(l, Shown) # <<>>
  /\ Len(l) < MaxLog /\ Len(all) <= MaxChunks => Only(l, Shown) = all

LEMMA TailOfNothing == TailOf(<<>>, <<>>)
<1>1. <<>> \in Seq(Screen) /\ <<>> \in Seq(Shown)
  BY EmptySeq
<1>2. Only(<<>>, Shown) \in Seq(Screen) /\ Len(Only(<<>>, Shown)) <= Len(<<>>)
  BY <1>1, OnlyFacts
<1>3. Only(<<>>, Shown) = <<>>
  BY <1>2, EmptySeq
<1>4. QED
  BY <1>1, <1>3, EndsSame DEF TailOf

\* More is said, after a mark or not.
LEMMA LogGrows ==
  ASSUME NEW l, NEW all, TailOf(l, all), NEW mark \in Seq({Marker}),
         NEW text \in Seq(Shown), text # <<>>
  PROVE  TailOf(LastLetters(l \o mark \o text, MaxLog), all \o text)
<1> DEFINE y == l \o mark \o text
           out == LastLetters(y, MaxLog)
           shown == Only(l, Shown)
<1>0. MaxLog \in Nat \ {0} /\ MaxChunks \in Nat \ {0}
  BY OutputAssumption DEF OutputAssumption
<1>1. l \in Seq(Screen) /\ all \in Seq(Shown) /\ Ends(Shown, shown, all) /\ shown \in Seq(Shown)
  BY DEF TailOf, Ends
<1>2. mark \in Seq(Screen) /\ text \in Seq(Screen)
  BY ScreenFacts, SeqMonotonic
<1>3. l \o mark \in Seq(Screen) /\ y \in Seq(Screen)
  <2>1. l \o mark \in Seq(Screen)
    BY <1>1, <1>2, ConcatProperties
  <2>2. QED
    BY <1>2, <2>1, ConcatProperties
<1>4. Only(y, Shown) = shown \o text
  <2>1. Only(y, Shown) = Only(l \o mark, Shown) \o Only(text, Shown)
    <3> DEFINE a == l \o mark
    <3>1. a \in Seq(Screen)
      BY <1>3
    <3> HIDE DEF a
    <3>2. Only(a \o text, Shown) = Only(a, Shown) \o Only(text, Shown)
      BY <1>2, <3>1, OnlyConcat
    <3>3. QED
      BY <3>2 DEF a
  <2>2. Only(l \o mark, Shown) = shown \o Only(mark, Shown)
    BY SMTT(30), <1>1, <1>2, OnlyConcat
  <2>3. Only(text, Shown) = text
    BY OnlyAll
  <2>4. Only(mark, Shown) = <<>>
    BY ScreenFacts, OnlyAll
  <2>5. shown \o <<>> = shown
    BY <1>1, ConcatEmptySeq
  <2>6. QED
    BY <2>1, <2>2, <2>3, <2>4, <2>5
<1>5. y # <<>> /\ Len(y) \in Nat /\ Len(y) > 0 /\ y[Len(y)] = text[Len(text)] /\ Len(l) <= Len(y)
      /\ Len(l) \in Nat
  <2> DEFINE x == l \o mark
             K == Len(x)
             M == Len(text)
  <2>1. x \in Seq(Screen) /\ K = Len(l) + Len(mark) /\ Len(l) \in Nat /\ Len(mark) \in Nat
    BY <1>1, <1>2, ConcatProperties
  <2>2. M \in Nat /\ M > 0
    BY EmptySeq
  <2> HIDE DEF x, M
  <2>3. Len(y) = K + M /\ \A i \in 1..K + M : y[i] = IF i <= K THEN x[i] ELSE text[i - K]
    BY <1>2, <2>1, ConcatProperties DEF x, M
  <2>4. K \in Nat
    BY <2>1
  <2> HIDE DEF y, K
  <2>5. K + M \in 1..K + M /\ ~(K + M <= K) /\ (K + M) - K = M
    BY <2>2, <2>4
  <2>6. y[K + M] = text[M]
    BY <2>3, <2>5
  <2>7. y # <<>> /\ Len(l) <= K + M
    BY <2>1, <2>2, <2>3, <2>4, EmptySeq
  <2>8. QED
    BY <2>1, <2>2, <2>3, <2>4, <2>6, <2>7 DEF M
<1> HIDE DEF y, out, shown
<1>6. /\ Ends(Screen, out, y) /\ out # <<>>
      /\ Len(out) < MaxLog => out = y
  BY <1>0, <1>3, <1>5, LastLettersFacts DEF out
<1>7. out \in Seq(Screen)
  BY <1>6 DEF Ends
<1>8. all \o text \in Seq(Shown) /\ Len(all) \in Nat /\ Len(all) <= Len(all \o text)
      /\ Len(all \o text) \in Nat
  <2>1. all \o text \in Seq(Shown) /\ Len(all \o text) = Len(all) + Len(text)
    BY <1>1, ConcatProperties
  <2>2. Len(all) \in Nat /\ Len(text) \in Nat
    BY <1>1
  <2>3. QED
    BY <2>1, <2>2
<1>9. Ends(Shown, Only(out, Shown), all \o text)
  <2>1. Ends(Screen \cap Shown, Only(out, Shown), Only(y, Shown))
    BY <1>6, EndsOnly
  <2>2. Ends(Shown, Only(out, Shown), shown \o text)
    BY <1>4, <2>1, ScreenFacts
  <2>3. Ends(Shown, shown \o text, all \o text)
    BY <1>1, EndsConcat
  <2>4. QED
    BY <2>2, <2>3, EndsTwice
<1>10. Only(out, Shown) # <<>>
  <2>1. /\ Len(out) \in Nat /\ Len(out) <= Len(y)
        /\ \A i \in 1..Len(out) : out[i] = y[Len(y) - Len(out) + i]
    BY <1>6, EndsFacts
  <2>2. Len(out) \in 1..Len(out) /\ Len(y) - Len(out) + Len(out) = Len(y)
    BY <1>5, <1>6, <1>7, <2>1, EmptySeq
  <2>3. out[Len(out)] = text[Len(text)]
    BY <1>5, <2>1, <2>2
  <2>4. text[Len(text)] \in Shown
    <3>1. Len(text) \in 1..Len(text)
      BY EmptySeq
    <3>2. QED
      BY <3>1, ElementOfSeq
  <2>5. QED
    BY <1>6, <1>7, <2>3, <2>4, LastShown
<1>11. ASSUME Len(out) < MaxLog, Len(all \o text) <= MaxChunks
       PROVE  Only(out, Shown) = all \o text
  <2>1. out = y /\ Len(l) < MaxLog /\ Len(all) <= MaxChunks
    BY <1>0, <1>5, <1>6, <1>8, <1>11
  <2>2. shown = all
    BY <2>1 DEF TailOf, shown
  <2>3. QED
    BY <1>4, <2>1, <2>2
<1>12. TailOf(out, all \o text)
  BY <1>7, <1>8, <1>9, <1>10, <1>11 DEF TailOf
<1>13. QED
  BY <1>12 DEF out, y

LEMMA MarkFacts == \A s : Mark(s) \in Seq({Marker})
<1>1. <<>> \in Seq({Marker}) /\ <<Marker>> \in Seq({Marker})
  BY EmptySeq
<1>2. QED
  BY <1>1 DEF Mark

LEMMA WrittenFacts ==
  ASSUME NEW l, NEW all, TailOf(l, all), NEW s, NEW text \in Seq(Shown)
  PROVE  TailOf(Written(l, s, text), all \o text)
<1>1. CASE text = <<>>
  <2>1. all \o text = all
    BY <1>1, ConcatEmptySeq DEF TailOf
  <2>2. QED
    BY <1>1, <2>1 DEF Written
<1>2. CASE text # <<>>
  <2>1. Written(l, s, text) = LastLetters(l \o Mark(s) \o text, MaxLog)
    BY <1>2 DEF Written
  <2>2. QED
    BY <1>2, <2>1, MarkFacts, LogGrows
<1>3. QED
  BY <1>1, <1>2

-------------------------------------------------------------------------------
(* What is held back.                                                       *)

MarkAt(letters, n) == IF n \in Starts(letters) THEN Mark(letters[n].stream) ELSE <<>>

\* What Opened computes, letter by letter.
Opens(letters, f) ==
  /\ f[0] = <<>>
  /\ \A n \in 1..Len(letters) :
       f[n] = LastLetters(f[n - 1] \o MarkAt(letters, n) \o <<letters[n].letter>>, MaxLog)
  /\ Opened(letters) = f[Len(letters)]

LEMMA OpenedSteps ==
  ASSUME NEW letters \in Seq(SaidLetter)
  PROVE  \E f : Opens(letters, f)
<1> DEFINE N == Len(letters)
           X == Seq(Screen)
           Next1(n, x) == LastLetters(x \o MarkAt(letters, n) \o <<letters[n].letter>>, MaxLog)
           h == [n \in 1..N |-> [x \in X |-> Next1(n, x)]]
           Eqn(f) == f = [n \in 0..N |-> IF n = 0 THEN <<>> ELSE Next1(n, f[n - 1])]
<1>1. N \in Nat /\ \A n \in 1..N : letters[n].letter \in Shown
  <2>1. \A n \in 1..N : letters[n] \in SaidLetter
    OBVIOUS
  <2>2. QED
    BY <2>1 DEF SaidLetter
<1>2. ASSUME NEW n \in 1..N, NEW x \in Seq(Screen) PROVE Next1(n, x) \in Seq(Screen)
  <2> DEFINE mark == MarkAt(letters, n)
             one == <<letters[n].letter>>
  <2>1. mark \in Seq(Screen)
    <3>1. mark \in Seq({Marker})
      <4>1. <<>> \in Seq({Marker})
        BY EmptySeq
      <4>2. QED
        BY <4>1, MarkFacts DEF MarkAt
    <3> HIDE DEF mark
    <3>2. QED
      BY <3>1, ScreenFacts, SeqMonotonic
  <2>2. one \in Seq(Screen)
    BY <1>1, ScreenFacts
  <2> HIDE DEF mark, one
  <2>3. x \o mark \in Seq(Screen)
    BY <2>1, ConcatProperties
  <2>4. x \o mark \o one \in Seq(Screen)
    BY <2>2, <2>3, ConcatProperties
  <2> DEFINE y == x \o mark \o one
  <2>5. y \in Seq(Screen)
    BY <2>4
  <2> HIDE DEF y
  <2>6. MaxLog \in Nat \ {0}
    BY OutputAssumption DEF OutputAssumption
  <2>7. LastLetters(y, MaxLog) \in Seq(Screen)
    <3>1. Ends(Screen, LastLetters(y, MaxLog), y)
      BY <2>5, <2>6, LastLettersFacts
    <3>2. QED
      BY <3>1 DEF Ends
  <2>8. QED
    BY <2>7 DEF y, mark, one
<1>3. h \in [1..N -> [X -> X]]
  <2> HIDE DEF Next1
  <2>1. QED
    BY <1>2
<1> HIDE DEF Next1
<1>4. PICK g : Follows(X, <<>>, N, h, g)
  <2>1. N \in Nat /\ <<>> \in X /\ Steps(X, N, h)
    BY <1>1, <1>3, EmptySeq DEF Steps
  <2> HIDE DEF X, h, N
  <2>2. QED
    BY <2>1, Recursion
<1>5. g \in [0..N -> X] /\ g[0] = <<>> /\ \A n \in 1..N : g[n] = h[n][g[n - 1]]
  BY <1>4 DEF Follows
<1>6. \A n \in 1..N : g[n] = Next1(n, g[n - 1])
  <2>1. \A n \in 1..N : g[n - 1] \in X
    BY <1>1, <1>5
  <2> HIDE DEF X
  <2>2. QED
    BY <1>5, <2>1
<1>7. Eqn(g)
  <2>1. \A n \in 0..N : g[n] = IF n = 0 THEN <<>> ELSE Next1(n, g[n - 1])
    <3> TAKE n \in 0..N
    <3>1. n = 0 \/ n \in 1..N
      BY <1>1
    <3>2. QED
      BY <3>1, <1>5, <1>6
  <2>2. g = [n \in 0..N |-> g[n]]
    BY <1>5
  <2>3. QED
    BY <2>1, <2>2
<1> DEFINE upto == CHOOSE f : Eqn(f)
<1>8. Eqn(upto)
  <2> HIDE DEF Eqn
  <2>1. QED
    BY <1>7
<1>9. Opened(letters) = upto[N]
  BY DEF Opened, Next1, MarkAt
<1> HIDE DEF upto
<1>10. \A n \in 0..N : upto[n] = IF n = 0 THEN <<>> ELSE Next1(n, upto[n - 1])
  BY <1>8
<1>11. upto[0] = <<>>
  BY <1>1, <1>10
<1>12. \A n \in 1..N : upto[n] = Next1(n, upto[n - 1])
  BY <1>1, <1>10
<1>13. QED
  BY <1>9, <1>11, <1>12 DEF Opens, Next1

\* A log that opens with what was held back is a log of that.
LEMMA OpenedIsTail ==
  ASSUME NEW letters \in Seq(SaidLetter)
  PROVE  TailOf(Opened(letters), LettersOf(letters))
<1> DEFINE N == Len(letters)
           all == LettersOf(letters)
           upto(n) == SubSeq(all, 1, n)
<1>1. PICK f : Opens(letters, f)
  BY OpenedSteps
<1>2. /\ N \in Nat /\ all \in Seq(Shown) /\ Len(all) = N
      /\ \A n \in 1..N : all[n] = letters[n].letter /\ all[n] \in Shown
  <2>1. N \in Nat /\ all \in Seq(Shown) /\ Len(all) = N /\ \A n \in 1..N : all[n] = letters[n].letter
    BY LettersFacts
  <2> HIDE DEF all, N
  <2>2. QED
    BY <2>1
<1> HIDE DEF all
<1>3. /\ f[0] = <<>>
      /\ \A n \in 1..N :
           f[n] = LastLetters(f[n - 1] \o MarkAt(letters, n) \o <<letters[n].letter>>, MaxLog)
      /\ Opened(letters) = f[N]
  BY <1>1 DEF Opens
<1> HIDE DEF N
<1> DEFINE I == {n \in Nat : n <= N => TailOf(f[n], upto(n))}
<1>4. 0 \in I
  <2>1. upto(0) = <<>>
    BY SubSeqEmpty
  <2>2. QED
    BY <1>3, <2>1, TailOfNothing
<1>5. ASSUME NEW n \in Nat, n \in I PROVE n + 1 \in I
  <2> SUFFICES ASSUME n + 1 <= N PROVE TailOf(f[n + 1], upto(n + 1))
    OBVIOUS
  <2>1. n + 1 \in 1..N /\ (n + 1) - 1 = n /\ TailOf(f[n], upto(n))
    BY <1>2, <1>5
  <2> DEFINE mark == MarkAt(letters, n + 1)
             one == <<all[n + 1]>>
  <2>2. f[n + 1] = LastLetters(f[n] \o mark \o one, MaxLog)
    BY <1>2, <1>3, <2>1
  <2>3. upto(n + 1) = upto(n) \o one
    <3>1. 1 \in 1..N /\ n + 1 \in 1..N
      BY <1>2, <2>1
    <3>2. SubSeq(all, 1, n + 1) = SubSeq(all, 1, (n + 1) - 1) \o <<all[n + 1]>>
      BY <1>2, <3>1, SubSeqRecursiveSecond
    <3>3. QED
      BY <2>1, <3>2
  <2>4. mark \in Seq({Marker})
    <3>1. <<>> \in Seq({Marker})
      BY EmptySeq
    <3>2. QED
      BY <3>1, MarkFacts DEF MarkAt
  <2>5. one \in Seq(Shown) /\ one # <<>>
    BY <1>2, <2>1
  <2> HIDE DEF mark, one, upto
  <2>6. TailOf(LastLetters(f[n] \o mark \o one, MaxLog), upto(n) \o one)
    BY <2>1, <2>4, <2>5, LogGrows
  <2>7. QED
    BY <2>2, <2>3, <2>6
<1>6. TailOf(f[N], upto(N))
  <2>1. 0 \in I /\ \A n \in Nat : n \in I => n + 1 \in I
    BY <1>4, <1>5
  <2> HIDE DEF I
  <2>2. N \in I
    BY <1>2, <2>1, SetInduction
  <2>3. QED
    BY <1>2, <2>2 DEF I
<1>7. upto(N) = all
  BY <1>2, SubSeqFull
<1>8. QED
  BY <1>3, <1>6, <1>7 DEF all

\* There are no more chunks than letters.
LEMMA StartsFacts ==
  ASSUME NEW letters \in Seq(SaidLetter)
  PROVE  /\ Starts(letters) \subseteq 1..Len(letters)
         /\ Cardinality(Starts(letters)) <= Len(letters)
         /\ Cardinality(Starts(letters)) > 1 =>
              Min(Starts(letters) \ {1}) \in 1..Len(letters)
<1> DEFINE N == Len(letters)
           S == Starts(letters)
<1>1. N \in Nat /\ S \subseteq 1..N
  BY DEF Starts
<1>2. IsFiniteSet(1..N) /\ Cardinality(1..N) = N
  <2>1. 1 \in Int /\ N \in Int
    BY <1>1
  <2>2. IsFiniteSet(1..N) /\ Cardinality(1..N) = IF 1 > N THEN 0 ELSE N - 1 + 1
    BY <2>1, FS_Interval
  <2>3. QED
    BY <1>1, <2>2
<1> HIDE DEF S
<1>3. Cardinality(S) <= N
  BY <1>1, <1>2, FS_Subset
<1>4. ASSUME Cardinality(S) > 1 PROVE Min(S \ {1}) \in 1..N
  <2>1. S \ {1} # {}
    <3> SUFFICES ASSUME S \ {1} = {} PROVE FALSE
      OBVIOUS
    <3>1. S \subseteq {1}
      OBVIOUS
    <3>2. IsFiniteSet({1}) /\ Cardinality({1}) = 1
      BY FS_Singleton
    <3>3. Cardinality(S) <= 1
      BY <3>1, <3>2, FS_Subset
    <3>4. IsFiniteSet(S)
      BY <3>1, <3>2, FS_Subset
    <3>5. Cardinality(S) \in Nat
      BY <3>4, FS_CardinalityType
    <3>6. QED
      BY <1>4, <3>3, <3>5
  <2> DEFINE R == S \ {1}
  <2>2. R \subseteq Nat /\ R # {}
    BY <1>1, <2>1
  <2>3. \E x \in R : \A y \in R : x <= y
    <3> HIDE DEF R
    <3>1. QED
      BY <2>2, LeastNumber
  <2>4. Min(R) \in R
    <3> HIDE DEF R
    <3>1. QED
      BY <2>3 DEF Min
  <2>5. QED
    BY <1>1, <2>4
<1>5. QED
  BY <1>1, <1>3, <1>4 DEF S

LEMMA TrimmedFacts ==
  ASSUME NEW letters \in Seq(SaidLetter)
  PROVE  /\ Ends(SaidLetter, Trimmed(letters), letters)
         /\ letters # <<>> => Trimmed(letters) # <<>>
         /\ Len(Trimmed(letters)) < MaxLog /\ Len(letters) <= MaxChunks =>
              Trimmed(letters) = letters
<1> DEFINE N == Len(letters)
           second == Min(Starts(letters) \ {1})
           many == Cardinality(Starts(letters)) > MaxChunks
           kept == IF many THEN SubSeq(letters, second, N) ELSE letters
           last == LastLetters(kept, MaxLog)
<1>1. MaxLog \in Nat \ {0} /\ MaxChunks \in Nat \ {0} /\ N \in Nat
  BY OutputAssumption DEF OutputAssumption
<1>2. Cardinality(Starts(letters)) \in Nat /\ Cardinality(Starts(letters)) <= N
  <2>1. IsFiniteSet(1..N)
    <3>1. 1 \in Int /\ N \in Int
      BY <1>1
    <3>2. QED
      BY <3>1, FS_Interval
  <2>2. IsFiniteSet(Starts(letters))
    BY <2>1, StartsFacts, FS_Subset
  <2>3. QED
    BY <2>2, StartsFacts, FS_CardinalityType
<1>3. many => second \in 1..N
  BY <1>1, <1>2, StartsFacts
<1>4. many => ~(N <= MaxChunks)
  BY <1>1, <1>2
<1> HIDE DEF many, second
<1>5. Ends(SaidLetter, kept, letters) /\ (letters # <<>> => kept # <<>>)
  <2>1. CASE many
    <3> DEFINE x == SubSeq(letters, second, N)
    <3>1. Ends(SaidLetter, x, letters) /\ Len(x) = N - second + 1
      BY <1>3, <2>1, EndsSubSeq
    <3> HIDE DEF x
    <3>2. x # <<>>
      BY <1>1, <1>3, <2>1, <3>1, EmptySeq
    <3>3. kept = x
      BY <2>1 DEF x
    <3>4. QED
      BY <3>1, <3>2, <3>3
  <2>2. CASE ~many
    BY <2>2, EndsSame
  <2>3. QED
    BY <2>1, <2>2
<1>6. Trimmed(letters) = last
  BY DEF Trimmed, many, second
<1>7. N <= MaxChunks => kept = letters
  BY <1>4
<1> HIDE DEF kept, last
<1>8. kept \in Seq(SaidLetter)
  BY <1>5 DEF Ends
<1>9. /\ Ends(SaidLetter, last, kept) /\ (kept # <<>> => last # <<>>)
      /\ Len(last) < MaxLog => last = kept
  BY <1>1, <1>8, LastLettersFacts DEF last
<1>10. Ends(SaidLetter, last, letters)
  BY <1>5, <1>9, EndsTwice
<1>11. QED
  BY <1>5, <1>6, <1>7, <1>9, <1>10

\* What is held back is the end of what was said, something if anything was said, and all of
\* it unless it is too much.
Held(held, whole) ==
  /\ Ends(SaidLetter, held, whole)
  /\ whole # <<>> => held # <<>>
  /\ Len(held) < MaxLog /\ Len(whole) <= MaxChunks => held = whole

LEMMA HeldNothing == Held(<<>>, <<>>)
<1>1. <<>> \in Seq(SaidLetter)
  BY EmptySeq
<1>2. QED
  BY <1>1, EndsSame DEF Held

LEMMA HeldGrows ==
  ASSUME NEW held, NEW whole, Held(held, whole), NEW more \in Seq(SaidLetter)
  PROVE  Held(Trimmed(held \o more), whole \o more)
<1> DEFINE x == held \o more
           y == whole \o more
           t == Trimmed(x)
<1>1. held \in Seq(SaidLetter) /\ whole \in Seq(SaidLetter) /\ Ends(SaidLetter, held, whole)
  BY DEF Held, Ends
<1>2. MaxLog \in Nat /\ MaxChunks \in Nat
  BY OutputAssumption DEF OutputAssumption
<1>3. /\ x \in Seq(SaidLetter) /\ Len(x) = Len(held) + Len(more)
      /\ y \in Seq(SaidLetter) /\ Len(y) = Len(whole) + Len(more)
      /\ Len(held) \in Nat /\ Len(more) \in Nat /\ Len(whole) \in Nat
  BY <1>1, ConcatProperties
<1>4. Ends(SaidLetter, x, y)
  BY <1>1, EndsConcat
<1>5. Len(x) <= Len(y)
  BY <1>4, EndsFacts
<1>6. y # <<>> => x # <<>>
  <2>1. x = <<>> => held = <<>> /\ more = <<>>
    BY <1>1, ConcatEqualIffEmpty
  <2>2. whole = <<>> /\ more = <<>> => y = <<>>
    BY <1>1, ConcatEqualIffEmpty
  <2>3. QED
    BY <2>1, <2>2 DEF Held
<1> HIDE DEF x, y, t
<1>7. /\ Ends(SaidLetter, t, x)
      /\ x # <<>> => t # <<>>
      /\ Len(t) < MaxLog /\ Len(x) <= MaxChunks => t = x
  BY <1>3, TrimmedFacts DEF t
<1>8. Ends(SaidLetter, t, y)
  BY <1>4, <1>7, EndsTwice
<1>9. ASSUME Len(t) < MaxLog, Len(y) <= MaxChunks PROVE t = y
  <2>1. Len(x) <= MaxChunks
    BY <1>2, <1>3, <1>5, <1>9
  <2>2. t = x
    BY <1>7, <1>9, <2>1
  <2>3. Len(held) < MaxLog /\ Len(whole) <= MaxChunks
    BY <1>2, <1>3, <1>9, <2>2
  <2>4. held = whole
    BY <2>3 DEF Held
  <2>5. QED
    BY <2>2, <2>4 DEF x, y
<1>10. Held(t, y)
  BY <1>6, <1>7, <1>8, <1>9 DEF Held
<1>11. QED
  BY <1>10 DEF t, x, y

LEMMA HeldOpens ==
  ASSUME NEW held, NEW whole, Held(held, whole)
  PROVE  TailOf(Opened(held), LettersOf(whole))
<1> DEFINE l == Opened(held)
           some == LettersOf(held)
           all == LettersOf(whole)
           shown == Only(l, Shown)
<1>1. /\ held \in Seq(SaidLetter) /\ whole \in Seq(SaidLetter) /\ Ends(SaidLetter, held, whole)
      /\ Len(held) \in Nat /\ Len(whole) \in Nat /\ Len(held) <= Len(whole)
  <2>1. Ends(SaidLetter, held, whole)
    BY DEF Held
  <2>2. QED
    BY <2>1, EndsFacts
<1>2. MaxLog \in Nat /\ MaxChunks \in Nat
  BY OutputAssumption DEF OutputAssumption
<1>3. /\ some \in Seq(Shown) /\ Len(some) = Len(held)
      /\ all \in Seq(Shown) /\ Len(all) = Len(whole)
  BY <1>1, LettersFacts
<1>4. TailOf(l, some)
  BY <1>1, OpenedIsTail
<1>5. Ends(Shown, some, all)
  BY <1>1, EndsLetters
<1> HIDE DEF l, some, all
<1>6. /\ l \in Seq(Screen) /\ Ends(Shown, shown, some)
      /\ some # <<>> => shown # <<>>
      /\ Len(l) < MaxLog /\ Len(some) <= MaxChunks => shown = some
  BY <1>4 DEF TailOf
<1>7. Len(shown) <= Len(l) /\ Len(l) \in Nat
  <2>1. Len(Only(l, Shown)) <= Len(l)
    BY <1>6, OnlyFacts
  <2>2. QED
    BY <1>6, <2>1
<1> HIDE DEF shown
<1>8. Ends(Shown, shown, all)
  BY <1>5, <1>6, EndsTwice
<1>9. all # <<>> => shown # <<>>
  <2>1. all # <<>> => whole # <<>>
    BY <1>1, <1>3, EmptySeq
  <2>2. held # <<>> => some # <<>>
    BY <1>1, <1>3, EmptySeq
  <2>3. QED
    BY <1>6, <2>1, <2>2 DEF Held
<1>10. ASSUME Len(l) < MaxLog, Len(all) <= MaxChunks PROVE shown = all
  <2>1. Len(some) <= MaxChunks
    BY <1>1, <1>2, <1>3, <1>10
  <2>2. shown = some
    BY <1>6, <1>10, <2>1
  <2>3. Len(held) < MaxLog /\ Len(whole) <= MaxChunks
    BY <1>1, <1>2, <1>3, <1>7, <1>10, <2>2
  <2>4. held = whole
    BY <2>3 DEF Held
  <2>5. QED
    BY <2>2, <2>4 DEF some, all
<1>11. TailOf(l, all)
  BY <1>3, <1>6, <1>8, <1>9, <1>10 DEF TailOf, shown
<1>12. QED
  BY <1>11 DEF l, all

-------------------------------------------------------------------------------
(* LogIsTail                                                                *)

\* A command was asked in a job there was, and its agent is in the last one.
JobInv ==
  /\ jobs \in Nat /\ turn \in {0, jobs}
  /\ agent # "none" => turn # 0
  /\ command # "none" => commandTurn \in 1..jobs

LogInv ==
  /\ command = "none" => waiting = "ended" /\ log = <<>>
  /\ command = "running" => waiting \in {"buffered", "shown"}
  /\ command = "closed" => waiting = "ended"
  /\ waiting = "buffered" => log = <<>> /\ Held(buffered, said)
  /\ waiting # "buffered" => buffered = <<>>
  /\ (waiting = "shown" \/ log # <<>>) /\ turn = commandTurn => TailOf(log, LettersOf(said))

OutputInv == StreamInv /\ JobInv /\ LogInv

LEMMA OutputInvInit == OutputInit => OutputInv
  BY StreamInvInit DEF OutputInit, WaitInit, OutputInv, JobInv, LogInv

LEMMA JobInvNext ==
  ASSUME JobInv, [OutputNext]_vars
  PROVE  JobInv' /\ (turn' = turn \/ command = "none" \/ turn' # commandTurn)
<1> USE DEF JobInv
<1>1. CASE BeginJob
  BY <1>1 DEF BeginJob, Submitted, outputVars
<1>2. CASE EndJob
  BY <1>2 DEF EndJob, Finishes, outputVars
<1>3. CASE AgentGoesOn
  <2>1. UNCHANGED <<turn, jobs, command, commandTurn>> /\ (agent' # "none" => agent # "none")
    BY <1>3 DEF AgentGoesOn, WaitNext, outputVars, Responds, Progress, ToolReturns, SaysRunning,
                ToBackground, Continues, Pauses, Observes
  <2>2. QED
    BY <2>1
<1>4. ASSUME NEW secrets \in SUBSET Secret, Exec(secrets)
      PROVE  JobInv' /\ turn' = turn
  BY <1>4 DEF Exec
<1>5. CASE Returns
  BY <1>5 DEF Returns, CommandGone, CommandOver
<1>6. CASE SessionGone
  BY <1>6 DEF SessionGone, CommandGone
<1>7. ASSUME NEW r \in Stream, NEW chunk \in BoundedSeq(Letter, 2), Writes(r, chunk)
      PROVE  JobInv' /\ turn' = turn
  BY <1>7 DEF Writes, waitVars
<1>8. CASE Closes
  BY <1>8 DEF Closes, waitVars
<1>9. CASE Update \/ UNCHANGED vars
  BY <1>9 DEF Update, vars, waitVars, outputVars
<1>10. QED
  BY <1>1, <1>2, <1>3, <1>4, <1>5, <1>6, <1>7, <1>8, <1>9 DEF OutputNext

\* More is said of one stream.
LEMMA SaidMore ==
  ASSUME said \in Seq(SaidLetter), NEW r \in Stream, NEW out \in Seq(Shown)
  PROVE  /\ said \o From(r, out) \in Seq(SaidLetter) /\ From(r, out) \in Seq(SaidLetter)
         /\ LettersOf(said \o From(r, out)) = LettersOf(said) \o out
<1>1. From(r, out) \in Seq(SaidLetter) /\ LettersOf(From(r, out)) = out
  BY FromFacts
<1>2. said \o From(r, out) \in Seq(SaidLetter)
  BY <1>1, ConcatProperties
<1>3. LettersOf(said \o From(r, out)) = LettersOf(said) \o LettersOf(From(r, out))
  BY <1>1, LettersConcat
<1>4. QED
  BY <1>1, <1>2, <1>3

LEMMA LogInvNext ==
  ASSUME OutputInv, [OutputNext]_vars
  PROVE  LogInv'
<1>1. /\ command = "none" => waiting = "ended" /\ log = <<>>
      /\ command = "running" => waiting \in {"buffered", "shown"}
      /\ command = "closed" => waiting = "ended"
      /\ waiting = "buffered" => log = <<>> /\ Held(buffered, said)
      /\ waiting # "buffered" => buffered = <<>>
      /\ (waiting = "shown" \/ log # <<>>) /\ turn = commandTurn => TailOf(log, LettersOf(said))
  BY DEF OutputInv, LogInv
<1>2. /\ command \in {"none", "running", "closed"} /\ said \in Seq(SaidLetter)
      /\ command = "none" => said = <<>>
  BY DEF OutputInv, StreamInv
<1>3. turn' = turn \/ command = "none" \/ turn' # commandTurn
  BY JobInvNext DEF OutputInv
<1>4. CASE UNCHANGED outputVars
  BY <1>1, <1>3, <1>4 DEF LogInv, outputVars, streamVars
<1>5. CASE CommandGone
  BY <1>5 DEF CommandGone, LogInv
<1>6. ASSUME NEW secrets \in SUBSET Secret, Exec(secrets)
      PROVE  LogInv'
  <2>1. /\ command = "none" /\ command' = "running" /\ waiting' = "buffered" /\ log' = <<>>
        /\ buffered' = buffered /\ said' = said
    BY <1>6 DEF Exec, streamVars
  <2>2. buffered = <<>> /\ said = <<>>
    BY <1>1, <1>2, <2>1
  <2>3. QED
    BY <2>1, <2>2, HeldNothing DEF LogInv
<1>7. ASSUME NEW r \in Stream, NEW chunk \in BoundedSeq(Letter, 2), Writes(r, chunk)
      PROVE  LogInv'
  <2> DEFINE f == Filter(r, chunk, FALSE)
             out == f.out
  <2>1. /\ command = "running"
        /\ raw' = [raw EXCEPT ![r] = @ \o chunk]
        /\ pending' = [pending EXCEPT ![r] = f.pending]
        /\ said' = said \o From(r, f.out)
        /\ hidden' = hidden
        /\ UNCHANGED <<command, commandTurn, waiting, turn>>
    BY <1>7 DEF Writes, Appended, waitVars
  <2>2. /\ buffered' = IF waiting = "buffered" THEN Trimmed(buffered \o From(r, out)) ELSE buffered
        /\ log' = IF waiting = "shown" /\ turn = commandTurn THEN Written(log, r, out) ELSE log
    BY <1>7 DEF Writes, Appended
  <2>3. out \in Seq(Shown)
    <3>1. chunk \in Seq(Letter)
      BY BoundedIsSeq
    <3>2. StreamInv
      BY DEF OutputInv
    <3>3. QED
      BY <2>1, <3>1, <3>2, WritesRuns
  <2> HIDE DEF f, out
  <2>4. said' = said \o From(r, out)
    BY <2>1 DEF out
  <2>5. /\ From(r, out) \in Seq(SaidLetter)
        /\ LettersOf(said') = LettersOf(said) \o out
    BY <1>2, <2>3, <2>4, SaidMore
  <2>6. CASE waiting = "buffered"
    <3>1. Held(buffered, said)
      BY <1>1, <2>6
    <3>2. Held(buffered', said')
      BY <2>2, <2>4, <2>5, <2>6, <3>1, HeldGrows
    <3>3. log' = <<>> /\ waiting' = "buffered"
      BY <1>1, <2>1, <2>2, <2>6
    <3>4. QED
      BY <2>1, <3>2, <3>3 DEF LogInv
  <2>7. CASE waiting = "shown"
    <3>1. buffered' = <<>> /\ waiting' = "shown" /\ command' = "running"
      BY <1>1, <2>1, <2>2, <2>7
    <3>2. ASSUME turn = commandTurn PROVE TailOf(log', LettersOf(said'))
      <4>1. TailOf(log, LettersOf(said))
        BY <1>1, <2>7, <3>2
      <4>2. TailOf(Written(log, r, out), LettersOf(said) \o out)
        BY <2>3, <4>1, WrittenFacts
      <4>3. QED
        BY <2>2, <2>5, <2>7, <3>2, <4>2
    <3>3. QED
      BY <2>1, <3>1, <3>2 DEF LogInv
  <2>8. QED
    BY <1>1, <2>1, <2>6, <2>7
<1>8. CASE Closes
  <2> DEFINE out == Filter("stdout", <<>>, TRUE).out
             err == Filter("stderr", <<>>, TRUE).out
             between == said \o From("stdout", out)
  <2>1. /\ command = "running" /\ command' = "closed" /\ waiting' = "ended" /\ buffered' = <<>>
        /\ said' = between \o From("stderr", err)
        /\ turn' = turn /\ commandTurn' = commandTurn
        /\ log' = IF waiting = "shown" /\ turn = commandTurn
                    THEN Written(Written(log, "stdout", out), "stderr", err) ELSE log
    BY <1>8 DEF Closes, waitVars
  <2>2. out \in Seq(Shown) /\ err \in Seq(Shown)
    <3>1. "stdout" \in Stream /\ "stderr" \in Stream /\ StreamInv
      BY DEF Stream, OutputInv
    <3>2. QED
      BY <2>1, <3>1, FlushReads
  <2> HIDE DEF out, err
  <2>3. /\ between \in Seq(SaidLetter)
        /\ LettersOf(between) = LettersOf(said) \o out
        /\ LettersOf(between \o From("stderr", err)) = LettersOf(between) \o err
    <3>1. "stdout" \in Stream /\ "stderr" \in Stream
      BY DEF Stream
    <3>2. between \in Seq(SaidLetter) /\ LettersOf(between) = LettersOf(said) \o out
      BY <1>2, <2>2, <3>1, SaidMore
    <3> HIDE DEF between
    <3>3. From("stderr", err) \in Seq(SaidLetter) /\ LettersOf(From("stderr", err)) = err
      BY <2>2, <3>1, FromFacts
    <3>4. LettersOf(between \o From("stderr", err)) = LettersOf(between) \o LettersOf(From("stderr", err))
      BY <3>2, <3>3, LettersConcat
    <3>5. QED
      BY <3>2, <3>3, <3>4
  <2> HIDE DEF between
  <2>4. LettersOf(said') = (LettersOf(said) \o out) \o err
    BY <2>1, <2>3
  <2>5. CASE waiting = "shown" /\ turn = commandTurn
    <3>1. TailOf(log, LettersOf(said))
      BY <1>1, <2>5
    <3>2. TailOf(Written(log, "stdout", out), LettersOf(said) \o out)
      BY <2>2, <3>1, WrittenFacts
    <3>3. TailOf(Written(Written(log, "stdout", out), "stderr", err), (LettersOf(said) \o out) \o err)
      BY <2>2, <3>2, WrittenFacts
    <3>4. TailOf(log', LettersOf(said'))
      BY <2>1, <2>4, <2>5, <3>3
    <3>5. QED
      BY <2>1, <3>4 DEF LogInv
  <2>6. CASE ~(waiting = "shown" /\ turn = commandTurn)
    <3>1. log' = log /\ (turn' = commandTurn' => log' = <<>>)
      BY <1>1, <2>1, <2>6
    <3>2. QED
      BY <2>1, <3>1 DEF LogInv
  <2>7. QED
    BY <2>5, <2>6
<1>9. CASE Update
  <2>1. /\ waiting = "buffered" /\ waiting' = "shown" /\ log' = Opened(buffered) /\ buffered' = <<>>
        /\ said' = said /\ command' = command
    BY <1>9 DEF Update, streamVars
  <2>2. Held(buffered, said) /\ command = "running"
    BY <1>1, <1>2, <2>1
  <2>3. TailOf(log', LettersOf(said'))
    BY <2>1, <2>2, HeldOpens
  <2>4. QED
    BY <2>1, <2>2, <2>3 DEF LogInv
<1>10. CASE BeginJob \/ EndJob \/ AgentGoesOn \/ UNCHANGED vars
  BY <1>4, <1>10 DEF BeginJob, EndJob, AgentGoesOn, vars
<1>11. CASE Returns \/ SessionGone
  BY <1>5, <1>11 DEF Returns, SessionGone
<1>12. QED
  BY <1>6, <1>7, <1>8, <1>9, <1>10, <1>11 DEF OutputNext

LEMMA OutputInvNext == OutputInv /\ [OutputNext]_vars => OutputInv'
  BY StreamInvNext, JobInvNext, LogInvNext DEF OutputInv

LEMMA OutputInvMeans == OutputInv => LogIsTail
<1> SUFFICES ASSUME OutputInv, waiting = "shown" \/ log # <<>>, turn = commandTurn
             PROVE  /\ IsSuffix(Only(log, Shown), LettersOf(said))
                    /\ LettersOf(said) # <<>> => Only(log, Shown) # <<>>
                    /\ Len(log) < MaxLog /\ Len(LettersOf(said)) <= MaxChunks =>
                         Only(log, Shown) = LettersOf(said)
  BY DEF LogIsTail
<1>1. TailOf(log, LettersOf(said))
  BY DEF OutputInv, LogInv
<1>2. IsSuffix(Only(log, Shown), LettersOf(said))
  BY <1>1, EndsIsSuffix DEF TailOf
<1>3. QED
  BY <1>1, <1>2 DEF TailOf

\* However its output is cut into chunks, held back, trimmed and shown, the log of a command
\* is the end of what it said, in the order it was said, and all of it unless it was too much
\* (WaitingTerminal, append() and terminal()).
THEOREM LogIsTailHolds == OutputSpec => []LogIsTail
  BY OutputInvInit, OutputInvNext, OutputInvMeans, PTL DEF OutputSpec

===============================================================================
