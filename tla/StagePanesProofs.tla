-------------------------- MODULE StagePanesProofs ---------------------------
(***************************************************************************)
(* Theorems about the panes of a stage, for every number of places, ids,   *)
(* runs and jobs: one basis that is never lost, logs that tell the truth   *)
(* and never change their ending, reviews that only pass what was seen to  *)
(* pass, and a stage that can always be saved.                             *)
(*                                                                         *)
(* The lists are computed by recursive functions.  What these return is    *)
(* proved by induction on the places of a list, with induction stated as a *)
(* fact about sets of numbers: a set of numbers with 0 and with every      *)
(* successor holds them all, since a least number outside it cannot be.    *)
(***************************************************************************)
EXTENDS StagePanes, SequenceTheorems, WellFoundedInduction, TLAPS

-------------------------------------------------------------------------------
(* Induction on numbers, and lists place by place.                          *)

\* Numbers have no endless descent.
LEMMA LessIsWellFounded ==
  \A T : T \subseteq Nat /\ T # {} => \E x \in T : \A y \in T : ~(<<y, x>> \in OpToRel(<, Nat))
<1> DEFINE R == OpToRel(<, Nat)
<1>1. IsWellFoundedOn(R, Nat)
  BY NatLessThanWellFounded
<1> HIDE DEF R
<1>2. \A T : T \subseteq Nat /\ T # {} => \E x \in T : \A y \in T : ~(<<y, x>> \in R)
  BY <1>1, WFMin
<1>3. QED
  BY <1>2 DEF R

\* The order the library speaks of is the order of numbers.
LEMMA SmallerIsRelated ==
  ASSUME NEW x \in Nat, NEW y \in Nat, y < x
  PROVE  <<y, x>> \in OpToRel(<, Nat)
  BY Zenon DEF OpToRel

\* A set of numbers that is not empty has a least one.
LEMMA LeastNumber ==
  ASSUME NEW T, T \subseteq Nat, T # {}
  PROVE  \E x \in T : \A y \in T : x <= y
<1>1. PICK x \in T : \A y \in T : ~(<<y, x>> \in OpToRel(<, Nat))
  BY LessIsWellFounded
<1>2. \A y \in T : ~(y < x)
  BY <1>1, SmallerIsRelated
<1>3. QED
  BY <1>2

\* Induction over a set of numbers.
LEMMA SetInduction ==
  ASSUME NEW I, 0 \in I, \A n \in Nat : n \in I => n + 1 \in I
  PROVE  \A n \in Nat : n \in I
<1> SUFFICES ASSUME NEW m \in Nat, m \notin I
             PROVE  FALSE
  OBVIOUS
<1>1. PICK x \in Nat \ I : \A y \in Nat \ I : x <= y
  BY LeastNumber, Nat \ I \subseteq Nat, Nat \ I # {}
<1>2. x # 0 /\ x - 1 \in Nat
  BY <1>1
<1>3. x - 1 \in I
  BY <1>1, <1>2
<1>4. (x - 1) + 1 \in I
  BY <1>2, <1>3
<1>5. QED
  BY <1>1, <1>4

-------------------------------------------------------------------------------
(* What Among chooses from a list.                                          *)

\* What Among computes, place by place.
Chosen(T, list, places, f) ==
  /\ f \in [0..Len(list) -> Seq(T)]
  /\ f[0] = <<>>
  /\ \A n \in 1..Len(list) :
       f[n] = IF n \in places THEN Append(f[n - 1], list[n]) ELSE f[n - 1]
  /\ Among(list, places) = f[Len(list)]

\* Among is what its recursive function computes.
LEMMA AmongSteps ==
  ASSUME NEW T, NEW list \in Seq(T), NEW places
  PROVE  \E f : Chosen(T, list, places, f)
<1> DEFINE N == Len(list)
           Upto(m, f) ==
             /\ f \in [0..m -> Seq(T)]
             /\ f[0] = <<>>
             /\ \A n \in 1..m :
                  f[n] = IF n \in places THEN Append(f[n - 1], list[n]) ELSE f[n - 1]
           I == {m \in Nat : m <= N => \E f : Upto(m, f)}
           Eqn(f) == f = [n \in 0..N |->
                            IF n = 0 THEN <<>>
                            ELSE IF n \in places THEN Append(f[n - 1], list[n]) ELSE f[n - 1]]
<1>0. N \in Nat /\ \A n \in 1..N : list[n] \in T
  OBVIOUS
<1>1. 0 \in I
  <2> DEFINE f == [n \in 0..0 |-> <<>>]
  <2>1. Upto(0, f)
    OBVIOUS
  <2>2. QED
    BY <2>1
<1>2. ASSUME NEW m \in Nat, m + 1 <= N, NEW g, Upto(m, g)
      PROVE  \E f : Upto(m + 1, f)
  <2> DEFINE next == IF m + 1 \in places THEN Append(g[m], list[m + 1]) ELSE g[m]
             f == [n \in 0..m + 1 |-> IF n <= m THEN g[n] ELSE next]
  <2>1. g[m] \in Seq(T) /\ list[m + 1] \in T
    BY <1>0, <1>2
  <2>2. next \in Seq(T)
    BY <2>1
  <2> HIDE DEF next
  <2>3. f \in [0..m + 1 -> Seq(T)]
    BY <1>2, <2>2
  <2>4. f[0] = <<>>
    BY <1>2
  <2>5. ASSUME NEW n \in 1..m + 1
        PROVE  f[n] = IF n \in places THEN Append(f[n - 1], list[n]) ELSE f[n - 1]
    <3>1. CASE n <= m
      <4>1. n \in 1..m /\ f[n] = g[n] /\ f[n - 1] = g[n - 1]
        BY <3>1
      <4>2. QED
        BY <4>1, <1>2
    <3>2. CASE n = m + 1
      <4>1. f[n] = next /\ f[n - 1] = g[m]
        BY <3>2
      <4>2. QED
        BY <4>1, <3>2 DEF next
    <3>3. QED
      BY <3>1, <3>2
  <2>6. Upto(m + 1, f)
    BY <2>3, <2>4, <2>5
  <2>7. QED
    BY <2>6
<1>3. PICK g : Upto(N, g)
  <2> HIDE DEF Upto
  <2>1. \A m \in Nat : m \in I => m + 1 \in I
    BY <1>2, <1>0
  <2>2. \A m \in Nat : m \in I
    <3> HIDE DEF I
    <3>1. QED
      BY <1>1, <2>1, SetInduction
  <2>3. QED
    BY <2>2, <1>0
<1>4. Eqn(g)
  <2>1. \A n \in 0..N : g[n] = IF n = 0 THEN <<>>
                               ELSE IF n \in places THEN Append(g[n - 1], list[n]) ELSE g[n - 1]
    <3> SUFFICES ASSUME NEW n \in 0..N
                 PROVE  g[n] = IF n = 0 THEN <<>>
                               ELSE IF n \in places THEN Append(g[n - 1], list[n]) ELSE g[n - 1]
      OBVIOUS
    <3>1. CASE n = 0
      BY <3>1, <1>3
    <3>2. CASE n \in 1..N
      BY <3>2, <1>3
    <3>3. QED
      BY <3>1, <3>2, <1>0
  <2>2. g = [n \in 0..N |-> g[n]]
    BY <1>3
  <2>3. QED
    BY <2>1, <2>2
<1> DEFINE first == CHOOSE f : Eqn(f)
<1>5. Eqn(first)
  <2> HIDE DEF Eqn
  <2>1. QED
    BY <1>4
<1>6. Among(list, places) = first[N]
  BY DEF Among
<1> HIDE DEF first
<1>7. \A n \in 0..N : first[n] = IF n = 0 THEN <<>>
                               ELSE IF n \in places THEN Append(first[n - 1], list[n]) ELSE first[n - 1]
  BY <1>5
<1>8. \A n \in Nat : n \in {k \in Nat : k <= N => first[k] \in Seq(T)}
  <2> DEFINE J == {k \in Nat : k <= N => first[k] \in Seq(T)}
  <2>1. 0 \in J
    <3>1. first[0] = <<>>
      BY <1>7, <1>0
    <3>2. first[0] \in Seq(T)
      BY <3>1, EmptySeq
    <3>3. QED
      BY <3>2
  <2>2. \A k \in Nat : k \in J => k + 1 \in J
    <3> SUFFICES ASSUME NEW k \in Nat, k \in J, k + 1 <= N PROVE first[k + 1] \in Seq(T)
      OBVIOUS
    <3>1. first[k] \in Seq(T) /\ list[k + 1] \in T /\ (k + 1) - 1 = k
      BY <1>0
    <3>2. first[k + 1] = IF k + 1 \in places THEN Append(first[k], list[k + 1]) ELSE first[k]
      BY <1>7, <1>0, <3>1
    <3>3. QED
      BY <3>1, <3>2
  <2> HIDE DEF J
  <2>3. QED
    BY <2>1, <2>2, SetInduction DEF J
<1>9. first \in [0..N -> Seq(T)]
  <2>1. first = [n \in 0..N |-> first[n]]
    BY <1>5
  <2>2. QED
    BY <2>1, <1>8
<1>10. first[0] = <<>>
  BY <1>7, <1>0
<1>11. \A n \in 1..N : first[n] = IF n \in places THEN Append(first[n - 1], list[n]) ELSE first[n - 1]
  BY <1>7, <1>0
<1>12. Chosen(T, list, places, first)
  BY <1>6, <1>9, <1>10, <1>11 DEF Chosen
<1>13. QED
  BY <1>12

\* No id twice.
Unique(list) == \A i, j \in DOMAIN list : list[i].id = list[j].id => i = j

\* Among returns the chosen members, no more of them, each id at most once.
LEMMA AmongProperties ==
  ASSUME NEW T, NEW list \in Seq(T), NEW places
  PROVE  /\ Among(list, places) \in Seq(T)
         /\ Len(Among(list, places)) <= Len(list)
         /\ (\E j \in 1..Len(list) : j \notin places) => Len(Among(list, places)) < Len(list)
         /\ ToSet(Among(list, places)) = {list[j] : j \in places \cap 1..Len(list)}
         /\ Unique(list) => Unique(Among(list, places))
<1> DEFINE N == Len(list)
<1>0. PICK f : Chosen(T, list, places, f)
  BY AmongSteps
<1>1. /\ f \in [0..N -> Seq(T)]
      /\ f[0] = <<>>
      /\ \A n \in 1..N : f[n] = IF n \in places THEN Append(f[n - 1], list[n]) ELSE f[n - 1]
      /\ Among(list, places) = f[N]
  BY <1>0 DEF Chosen
<1> DEFINE Short(n) == /\ Len(f[n]) <= n
                       /\ (\E j \in 1..n : j \notin places) => Len(f[n]) < n
           From(n) == \A i \in 1..Len(f[n]) : \E j \in 1..n : j \in places /\ f[n][i] = list[j]
           Into(n) == \A j \in 1..n : j \in places => \E i \in 1..Len(f[n]) : f[n][i] = list[j]
           Once(n) == Unique(list) => Unique(f[n])
           Good(n) == Short(n) /\ From(n) /\ Into(n) /\ Once(n)
           J == {n \in Nat : n <= N => Good(n)}
<1>2. N \in Nat /\ \A n \in 1..N : list[n] \in T
  OBVIOUS
<1>3. 0 \in J
  <2>1. Len(f[0]) = 0 /\ 1..0 = {} /\ DOMAIN f[0] = {}
    BY <1>1
  <2>2. Good(0)
    BY <2>1 DEF Unique
  <2>3. QED
    BY <2>2
<1>4. ASSUME NEW n \in Nat, Good(n), n + 1 <= N
      PROVE  Good(n + 1)
  <2> DEFINE old == f[n]
             new == f[n + 1]
             x == list[n + 1]
  <2>1. n + 1 \in 1..N /\ (n + 1) - 1 = n /\ old \in Seq(T) /\ x \in T
    BY <1>1, <1>2, <1>4
  <2>2. new = IF n + 1 \in places THEN Append(old, x) ELSE old
    BY <1>1, <2>1
  <2> HIDE DEF old, new, x
  <2>3. CASE n + 1 \notin places
    <3>1. new = old
      BY <2>2, <2>3
    <3>2. \A j \in 1..n + 1 : j \in places => j \in 1..n
      BY <2>3
    <3>3. Short(n + 1)
      BY <3>1, <1>4, <2>1 DEF old, new
    <3>4. From(n + 1) /\ Into(n + 1) /\ Once(n + 1)
      BY <3>1, <3>2, <1>4 DEF old, new
    <3>5. QED
      BY <3>3, <3>4
  <2>4. CASE n + 1 \in places
    <3>1. /\ new \in Seq(T)
          /\ Len(new) = Len(old) + 1
          /\ \A i \in 1..Len(old) : new[i] = old[i]
          /\ new[Len(old) + 1] = x
      BY <2>1, <2>2, <2>4, AppendProperties
    <3>2. Len(old) \in Nat
      BY <2>1
    <3>3. Short(n + 1)
      <4>1. ASSUME \E j \in 1..n + 1 : j \notin places
            PROVE  \E j \in 1..n : j \notin places
        BY <4>1, <2>4
      <4>2. QED
        BY <4>1, <3>1, <3>2, <1>4 DEF old, new
    <3>4. From(n + 1)
      <4> SUFFICES ASSUME NEW i \in 1..Len(new)
                   PROVE  \E j \in 1..n + 1 : j \in places /\ new[i] = list[j]
        BY DEF new
      <4>1. CASE i \in 1..Len(old)
        <5>1. PICK j \in 1..n : j \in places /\ old[i] = list[j]
          BY <4>1, <1>4 DEF old
        <5>2. QED
          BY <5>1, <3>1, <4>1
      <4>2. CASE i = Len(old) + 1
        BY <4>2, <3>1, <2>4 DEF x
      <4>3. QED
        BY <4>1, <4>2, <3>1, <3>2
    <3>5. Into(n + 1)
      <4> SUFFICES ASSUME NEW j \in 1..n + 1, j \in places
                   PROVE  \E i \in 1..Len(new) : new[i] = list[j]
        BY DEF new
      <4>1. CASE j \in 1..n
        <5>1. PICK i \in 1..Len(old) : old[i] = list[j]
          BY <4>1, <1>4 DEF old
        <5>2. QED
          BY <5>1, <3>1, <3>2
      <4>2. CASE j = n + 1
        BY <4>2, <3>1, <3>2 DEF x
      <4>3. QED
        BY <4>1, <4>2
    <3>6. Once(n + 1)
      <4> SUFFICES ASSUME Unique(list), NEW i \in DOMAIN new, NEW k \in DOMAIN new,
                          new[i].id = new[k].id, i < k
                   PROVE  FALSE
        BY <3>1 DEF Unique, new
      <4>1. DOMAIN new = 1..Len(old) + 1 /\ DOMAIN old = 1..Len(old) /\ DOMAIN list = 1..N
        BY <3>1, <3>2, <2>1
      <4>2. i \in 1..Len(old) /\ new[i] = old[i]
        BY <4>1, <3>1, <3>2
      <4>3. CASE k \in 1..Len(old)
        <5>1. Unique(old)
          BY <1>4 DEF old
        <5>2. old[i].id = old[k].id
          BY <4>2, <4>3, <3>1
        <5>3. QED
          BY <5>1, <5>2, <4>1, <4>2, <4>3 DEF Unique
      <4>4. CASE k = Len(old) + 1
        <5>1. PICK j \in 1..n : old[i] = list[j]
          BY <4>2, <1>4 DEF old
        <5>2. list[j].id = list[n + 1].id
          BY <5>1, <4>2, <4>4, <3>1 DEF x
        <5>3. j \in 1..N
          BY <1>4, <1>2
        <5>4. QED
          BY <5>2, <5>3, <4>1, <2>1 DEF Unique
      <4>5. QED
        BY <4>1, <4>3, <4>4, <3>2
    <3>7. QED
      BY <3>3, <3>4, <3>5, <3>6
  <2>5. QED
    BY <2>3, <2>4
<1>5. Good(N)
  <2>1. \A n \in Nat : n \in J => n + 1 \in J
    <3> HIDE DEF Good
    <3>1. QED
      BY <1>4, <1>2
  <2>2. N \in J
    <3> HIDE DEF J
    <3>1. QED
      BY <2>1, <1>2, <1>3, SetInduction
  <2> HIDE DEF Good
  <2>3. QED
    BY <2>2, <1>2
<1>6. f[N] \in Seq(T) /\ DOMAIN f[N] = 1..Len(f[N])
  BY <1>1, <1>2
<1>7. ToSet(f[N]) = {list[j] : j \in places \cap 1..N}
  <2>1. ASSUME NEW p \in ToSet(f[N]) PROVE p \in {list[j] : j \in places \cap 1..N}
    <3>1. PICK i \in 1..Len(f[N]) : p = f[N][i]
      BY <2>1, <1>6 DEF ToSet
    <3>2. PICK j \in 1..N : j \in places /\ f[N][i] = list[j]
      BY <3>1, <1>5
    <3>3. QED
      BY <3>1, <3>2
  <2>2. ASSUME NEW j \in places \cap 1..N PROVE list[j] \in ToSet(f[N])
    <3>1. PICK i \in 1..Len(f[N]) : f[N][i] = list[j]
      BY <1>5
    <3>2. QED
      BY <3>1, <1>6 DEF ToSet
  <2>3. QED
    BY <2>1, <2>2
<1>8. QED
  BY <1>1, <1>5, <1>6, <1>7

-------------------------------------------------------------------------------
(* Lists of panes.                                                          *)

\* What is known of every list of panes.
LEMMA ListFacts ==
  ASSUME NEW list \in Seq(Pane)
  PROVE  /\ Len(list) \in Nat
         /\ DOMAIN list = 1..Len(list)
         /\ \A i \in 1..Len(list) : list[i] \in Pane /\ list[i] \in ToSet(list)
         /\ ToSet(list) \subseteq Pane
         /\ Ids(list) = {p.id : p \in ToSet(list)}
         /\ \A id : Has(list, id) <=> id \in Ids(list)
         /\ \A id : Has(list, id) <=> \E p \in ToSet(list) : p.id = id
<1>1. Len(list) \in Nat /\ DOMAIN list = 1..Len(list) /\ \A i \in 1..Len(list) : list[i] \in Pane
  BY LenProperties, ElementOfSeq
<1>2. ToSet(list) = {list[i] : i \in DOMAIN list} /\ Ids(list) = {list[i].id : i \in DOMAIN list}
  BY DEF ToSet, Ids
<1>3. \A id : Has(list, id) <=> \E i \in DOMAIN list : list[i].id = id
  BY DEF Has
<1>4. Ids(list) = {p.id : p \in ToSet(list)}
  BY <1>2
<1>5. \A id : Has(list, id) <=> id \in Ids(list)
  BY <1>2, <1>3
<1>6. \A id : Has(list, id) <=> \E p \in ToSet(list) : p.id = id
  BY <1>4, <1>5
<1>7. QED
  BY <1>1, <1>2, <1>4, <1>5, <1>6

\* Find returns a pane of the list with the id.
LEMMA FindFacts ==
  ASSUME NEW list \in Seq(Pane), NEW id, Has(list, id)
  PROVE  Find(list, id) \in ToSet(list) /\ Find(list, id).id = id /\ Find(list, id) \in Pane
<1>1. \E i \in DOMAIN list : list[i].id = id
  BY DEF Has
<1>2. PICK i \in DOMAIN list : Find(list, id) = list[i] /\ list[i].id = id
  BY <1>1 DEF Find
<1>3. QED
  BY <1>2, ListFacts

\* And the one pane, where ids are unique.
LEMMA FindUnique ==
  ASSUME NEW list \in Seq(Pane), Unique(list), NEW p \in ToSet(list)
  PROVE  Find(list, p.id) = p
<1>1. PICK i \in DOMAIN list : p = list[i]
  BY DEF ToSet
<1>2. (CHOOSE j \in DOMAIN list : list[j].id = p.id) = i
  BY <1>1 DEF Unique
<1>3. QED
  BY <1>1, <1>2 DEF Find

\* Without drops the pane of an id.
LEMMA WithoutFacts ==
  ASSUME NEW list \in Seq(Pane), NEW id
  PROVE  /\ Without(list, id) \in Seq(Pane)
         /\ Len(Without(list, id)) <= Len(list)
         /\ Has(list, id) => Len(Without(list, id)) < Len(list)
         /\ ToSet(Without(list, id)) = {p \in ToSet(list) : p.id # id}
         /\ Unique(list) => Unique(Without(list, id))
<1> DEFINE places == {i \in DOMAIN list : list[i].id # id}
<1>1. Without(list, id) = Among(list, places)
  BY DEF Without
<1>2. /\ Among(list, places) \in Seq(Pane)
      /\ Len(Among(list, places)) <= Len(list)
      /\ (\E j \in 1..Len(list) : j \notin places) => Len(Among(list, places)) < Len(list)
      /\ ToSet(Among(list, places)) = {list[j] : j \in places \cap 1..Len(list)}
      /\ Unique(list) => Unique(Among(list, places))
  <2> HIDE DEF places
  <2>1. QED
    BY AmongProperties
<1>3. DOMAIN list = 1..Len(list)
  BY ListFacts
<1>4. {list[j] : j \in places \cap 1..Len(list)} = {p \in ToSet(list) : p.id # id}
  BY <1>3 DEF ToSet
<1>5. Has(list, id) => \E j \in 1..Len(list) : j \notin places
  BY <1>3 DEF Has
<1>6. QED
  BY <1>1, <1>2, <1>4, <1>5

\* Update replaces the pane of an id, and no other.
LEMMA UpdateFacts ==
  ASSUME NEW list \in Seq(Pane), NEW pane \in Pane
  PROVE  /\ Update(list, pane) \in Seq(Pane)
         /\ Len(Update(list, pane)) = Len(list)
         /\ ToSet(Update(list, pane)) =
              {p \in ToSet(list) : p.id # pane.id} \cup (IF Has(list, pane.id) THEN {pane} ELSE {})
         /\ Unique(list) => Unique(Update(list, pane))
<1>1. /\ Len(list) \in Nat /\ DOMAIN list = 1..Len(list)
      /\ \A i \in 1..Len(list) : list[i] \in Pane
  BY ListFacts
<1>2. Update(list, pane) = [i \in 1..Len(list) |-> IF list[i].id = pane.id THEN pane ELSE list[i]]
  BY <1>1 DEF Update
<1> DEFINE new == Update(list, pane)
<1>3. new \in [1..Len(list) -> Pane]
  BY <1>1, <1>2
<1>4. new \in Seq(Pane) /\ Len(new) = Len(list) /\ DOMAIN new = 1..Len(list)
  BY <1>1, <1>3
<1>5. \A i \in 1..Len(list) : new[i] = IF list[i].id = pane.id THEN pane ELSE list[i]
  BY <1>2
<1> HIDE DEF new
<1>6. ToSet(new) = {new[i] : i \in 1..Len(list)} /\ ToSet(list) = {list[i] : i \in 1..Len(list)}
  BY <1>1, <1>4 DEF ToSet
<1>7. Has(list, pane.id) <=> \E i \in 1..Len(list) : list[i].id = pane.id
  BY <1>1 DEF Has
<1>8. ToSet(new) = {p \in ToSet(list) : p.id # pane.id} \cup (IF Has(list, pane.id) THEN {pane} ELSE {})
  BY <1>5, <1>6, <1>7
<1>9. Unique(list) => Unique(new)
  BY <1>1, <1>4, <1>5 DEF Unique
<1>10. QED
  BY <1>4, <1>8, <1>9 DEF new

\* Put adds a pane or replaces the one of its id.
LEMMA PutFacts ==
  ASSUME NEW list \in Seq(Pane), NEW pane \in Pane
  PROVE  /\ Put(list, pane) \in Seq(Pane)
         /\ Len(Put(list, pane)) = IF Has(list, pane.id) THEN Len(list) ELSE Len(list) + 1
         /\ ToSet(Put(list, pane)) = {p \in ToSet(list) : p.id # pane.id} \cup {pane}
         /\ Has(Put(list, pane), pane.id)
         /\ Unique(list) => Unique(Put(list, pane))
<1>1. CASE Has(list, pane.id)
  <2>1. Put(list, pane) = Update(list, pane)
    BY <1>1, ListFacts DEF Put
  <2>2. QED
    BY <1>1, <2>1, UpdateFacts, ListFacts
<1>2. CASE ~Has(list, pane.id)
  <2>1. Put(list, pane) = Append(list, pane)
    BY <1>2, ListFacts DEF Put
  <2>2. /\ Append(list, pane) \in Seq(Pane)
        /\ Len(Append(list, pane)) = Len(list) + 1
        /\ \A i \in 1..Len(list) : Append(list, pane)[i] = list[i]
        /\ Append(list, pane)[Len(list) + 1] = pane
    BY AppendProperties
  <2> DEFINE new == Append(list, pane)
  <2>3. Len(list) \in Nat /\ DOMAIN list = 1..Len(list) /\ DOMAIN new = 1..Len(list) + 1
    BY <2>2, ListFacts, LenProperties
  <2> HIDE DEF new
  <2>4. ToSet(new) = ToSet(list) \cup {pane}
    BY <2>2, <2>3 DEF ToSet, new
  <2>5. \A i \in 1..Len(list) : list[i].id # pane.id
    BY <1>2, <2>3 DEF Has
  <2>6. \A p \in ToSet(list) : p.id # pane.id
    BY <2>3, <2>5 DEF ToSet
  <2>7. ASSUME Unique(list) PROVE Unique(new)
    <3> SUFFICES ASSUME NEW i \in DOMAIN new, NEW j \in DOMAIN new, new[i].id = new[j].id, i < j
                 PROVE  FALSE
      BY <2>3 DEF Unique
    <3>1. i \in 1..Len(list) /\ new[i] = list[i]
      BY <2>2, <2>3 DEF new
    <3>2. CASE j \in 1..Len(list)
      BY <3>1, <3>2, <2>2, <2>3, <2>7 DEF new, Unique
    <3>3. CASE j = Len(list) + 1
      BY <3>1, <3>3, <2>2, <2>5 DEF new
    <3>4. QED
      BY <3>2, <3>3, <2>3
  <2>8. new[Len(list) + 1].id = pane.id /\ Len(list) + 1 \in DOMAIN new
    BY <2>2, <2>3 DEF new
  <2>9. Has(new, pane.id)
    BY <2>8 DEF Has
  <2>10. QED
    BY <1>2, <2>1, <2>2, <2>4, <2>6, <2>7, <2>9 DEF new
<1>3. QED
  BY <1>1, <1>2

\* Foreground only moves a pane.
LEMMA ForegroundFacts ==
  ASSUME NEW list \in Seq(Pane), Unique(list), NEW id, Has(list, id)
  PROVE  /\ Foreground(list, id) \in Seq(Pane)
         /\ Len(Foreground(list, id)) <= Len(list)
         /\ ToSet(Foreground(list, id)) = ToSet(list)
         /\ Unique(Foreground(list, id))
<1> DEFINE head == Find(list, id)
           rest == Without(list, id)
           new == <<head>> \o rest
<1>1. head \in ToSet(list) /\ head.id = id /\ head \in Pane
  BY FindFacts
<1>2. /\ rest \in Seq(Pane) /\ Len(rest) < Len(list) /\ Unique(rest)
      /\ ToSet(rest) = {p \in ToSet(list) : p.id # id}
  BY WithoutFacts
<1>3. Foreground(list, id) = new
  BY DEF Foreground
<1> HIDE DEF head, rest
<1>4. Len(list) \in Nat /\ Len(rest) \in Nat /\ DOMAIN rest = 1..Len(rest)
  BY <1>2, ListFacts
<1>5. <<head>> \in Seq(Pane) /\ Len(<<head>>) = 1 /\ <<head>>[1] = head
  BY <1>1
<1>6. /\ new \in Seq(Pane)
      /\ Len(new) = Len(rest) + 1
      /\ \A i \in 1..Len(rest) + 1 : new[i] = IF i <= 1 THEN head ELSE rest[i - 1]
  BY <1>2, <1>4, <1>5, ConcatProperties
<1>7. DOMAIN new = 1..Len(rest) + 1
  BY <1>6, ListFacts
<1> HIDE DEF new
<1>8. ToSet(new) = {head} \cup ToSet(rest)
  <2>1. \A i \in 1..Len(rest) : i + 1 \in DOMAIN new /\ new[i + 1] = rest[i]
    BY <1>4, <1>6, <1>7
  <2>2. 1 \in DOMAIN new /\ new[1] = head
    BY <1>4, <1>6, <1>7
  <2>3. \A i \in DOMAIN new : i = 1 \/ (i - 1 \in 1..Len(rest) /\ new[i] = rest[i - 1])
    BY <1>4, <1>6, <1>7
  <2>4. QED
    BY <1>4, <2>1, <2>2, <2>3 DEF ToSet
<1>9. \A p \in ToSet(list) : p.id = id => p = head
  BY FindUnique DEF head
<1>10. ToSet(new) = ToSet(list)
  BY <1>1, <1>2, <1>8, <1>9
<1>11. \A i \in 1..Len(rest) : rest[i].id # id
  BY <1>2, <1>4 DEF ToSet
<1>12. Unique(new)
  <2> SUFFICES ASSUME NEW i \in DOMAIN new, NEW j \in DOMAIN new, new[i].id = new[j].id
               PROVE  i = j
    BY DEF Unique
  <2>1. CASE i = 1 \/ j = 1
    BY <2>1, <1>1, <1>4, <1>6, <1>7, <1>11
  <2>2. CASE i # 1 /\ j # 1
    <3>1. /\ i - 1 \in DOMAIN rest /\ new[i] = rest[i - 1]
          /\ j - 1 \in DOMAIN rest /\ new[j] = rest[j - 1]
      BY <2>2, <1>4, <1>6, <1>7
    <3>2. i - 1 = j - 1
      BY <3>1, <1>2 DEF Unique
    <3>3. QED
      BY <3>2, <1>4, <1>7
  <2>3. QED
    BY <2>1, <2>2
<1>13. QED
  BY <1>2, <1>3, <1>4, <1>6, <1>10, <1>12

-------------------------------------------------------------------------------
(* What remember() does to the panes put away.                              *)

\* Removing a place removes that member alone.
LEMMA RemoveAtFacts ==
  ASSUME NEW list \in Seq(Pane), NEW k \in 1..Len(list)
  PROVE  /\ RemoveAt(list, k) \in Seq(Pane)
         /\ Len(RemoveAt(list, k)) = Len(list) - 1
         /\ ToSet(RemoveAt(list, k)) \subseteq ToSet(list)
         /\ \A p \in ToSet(list) : p # list[k] => p \in ToSet(RemoveAt(list, k))
         /\ Unique(list) => Unique(RemoveAt(list, k))
<1> DEFINE N == Len(list)
           left == SubSeq(list, 1, k - 1)
           right == SubSeq(list, k + 1, N)
           new == RemoveAt(list, k)
<1>1. N \in Nat /\ DOMAIN list = 1..N /\ k \in 1..N /\ \A i \in 1..N : list[i] \in Pane
  BY ListFacts
<1>2. /\ left \in Seq(Pane) /\ Len(left) = k - 1
      /\ \A i \in 1..k - 1 : left[i] = list[i]
  <2>1. \A i \in 1..k - 1 : list[i] \in Pane
    BY <1>1
  <2>2. /\ left \in Seq(Pane)
        /\ Len(left) = IF 1 <= k - 1 THEN (k - 1) - 1 + 1 ELSE 0
        /\ \A i \in 1..(k - 1) - 1 + 1 : left[i] = list[1 + i - 1]
    BY <1>1, <2>1, SubSeqProperties
  <2> HIDE DEF left
  <2>3. Len(left) = k - 1
    BY <1>1, <2>2
  <2>4. ASSUME NEW i \in 1..k - 1 PROVE left[i] = list[i]
    <3>1. i \in 1..(k - 1) - 1 + 1 /\ 1 + i - 1 = i
      BY <1>1
    <3>2. QED
      BY <2>2, <3>1
  <2>5. QED
    BY <2>2, <2>3, <2>4
<1>3. /\ right \in Seq(Pane) /\ Len(right) = N - k
      /\ \A i \in 1..N - k : right[i] = list[k + i]
  <2>1. \A i \in k + 1..N : list[i] \in Pane
    BY <1>1
  <2>2. /\ right \in Seq(Pane)
        /\ Len(right) = IF k + 1 <= N THEN N - (k + 1) + 1 ELSE 0
        /\ \A i \in 1..N - (k + 1) + 1 : right[i] = list[k + 1 + i - 1]
    BY <1>1, <2>1, SubSeqProperties
  <2> HIDE DEF right
  <2>3. Len(right) = N - k
    <3>1. CASE k = N
      <4>1. ~(k + 1 <= N) /\ N - k = 0
        BY <1>1, <3>1
      <4>2. QED
        BY <2>2, <4>1
    <3>2. CASE k < N
      <4>1. k + 1 <= N /\ N - (k + 1) + 1 = N - k
        BY <1>1, <3>2
      <4>2. QED
        BY <2>2, <4>1
    <3>3. k = N \/ k < N
      <4>1. N \in Nat /\ k \in 1..N
        BY <1>1
      <4> HIDE DEF N
      <4>2. QED
        BY ONLY <4>1
    <3>4. QED
      BY <3>1, <3>2, <3>3
  <2>4. ASSUME NEW i \in 1..N - k PROVE right[i] = list[k + i]
    <3>1. i \in 1..N - (k + 1) + 1 /\ k + 1 + i - 1 = k + i
      BY <1>1
    <3>2. QED
      BY <2>2, <3>1
  <2>5. QED
    BY <2>2, <2>3, <2>4
<1>4. new = left \o right
  BY DEF RemoveAt
<1> HIDE DEF left, right, new
<1>5. /\ new \in Seq(Pane)
      /\ Len(new) = Len(left) + Len(right)
      /\ \A i \in 1..Len(left) + Len(right) :
           new[i] = IF i <= Len(left) THEN left[i] ELSE right[i - Len(left)]
  BY <1>2, <1>3, <1>4, ConcatProperties
<1>6. Len(new) = N - 1 /\ DOMAIN new = 1..N - 1
  BY <1>1, <1>2, <1>3, <1>5, ListFacts
<1>7. ASSUME NEW i \in 1..N - 1 PROVE new[i] = IF i < k THEN list[i] ELSE list[i + 1]
  <2>1. i \in 1..Len(left) + Len(right)
    BY <1>1, <1>2, <1>3
  <2>2. CASE i < k
    BY <2>1, <2>2, <1>1, <1>2, <1>5
  <2>3. CASE ~(i < k)
    <3>1. new[i] = right[i - Len(left)] /\ i - Len(left) = i - k + 1
      BY <2>1, <2>3, <1>1, <1>2, <1>5
    <3>2. i - k + 1 \in 1..N - k /\ k + (i - k + 1) = i + 1
      BY <2>3, <1>1
    <3>3. QED
      BY <2>3, <3>1, <3>2, <1>3
  <2>4. QED
    BY <2>2, <2>3
<1>8. ToSet(new) \subseteq ToSet(list)
  BY <1>1, <1>6, <1>7 DEF ToSet
<1>9. ASSUME NEW p \in ToSet(list), p # list[k] PROVE p \in ToSet(new)
  <2>1. PICK i \in 1..N : p = list[i]
    BY <1>1 DEF ToSet
  <2>2. CASE i < k
    <3>1. i \in DOMAIN new /\ new[i] = list[i]
      BY <2>2, <1>1, <1>6, <1>7
    <3>2. QED
      BY <3>1, <2>1 DEF ToSet
  <2>3. CASE i > k
    <3>1. i - 1 \in DOMAIN new /\ new[i - 1] = list[i]
      BY <2>3, <1>1, <1>6, <1>7
    <3>2. QED
      BY <3>1, <2>1 DEF ToSet
  <2>4. QED
    BY <2>1, <2>2, <2>3, <1>9, <1>1
<1>10. ASSUME Unique(list) PROVE Unique(new)
  <2> SUFFICES ASSUME NEW i \in DOMAIN new, NEW j \in DOMAIN new, new[i].id = new[j].id
               PROVE  i = j
    BY DEF Unique
  <2> DEFINE at(n) == IF n < k THEN n ELSE n + 1
  <2>1. at(i) \in DOMAIN list /\ at(j) \in DOMAIN list
    BY <1>1, <1>6
  <2>2. new[i] = list[at(i)] /\ new[j] = list[at(j)]
    BY <1>6, <1>7
  <2>3. at(i) = at(j)
    <3> HIDE DEF at
    <3>1. QED
      BY <2>1, <2>2, <1>10 DEF Unique
  <2>4. QED
    BY <2>3, <1>1, <1>6
<1>11. QED
  BY <1>5, <1>6, <1>8, <1>9, <1>10 DEF new

\* Evict removes a pane other than the one kept.
LEMMA EvictFacts ==
  ASSUME NEW list \in Seq(Pane), NEW kept, \E i \in 1..Len(list) : list[i].id # kept
  PROVE  \E k \in 1..Len(list) :
           /\ list[k].id # kept
           /\ Evict(list, kept) = RemoveAt(list, k)
<1> DEFINE I == {i \in 1..Len(list) : list[i].id # kept}
<1>1. I \subseteq Nat /\ I # {}
  BY ListFacts
<1>2. Min(I) \in I
  <2>1. \E x \in I : \A y \in I : x <= y
    BY <1>1, LeastNumber
  <2> HIDE DEF I
  <2>2. QED
    BY <2>1 DEF Min
<1>3. Evict(list, kept) = RemoveAt(list, Min(I))
  BY <1>1, Zenon DEF Evict, RemoveFirstMatch, SelectInSeq
<1>4. QED
  BY <1>2, <1>3

\* remember() keeps the bound, the ids apart and the basis; what it adds is no input.
LEMMA RememberFacts ==
  ASSUME NEW list \in Seq(Pane), Unique(list), Len(list) <= MaxSaved,
         NEW pane \in Pane, NEW kept
  PROVE  /\ Remember(list, pane, kept) \in Seq(Pane)
         /\ Len(Remember(list, pane, kept)) <= MaxSaved
         /\ Unique(Remember(list, pane, kept))
         /\ \A p \in ToSet(Remember(list, pane, kept)) :
              \/ p \in ToSet(list) /\ (pane.kind # "input" => p.id # pane.id)
              \/ p = pane /\ pane.kind # "input"
         /\ Has(list, kept) \/ (kept = pane.id /\ pane.kind # "input")
              => Has(Remember(list, pane, kept), kept)
<1>1. CASE pane.kind = "input"
  BY <1>1 DEF Remember
<1>2. CASE pane.kind # "input"
  <2> DEFINE rest == Without(list, pane.id)
             longer == Append(rest, pane)
  <2>1. /\ rest \in Seq(Pane) /\ Len(rest) <= Len(list) /\ Unique(rest)
        /\ ToSet(rest) = {p \in ToSet(list) : p.id # pane.id}
    BY WithoutFacts
  <2> HIDE DEF rest
  <2>2. ~Has(rest, pane.id)
    BY <2>1, ListFacts
  <2>3. /\ longer \in Seq(Pane)
        /\ Len(longer) = Len(rest) + 1
        /\ ToSet(longer) = ToSet(rest) \cup {pane}
        /\ Unique(longer)
    <3>1. Put(rest, pane) = longer
      BY <2>1, <2>2, ListFacts DEF Put
    <3>2. ToSet(rest) = {p \in ToSet(rest) : p.id # pane.id}
      BY <2>1
    <3>3. /\ Put(rest, pane) \in Seq(Pane)
          /\ Len(Put(rest, pane)) = Len(rest) + 1
          /\ ToSet(Put(rest, pane)) = {p \in ToSet(rest) : p.id # pane.id} \cup {pane}
          /\ Unique(Put(rest, pane))
      BY <2>1, <2>2, PutFacts
    <3>4. QED
      BY <3>1, <3>2, <3>3
  <2> DEFINE new == Remember(list, pane, kept)
  <2> HIDE DEF longer
  <2>4. Len(list) \in Nat /\ Len(rest) \in Nat /\ Len(longer) \in Nat
    BY <2>1, <2>3, ListFacts
  <2>5. Has(list, kept) \/ kept = pane.id => \E p \in ToSet(longer) : p.id = kept
    BY <2>1, <2>3, ListFacts
  <2>6. CASE Len(longer) <= MaxSaved
    <3>1. new = longer
      BY <1>2, <2>6 DEF Remember, longer, rest
    <3>2. QED
      BY <1>2, <2>1, <2>3, <2>5, <2>6, <3>1, ListFacts
  <2>7. CASE ~(Len(longer) <= MaxSaved)
    <3>1. new = Evict(longer, kept)
      BY <1>2, <2>7 DEF Remember, longer, rest
    <3>2. Len(longer) = MaxSaved + 1 /\ Len(longer) >= 2
      BY <2>1, <2>3, <2>4, <2>7, PlacesAssumption
    <3>3. \E i \in 1..Len(longer) : longer[i].id # kept
      <4>1. 1 \in DOMAIN longer /\ 2 \in DOMAIN longer
        BY <3>2, <2>3, <2>4, ListFacts
      <4>2. longer[1].id # longer[2].id
        BY <4>1, <2>3 DEF Unique
      <4>3. QED
        BY <4>2, <3>2, <2>4
    <3>4. PICK k \in 1..Len(longer) : longer[k].id # kept /\ new = RemoveAt(longer, k)
      BY <2>3, <3>1, <3>3, EvictFacts
    <3> HIDE DEF new
    <3>5. /\ new \in Seq(Pane)
          /\ Len(new) = Len(longer) - 1
          /\ ToSet(new) \subseteq ToSet(longer)
          /\ \A p \in ToSet(longer) : p # longer[k] => p \in ToSet(new)
          /\ Unique(new)
      BY <2>3, <3>4, RemoveAtFacts
    <3>6. Len(new) <= MaxSaved
      BY <3>2, <3>5, <2>4, PlacesAssumption
    <3>7. Has(list, kept) \/ kept = pane.id => Has(new, kept)
      BY <2>5, <3>4, <3>5, ListFacts
    <3>8. QED
      BY <1>2, <2>1, <2>3, <3>5, <3>6, <3>7 DEF new
  <2>8. QED
    BY <2>6, <2>7
<1>3. QED
  BY <1>1, <1>2

-------------------------------------------------------------------------------
(* Remembering many panes, and what the artifacts are.                      *)

\* What RememberAll computes, pane by pane.
Recalled(list, more, kept, f) ==
  /\ f[0] = list
  /\ \A n \in 1..Len(more) : f[n] = Remember(f[n - 1], more[n], kept)
  /\ RememberAll(list, more, kept) = f[Len(more)]

\* RememberAll is what its recursive function computes.
LEMMA RememberAllSteps ==
  ASSUME NEW list, NEW more \in Seq(Pane), NEW kept
  PROVE  \E f : Recalled(list, more, kept, f)
<1> DEFINE N == Len(more)
           Upto(m, f) ==
             /\ f = [n \in 0..m |-> f[n]]
             /\ f[0] = list
             /\ \A n \in 1..m : f[n] = Remember(f[n - 1], more[n], kept)
           I == {m \in Nat : \E f : Upto(m, f)}
           Eqn(f) == f = [n \in 0..N |->
                            IF n = 0 THEN list ELSE Remember(f[n - 1], more[n], kept)]
<1>0. N \in Nat
  BY ListFacts
<1>1. 0 \in I
  <2> DEFINE f == [n \in 0..0 |-> list]
  <2>1. Upto(0, f)
    OBVIOUS
  <2>2. QED
    BY <2>1
<1>2. ASSUME NEW m \in Nat, NEW g, Upto(m, g)
      PROVE  \E f : Upto(m + 1, f)
  <2> DEFINE next == Remember(g[m], more[m + 1], kept)
             f == [n \in 0..m + 1 |-> IF n <= m THEN g[n] ELSE next]
  <2> HIDE DEF next
  <2>1. f = [n \in 0..m + 1 |-> f[n]]
    OBVIOUS
  <2>2. f[0] = list
    BY <1>2
  <2>3. ASSUME NEW n \in 1..m + 1
        PROVE  f[n] = Remember(f[n - 1], more[n], kept)
    <3>1. CASE n <= m
      <4>1. n \in 1..m /\ f[n] = g[n] /\ f[n - 1] = g[n - 1]
        BY <3>1
      <4>2. QED
        BY <4>1, <1>2
    <3>2. CASE n = m + 1
      <4>1. f[n] = next /\ f[n - 1] = g[m]
        BY <3>2
      <4>2. QED
        BY <4>1, <3>2 DEF next
    <3>3. QED
      BY <3>1, <3>2
  <2>4. Upto(m + 1, f)
    BY <2>1, <2>2, <2>3
  <2>5. QED
    BY <2>4
<1>3. PICK g : Upto(N, g)
  <2> HIDE DEF Upto
  <2>1. \A m \in Nat : m \in I => m + 1 \in I
    BY <1>2
  <2>2. \A m \in Nat : m \in I
    <3> HIDE DEF I
    <3>1. QED
      BY <1>1, <2>1, SetInduction
  <2>3. QED
    BY <2>2, <1>0
<1>4. Eqn(g)
  <2>1. \A n \in 0..N : g[n] = IF n = 0 THEN list ELSE Remember(g[n - 1], more[n], kept)
    <3> SUFFICES ASSUME NEW n \in 0..N
                 PROVE  g[n] = IF n = 0 THEN list ELSE Remember(g[n - 1], more[n], kept)
      OBVIOUS
    <3>1. CASE n = 0
      BY <3>1, <1>3
    <3>2. CASE n \in 1..N
      BY <3>2, <1>3
    <3>3. QED
      BY <3>1, <3>2, <1>0
  <2>2. g = [n \in 0..N |-> g[n]]
    BY <1>3
  <2>3. QED
    BY <2>1, <2>2
<1> DEFINE after == CHOOSE f : Eqn(f)
<1>5. Eqn(after)
  <2> HIDE DEF Eqn
  <2>1. QED
    BY <1>4
<1>6. RememberAll(list, more, kept) = after[N]
  BY DEF RememberAll
<1> HIDE DEF after
<1>7. \A n \in 0..N : after[n] = IF n = 0 THEN list ELSE Remember(after[n - 1], more[n], kept)
  BY <1>5
<1>8. after[0] = list /\ \A n \in 1..N : after[n] = Remember(after[n - 1], more[n], kept)
  BY <1>7, <1>0
<1>9. Recalled(list, more, kept, after)
  BY <1>6, <1>8 DEF Recalled
<1>10. QED
  BY <1>9

\* Remembering many panes keeps all that as well, and replaces what had their ids.
LEMMA RememberAllFacts ==
  ASSUME NEW list \in Seq(Pane), Unique(list), Len(list) <= MaxSaved,
         NEW more \in Seq(Pane), NEW kept
  PROVE  /\ RememberAll(list, more, kept) \in Seq(Pane)
         /\ Len(RememberAll(list, more, kept)) <= MaxSaved
         /\ Unique(RememberAll(list, more, kept))
         /\ \A p \in ToSet(RememberAll(list, more, kept)) :
              \/ p \in ToSet(list) /\ \A q \in ToSet(more) : q.kind # "input" => q.id # p.id
              \/ p \in ToSet(more) /\ p.kind # "input"
         /\ Has(list, kept) => Has(RememberAll(list, more, kept), kept)
<1> DEFINE N == Len(more)
<1>1. PICK f : Recalled(list, more, kept, f)
  BY RememberAllSteps
<1>2. /\ f[0] = list
      /\ \A n \in 1..N : f[n] = Remember(f[n - 1], more[n], kept)
      /\ RememberAll(list, more, kept) = f[N]
  BY <1>1 DEF Recalled
<1>3. N \in Nat /\ DOMAIN more = 1..N /\ \A n \in 1..N : more[n] \in Pane
  BY ListFacts
<1> DEFINE Fine(n) == f[n] \in Seq(Pane) /\ Len(f[n]) <= MaxSaved /\ Unique(f[n])
           From(n) == \A p \in ToSet(f[n]) :
                        \/ /\ p \in ToSet(list)
                           /\ \A j \in 1..n : more[j].kind # "input" => more[j].id # p.id
                        \/ \E j \in 1..n : p = more[j] /\ p.kind # "input"
           Keeps(n) == Has(list, kept) => Has(f[n], kept)
           Good(n) == Fine(n) /\ From(n) /\ Keeps(n)
           J == {n \in Nat : n <= N => Good(n)}
<1>4. 0 \in J
  <2>1. Good(0)
    BY <1>2
  <2>2. QED
    BY <2>1
<1>5. ASSUME NEW n \in Nat, Good(n), n + 1 <= N
      PROVE  Good(n + 1)
  <2> DEFINE x == more[n + 1]
  <2>1. n + 1 \in 1..N /\ (n + 1) - 1 = n /\ x \in Pane
    BY <1>3, <1>5
  <2>2. f[n + 1] = Remember(f[n], x, kept)
    BY <1>2, <2>1
  <2> HIDE DEF x
  <2>3. Fine(n) /\ From(n) /\ Keeps(n)
    BY <1>5
  <2>4. Fine(n + 1)
    BY <2>1, <2>2, <2>3, RememberFacts
  <2>5. Keeps(n + 1)
    BY <2>1, <2>2, <2>3, RememberFacts
  <2>6. From(n + 1)
    <3> SUFFICES ASSUME NEW p \in ToSet(f[n + 1])
                 PROVE  \/ /\ p \in ToSet(list)
                           /\ \A j \in 1..n + 1 : more[j].kind # "input" => more[j].id # p.id
                        \/ \E j \in 1..n + 1 : p = more[j] /\ p.kind # "input"
      OBVIOUS
    <3>1. \/ p \in ToSet(f[n]) /\ (x.kind # "input" => p.id # x.id)
          \/ p = x /\ x.kind # "input"
      BY <2>1, <2>2, <2>3, RememberFacts
    <3>2. CASE p = x /\ x.kind # "input"
      BY <3>2 DEF x
    <3>3. CASE p \in ToSet(f[n]) /\ (x.kind # "input" => p.id # x.id)
      <4>1. \/ p \in ToSet(list) /\ \A j \in 1..n : more[j].kind # "input" => more[j].id # p.id
            \/ \E j \in 1..n : p = more[j] /\ p.kind # "input"
        BY <3>3, <2>3
      <4>2. \A j \in 1..n + 1 : j \in 1..n \/ j = n + 1
        OBVIOUS
      <4>3. QED
        BY <3>3, <4>1, <4>2 DEF x
    <3>4. QED
      BY <3>1, <3>2, <3>3
  <2>7. QED
    BY <2>4, <2>5, <2>6
<1>6. Good(N)
  <2> HIDE DEF Good
  <2>1. \A n \in Nat : n \in J => n + 1 \in J
    BY <1>5, <1>3
  <2>2. N \in J
    <3> HIDE DEF J
    <3>1. QED
      BY <2>1, <1>3, <1>4, SetInduction
  <2>3. QED
    BY <2>2, <1>3
<1>7. \A p \in ToSet(f[N]) :
         \/ p \in ToSet(list) /\ \A q \in ToSet(more) : q.kind # "input" => q.id # p.id
         \/ p \in ToSet(more) /\ p.kind # "input"
  <2>1. ToSet(more) = {more[j] : j \in 1..N}
    BY <1>3 DEF ToSet
  <2>2. QED
    BY <1>6, <2>1
<1>8. QED
  BY <1>2, <1>6, <1>7

\* Two lists in a row hold what both hold.
LEMMA ConcatFacts ==
  ASSUME NEW left \in Seq(Pane), NEW right \in Seq(Pane)
  PROVE  /\ left \o right \in Seq(Pane)
         /\ ToSet(left \o right) = ToSet(left) \cup ToSet(right)
<1> DEFINE new == left \o right
<1>1. /\ Len(left) \in Nat /\ DOMAIN left = 1..Len(left)
      /\ Len(right) \in Nat /\ DOMAIN right = 1..Len(right)
  BY ListFacts
<1>2. /\ new \in Seq(Pane)
      /\ Len(new) = Len(left) + Len(right)
      /\ \A i \in 1..Len(left) + Len(right) :
           new[i] = IF i <= Len(left) THEN left[i] ELSE right[i - Len(left)]
  BY ConcatProperties
<1>3. DOMAIN new = 1..Len(left) + Len(right)
  BY <1>2, ListFacts
<1> HIDE DEF new
<1>4. ASSUME NEW p \in ToSet(new) PROVE p \in ToSet(left) \cup ToSet(right)
  <2>1. PICK i \in 1..Len(left) + Len(right) : p = new[i]
    BY <1>3, <1>4 DEF ToSet
  <2>2. CASE i <= Len(left)
    <3>1. i \in DOMAIN left /\ p = left[i]
      BY <1>1, <1>2, <2>1, <2>2
    <3>2. QED
      BY <3>1 DEF ToSet
  <2>3. CASE ~(i <= Len(left))
    <3>1. i - Len(left) \in DOMAIN right /\ p = right[i - Len(left)]
      BY <1>1, <1>2, <2>1, <2>3
    <3>2. QED
      BY <3>1 DEF ToSet
  <2>4. QED
    BY <2>2, <2>3
<1>5. ASSUME NEW p \in ToSet(left) PROVE p \in ToSet(new)
  <2>1. PICK i \in 1..Len(left) : p = left[i]
    BY <1>1, <1>5 DEF ToSet
  <2>2. i \in DOMAIN new /\ new[i] = p
    BY <1>1, <1>2, <1>3, <2>1
  <2>3. QED
    BY <2>2 DEF ToSet
<1>6. ASSUME NEW p \in ToSet(right) PROVE p \in ToSet(new)
  <2>1. PICK i \in 1..Len(right) : p = right[i]
    BY <1>1, <1>6 DEF ToSet
  <2>2. i + Len(left) \in DOMAIN new /\ new[i + Len(left)] = p
    BY <1>1, <1>2, <1>3, <2>1
  <2>3. QED
    BY <2>2 DEF ToSet
<1>7. QED
  BY <1>2, <1>4, <1>5, <1>6 DEF new

\* Changing the panes of a list where they stand, ids kept.
LEMMA MapFacts ==
  ASSUME NEW list \in Seq(Pane), NEW new, new = [i \in DOMAIN list |-> new[i]],
         \A i \in DOMAIN list : new[i] \in Pane /\ new[i].id = list[i].id
  PROVE  /\ new \in Seq(Pane)
         /\ Len(new) = Len(list)
         /\ Ids(new) = Ids(list)
         /\ ToSet(new) = {new[i] : i \in DOMAIN list}
         /\ ToSet(list) = {list[i] : i \in DOMAIN list}
         /\ Unique(list) => Unique(new)
<1>1. Len(list) \in Nat /\ DOMAIN list = 1..Len(list)
  BY ListFacts
<1>2. DOMAIN new = DOMAIN list
  OBVIOUS
<1>3. new \in [1..Len(list) -> Pane]
  BY <1>1
<1>4. new \in Seq(Pane) /\ Len(new) = Len(list)
  BY <1>1, <1>3
<1>5. QED
  BY <1>2, <1>4 DEF Ids, ToSet, Unique

\* Every pane is among the artifacts once, under its id.
LEMMA ArtifactsFacts ==
  ASSUME panes \in Seq(Pane), saved \in Seq(Pane)
  PROVE  /\ Artifacts \in Seq(Pane)
         /\ ToSet(Artifacts) \subseteq ToSet(panes) \cup ToSet(saved)
         /\ \A p \in ToSet(panes) \cup ToSet(saved) : \E a \in ToSet(Artifacts) : a.id = p.id
<1> DEFINE put == [i \in DOMAIN saved |->
                     IF Has(panes, saved[i].id) THEN Find(panes, saved[i].id) ELSE saved[i]]
           places == {i \in DOMAIN panes : ~Has(saved, panes[i].id)}
           only == Among(panes, places)
<1>1. \A i \in DOMAIN saved : saved[i] \in Pane /\ saved[i] \in ToSet(saved)
  BY ListFacts
<1>2. \A i \in DOMAIN saved : /\ put[i] \in Pane /\ put[i].id = saved[i].id
                              /\ put[i] \in ToSet(panes) \cup ToSet(saved)
  BY <1>1, FindFacts
<1>3. /\ put \in Seq(Pane) /\ ToSet(put) = {put[i] : i \in DOMAIN saved}
      /\ ToSet(saved) = {saved[i] : i \in DOMAIN saved}
  <2>1. put = [i \in DOMAIN saved |-> put[i]]
    OBVIOUS
  <2> HIDE DEF put
  <2>2. QED
    BY <1>2, <2>1, MapFacts
<1>4. only \in Seq(Pane) /\ ToSet(only) = {panes[j] : j \in places \cap 1..Len(panes)}
  <2> HIDE DEF places
  <2>1. QED
    BY AmongProperties
<1>5. DOMAIN panes = 1..Len(panes)
  BY ListFacts
<1>6. ToSet(only) = {p \in ToSet(panes) : ~Has(saved, p.id)}
  BY <1>4, <1>5 DEF ToSet
<1>7. Artifacts = put \o only
  BY DEF Artifacts
<1> HIDE DEF put, only
<1>8. Artifacts \in Seq(Pane) /\ ToSet(Artifacts) = ToSet(put) \cup ToSet(only)
  BY <1>3, <1>4, <1>7, ConcatFacts
<1>9. ASSUME NEW p \in ToSet(panes) \cup ToSet(saved)
      PROVE  \E a \in ToSet(Artifacts) : a.id = p.id
  <2>1. CASE Has(saved, p.id)
    <3>1. PICK i \in DOMAIN saved : saved[i].id = p.id
      BY <2>1 DEF Has
    <3>2. put[i] \in ToSet(Artifacts)
      BY <1>3, <1>8
    <3>3. QED
      BY <1>2, <3>1, <3>2
  <2>2. CASE ~Has(saved, p.id)
    <3>1. p \in ToSet(panes)
      BY <2>2, ListFacts
    <3>2. QED
      BY <1>6, <1>8, <2>2, <3>1
  <2>3. QED
    BY <2>1, <2>2
<1>10. QED
  BY <1>2, <1>3, <1>6, <1>8, <1>9

\* Closing the inputs leaves the other panes.
LEMMA NoInputsFacts ==
  ASSUME panes \in Seq(Pane)
  PROVE  /\ NoInputs \in Seq(Pane)
         /\ Len(NoInputs) <= Len(panes)
         /\ ToSet(NoInputs) = {p \in ToSet(panes) : p.kind # "input"}
         /\ Unique(panes) => Unique(NoInputs)
<1> DEFINE places == {i \in DOMAIN panes : panes[i].kind # "input"}
<1>1. NoInputs = Among(panes, places)
  BY DEF NoInputs
<1>2. DOMAIN panes = 1..Len(panes)
  BY ListFacts
<1>3. {panes[j] : j \in places \cap 1..Len(panes)} = {p \in ToSet(panes) : p.kind # "input"}
  BY <1>2 DEF ToSet
<1> HIDE DEF places
<1>4. QED
  BY <1>1, <1>3, AmongProperties

\* The first and the last pane of a list are in it.
LEMMA FirstIsThere ==
  ASSUME NEW list \in Seq(Pane), list # <<>>
  PROVE  Head(list).id \in Ids(list) /\ Last(list).id \in Ids(list)
<1>1. Len(list) \in Nat /\ DOMAIN list = 1..Len(list)
  BY ListFacts
<1>2. Len(list) # 0
  BY EmptySeq
<1>3. 1 \in DOMAIN list /\ Len(list) \in DOMAIN list
  BY <1>1, <1>2
<1>4. Head(list) = list[1] /\ Last(list) = list[Len(list)]
  BY DEF Last
<1>5. QED
  BY <1>3, <1>4 DEF Ids

\* A pane put into a list with a place for it, at the head or where it was.
LEMMA PlacedFacts ==
  ASSUME NEW list \in Seq(Pane), Unique(list), NEW pane \in Pane,
         IF Has(list, pane.id) THEN Len(list) <= MaxVisible ELSE Len(list) < MaxVisible,
         NEW new \in {Put(list, pane), Foreground(Put(list, pane), pane.id)}
  PROVE  /\ new \in Seq(Pane) /\ Len(new) <= MaxVisible /\ Unique(new)
         /\ ToSet(new) = {p \in ToSet(list) : p.id # pane.id} \cup {pane}
         /\ Has(new, pane.id) /\ pane.id \in Ids(new)
<1> DEFINE more == Put(list, pane)
<1>1. Len(list) \in Nat /\ MaxVisible \in Nat
  BY ListFacts, PlacesAssumption
<1>2. /\ more \in Seq(Pane) /\ Unique(more) /\ Has(more, pane.id)
      /\ Len(more) = IF Has(list, pane.id) THEN Len(list) ELSE Len(list) + 1
      /\ ToSet(more) = {p \in ToSet(list) : p.id # pane.id} \cup {pane}
  BY PutFacts
<1>3. Len(more) <= MaxVisible
  BY <1>1, <1>2
<1>4. CASE new = more
  BY <1>2, <1>3, <1>4, ListFacts
<1>5. CASE new = Foreground(more, pane.id)
  <2> HIDE DEF more
  <2>1. /\ new \in Seq(Pane) /\ Len(new) <= Len(more) /\ Unique(new)
        /\ ToSet(new) = ToSet(more)
    BY <1>2, <1>5, ForegroundFacts
  <2>2. Len(new) \in Nat /\ Len(more) \in Nat
    BY <1>2, <2>1, ListFacts
  <2>3. QED
    BY <1>1, <1>2, <1>3, <2>1, <2>2, ListFacts
<1>6. QED
  BY <1>4, <1>5

-------------------------------------------------------------------------------
(* The inductive invariant.  What logs and work say is said of sets of     *)
(* panes, so that one lemma carries it over each change of the two lists.  *)

All == ToSet(panes) \cup ToSet(saved)

\* Both lists hold each id once, and inputs are never put away.
ListsOK ==
  /\ panes \in Seq(Pane) /\ Len(panes) <= MaxVisible /\ Unique(panes)
  /\ saved \in Seq(Pane) /\ Len(saved) <= MaxSaved /\ Unique(saved)
  /\ \A p \in ToSet(saved) : p.kind # "input"

\* A basis belongs to a running job and has been remembered.
PointersOK ==
  /\ phase \in {"idle", "running", "waiting", "error"}
  /\ focus \in Ids(panes) \cup {Agent}
  /\ basis # NoPane => turn # NoTurn /\ basis \in Ids(saved)

\* What panes S say of jobs while job t with basis b is running.
Works(S, t, b) ==
  /\ \A p \in S : WellFormed(p) /\ (p.job # NoTurn <=> p.work # "none")
  /\ \A p \in S : p.work = "working" => t # NoTurn /\ p.job = t /\ p.id = b
  /\ b # NoPane => \A p \in S : p.id = b => p.job = t

\* What a log says of its run.
LogTrue(p, rs, t) ==
  LET r == rs[p.run]
  IN  /\ p.run \in Run
      /\ r.at # "unused"
      /\ p.ended => p.code \in {r.code, "unknown"} /\ r.at \in {"exited", "over"}
      /\ ~p.ended => r.at = "open" \/ (r.gated /\ t # r.job)
      /\ r.at = "open" => p.id = r.pane

\* Two copies of a log tell the same.
SameLog(p, q) ==
  q.kind = "terminal" /\ q.run = p.run /\ q.ended = p.ended /\ q.code = p.code

\* What panes S say of the runs rs while job t is running.
Logs(S, rs, t) ==
  /\ \A p \in S : p.kind = "terminal" => LogTrue(p, rs, t)
  /\ \A p, q \in S : p.id = q.id /\ p.kind = "terminal" => SameLog(p, q)

\* Runs belong to jobs that were begun; those a review may cite are over, and no other
\* job has begun since.
RunsOK ==
  /\ turn # NoTurn => turn \in spent
  /\ runs \in [Run -> RunState]
  /\ \A r \in Run : runs[r].at # "unused" => runs[r].job \in spent
  /\ \A r \in Run : runs[r].at \in {"started", "open"} =>
                      runs[r].pane \in PaneId /\ "terminal" \in Kinds
  /\ reviewRuns \subseteq Run
  /\ \A r \in reviewRuns : runs[r].at = "over" /\ turn \in {NoTurn, runs[r].job}

PanesIInv ==
  /\ FloorTypeOK
  /\ ListsOK
  /\ PointersOK
  /\ Works(All, turn, basis)
  /\ Logs(All, runs, turn)
  /\ RunsOK

\* What a step may do to the logs in S, and to what the reviews in S say.
LogsKept(S, T) ==
  \A p \in S, q \in T : p.kind = "terminal" /\ q.id = p.id =>
    /\ q.kind = "terminal"
    /\ q.run = p.run /\ p.ended => q.ended /\ q.code = p.code

Earned(S, T) ==
  \A q \in T : q.check = "passed" =>
    \/ \E p \in S : p.id = q.id /\ p.cites = q.cites /\ p.check = "passed"
    \/ /\ runs[q.cites].at = "over" /\ runs[q.cites].code = "ok"
       /\ turn \in {NoTurn, runs[q.cites].job}

\* What every step has to show.
Kept == PanesIInv' /\ LogsKept(All, All') /\ Earned(All, All')

Remarks(q, p) == q.id = p.id /\ q.cites = p.cites /\ q.check = p.check
LogAlike(q, p) ==
  q.id = p.id /\ q.kind = p.kind /\ q.run = p.run /\ q.ended = p.ended /\ q.code = p.code
WorkAlike(q, p) ==
  /\ Remarks(q, p)
  /\ q.kind = p.kind /\ q.run = p.run /\ q.job = p.job /\ q.work = p.work
Alike(q, p) == LogAlike(q, p) /\ WorkAlike(q, p)

\* Copies tell what their originals told.
LEMMA LogsOfCopies ==
  ASSUME NEW S, NEW T, NEW rs, NEW t, Logs(S, rs, t), \A q \in T : \E p \in S : LogAlike(q, p)
  PROVE  Logs(T, rs, t) /\ LogsKept(S, T)
<1>1. ASSUME NEW q \in T, q.kind = "terminal" PROVE LogTrue(q, rs, t)
  <2>1. PICK p \in S : LogAlike(q, p)
    OBVIOUS
  <2>2. LogTrue(p, rs, t)
    BY <1>1, <2>1 DEF Logs, LogAlike
  <2>3. QED
    BY <2>1, <2>2 DEF LogTrue, LogAlike
<1>2. ASSUME NEW p \in T, NEW q \in T, p.id = q.id, p.kind = "terminal" PROVE SameLog(p, q)
  <2>1. PICK p0 \in S : LogAlike(p, p0)
    OBVIOUS
  <2>2. PICK q0 \in S : LogAlike(q, q0)
    OBVIOUS
  <2>3. SameLog(p0, q0)
    BY <1>2, <2>1, <2>2 DEF Logs, LogAlike
  <2>4. QED
    BY <2>1, <2>2, <2>3 DEF SameLog, LogAlike
<1>3. ASSUME NEW p \in S, NEW q \in T, p.kind = "terminal", q.id = p.id
      PROVE  SameLog(p, q)
  <2>1. PICK q0 \in S : LogAlike(q, q0)
    OBVIOUS
  <2>2. SameLog(p, q0)
    BY <1>3, <2>1 DEF Logs, LogAlike
  <2>3. QED
    BY <2>1, <2>2 DEF SameLog, LogAlike
<1>4. LogsKept(S, T)
  BY <1>3 DEF LogsKept, SameLog
<1>5. QED
  BY <1>1, <1>2, <1>4 DEF Logs

\* So it is with their work.
LEMMA WorksOfCopies ==
  ASSUME NEW S, NEW T, NEW t, NEW b, Works(S, t, b), \A q \in T : \E p \in S : WorkAlike(q, p)
  PROVE  Works(T, t, b) /\ Earned(S, T)
  BY DEF Works, Earned, WellFormed, WorkAlike, Remarks

\* A job that ends, or another than a log's, leaves the log as true as it was.
LEMMA LogsOfOtherJob ==
  ASSUME NEW S, NEW rs, NEW t, NEW u, Logs(S, rs, t),
         \A r \in Run : rs[r].at # "unused" => u # rs[r].job
  PROVE  Logs(S, rs, u)
  BY DEF Logs, LogTrue

\* What the invariant says of lists and ids.
LEMMA FindIn ==
  ASSUME ListsOK, NEW id, Known(id)
  PROVE  /\ Current(id) \in All /\ Current(id) \in Pane /\ Current(id).id = id
         /\ Visible(id) => Current(id) \in ToSet(panes) /\ Current(id) = Find(panes, id)
         /\ ~Visible(id) => Current(id) \in ToSet(saved)
  BY FindFacts DEF ListsOK, Known, Visible, Current, All

\* A basis is known, and is the running job's context.
LEMMA BasisIsKnown ==
  ASSUME PanesIInv, basis # NoPane
  PROVE  /\ Known(basis) /\ Current(basis).job = turn /\ turn # NoTurn
         /\ HasContext /\ Context.id = basis
<1>1. ListsOK /\ PointersOK /\ Works(All, turn, basis)
  BY DEF PanesIInv
<1>2. Known(basis)
  BY <1>1, ListFacts DEF Known, PointersOK, ListsOK
<1>3. QED
  BY <1>1, <1>2, FindIn DEF Works, PointersOK, HasContext, Context

\* The invariant implies what the runs check.
LEMMA PanesInvFollows == PanesIInv => PanesInv
<1> SUFFICES ASSUME PanesIInv
             PROVE  PanesInv
  OBVIOUS
<1>1. ListsOK /\ PointersOK /\ Works(All, turn, basis) /\ Logs(All, runs, turn) /\ RunsOK /\ FloorTypeOK
  BY DEF PanesIInv
<1>2. Ids(panes) \subseteq PaneId /\ Ids(saved) \subseteq PaneId
  <2>1. \A p \in Pane : p.id \in PaneId
    BY DEF Pane
  <2>2. ToSet(panes) \subseteq Pane /\ Ids(panes) = {p.id : p \in ToSet(panes)}
        /\ ToSet(saved) \subseteq Pane /\ Ids(saved) = {p.id : p \in ToSet(saved)}
    BY <1>1, ListFacts DEF ListsOK
  <2>3. QED
    BY <2>1, <2>2
<1>3. PanesTypeOK
  BY <1>1, <1>2 DEF PanesTypeOK, ListsOK, PointersOK, RunsOK
<1>4. OneBasis
  BY <1>1 DEF OneBasis, Works, All
<1>5. BasisKept
  BY BasisIsKnown DEF BasisKept
<1>6. FocusVisible
  BY <1>1 DEF FocusVisible, PointersOK
<1>7. LogsHonest
  <2>1. \A p \in ToSet(panes), q \in ToSet(saved) :
          p.kind = "terminal" /\ q.id = p.id => SameLog(p, q)
    BY <1>1 DEF Logs, All
  <2>2. \A p \in All : p.kind = "terminal" => LogTrue(p, runs, turn)
    BY <1>1 DEF Logs
  <2>3. QED
    BY <2>1, <2>2 DEF LogsHonest, SameLog, LogTrue, All, Dropped
<1>8. Storable
  <2>1. NoInputs \in Seq(Pane) /\ Len(NoInputs) <= Len(panes)
        /\ \A p \in ToSet(NoInputs) : p \in ToSet(panes) /\ p.kind # "input"
    BY <1>1, NoInputsFacts DEF ListsOK
  <2>2. Len(NoInputs) <= MaxVisible
    BY <1>1, <2>1, ListFacts, PlacesAssumption DEF ListsOK
  <2>3. QED
    BY <1>1, <2>1, <2>2 DEF Storable, Accepts, ListsOK, Works, All
<1>9. QED
  BY <1>3, <1>4, <1>5, <1>6, <1>7, <1>8 DEF PanesInv

-------------------------------------------------------------------------------
(* Steps that only move panes and mark them.                                *)

\* Copies that differ in their marks alone, with the basis remembered, are all such a step
\* has to show.
LEMMA CopiesKeep ==
  ASSUME PanesIInv, UNCHANGED <<floorVars, basis, reviewRuns, runs>>,
         SyncPhase \/ phase' = phase, ListsOK', focus' \in Ids(panes') \cup {Agent},
         Has(saved, basis) => Has(saved', basis),
         \A q \in All' : \E p \in All : Alike(q, p)
  PROVE  Kept
<1>1. FloorTypeOK /\ ListsOK /\ PointersOK /\ RunsOK
  BY DEF PanesIInv
<1>2. turn' = turn /\ spent' = spent /\ FloorTypeOK'
  BY <1>1 DEF floorVars, FloorTypeOK
<1>3. RunsOK'
  BY <1>1, <1>2 DEF RunsOK
<1>4. PointersOK'
  <2>1. phase' \in {"idle", "running", "waiting", "error"}
    BY <1>1 DEF PointersOK, SyncPhase
  <2>2. basis # NoPane => turn # NoTurn /\ basis \in Ids(saved')
    BY <1>1, ListFacts DEF PointersOK, ListsOK
  <2>3. QED
    BY <1>2, <2>1, <2>2 DEF PointersOK
<1>5. Works(All', turn, basis) /\ Earned(All, All')
  <2>1. Works(All, turn, basis) /\ \A q \in All' : \E p \in All : WorkAlike(q, p)
    BY DEF PanesIInv, Alike
  <2>2. QED
    BY <2>1, WorksOfCopies
<1>6. Logs(All', runs, turn) /\ LogsKept(All, All')
  <2>1. Logs(All, runs, turn) /\ \A q \in All' : \E p \in All : LogAlike(q, p)
    BY DEF PanesIInv, Alike
  <2>2. QED
    BY <2>1, LogsOfCopies
<1>7. QED
  BY <1>1, <1>2, <1>3, <1>4, <1>5, <1>6 DEF Kept, PanesIInv

\* Showing a pane, or keeping it by hand.
LEMMA ShowKeeps ==
  ASSUME PanesIInv, NEW id, NEW byHand, Show(id, byHand)
  PROVE  Kept
<1> DEFINE cur == Current(id)
           shown == Foreground(Put(panes, cur), id)
           kept == [cur EXCEPT !.manual = TRUE]
<1>1. ListsOK
  BY DEF PanesIInv
<1>2. Known(id) /\ (Visible(id) \/ Len(panes) < MaxVisible) /\ focus' = id
  BY DEF Show
<1>3. cur \in All /\ cur \in Pane /\ cur.id = id
  BY <1>1, <1>2, FindIn
<1>4. /\ shown \in Seq(Pane) /\ Len(shown) <= MaxVisible /\ Unique(shown)
      /\ ToSet(shown) \subseteq ToSet(panes) \cup {cur}
      /\ Has(shown, id) /\ id \in Ids(shown)
  <2> HIDE DEF cur
  <2>1. IF Has(panes, cur.id) THEN Len(panes) <= MaxVisible ELSE Len(panes) < MaxVisible
    BY <1>1, <1>2, <1>3 DEF ListsOK, Visible
  <2>2. shown \in {Put(panes, cur), Foreground(Put(panes, cur), cur.id)}
    BY <1>3
  <2> HIDE DEF shown
  <2>3. /\ shown \in Seq(Pane) /\ Len(shown) <= MaxVisible /\ Unique(shown)
        /\ ToSet(shown) = {p \in ToSet(panes) : p.id # cur.id} \cup {cur}
        /\ Has(shown, cur.id) /\ cur.id \in Ids(shown)
    BY <1>1, <1>3, <2>1, <2>2, PlacedFacts DEF ListsOK
  <2>4. QED
    BY <1>3, <2>3
<1>5. kept \in Pane /\ kept.id = id /\ Alike(kept, cur) /\ kept.kind = cur.kind
  BY <1>3 DEF Pane, Alike, LogAlike, WorkAlike, Remarks
<1> HIDE DEF cur, shown, kept
<1>6. \A p : Alike(p, p)
  BY DEF Alike, LogAlike, WorkAlike, Remarks
<1>7. /\ ListsOK' /\ id \in Ids(panes')
      /\ Has(saved, basis) => Has(saved', basis)
      /\ \A q \in All' : q \in All \/ q = cur \/ q = kept
  <2>1. CASE byHand
    <3>1. panes' = Update(shown, kept) /\ saved' = Remember(saved, kept, basis) /\ kept.kind # "input"
      BY <1>5, <2>1 DEF Show, shown, cur, kept
    <3>2. /\ panes' \in Seq(Pane) /\ Len(panes') <= MaxVisible /\ Unique(panes')
          /\ ToSet(panes') = {p \in ToSet(shown) : p.id # id} \cup {kept}
      BY <1>4, <1>5, <3>1, UpdateFacts
    <3>3. /\ saved' \in Seq(Pane) /\ Len(saved') <= MaxSaved /\ Unique(saved')
          /\ \A p \in ToSet(saved') : p \in ToSet(saved) \/ p = kept
          /\ Has(saved, basis) => Has(saved', basis)
          /\ \A p \in ToSet(saved') : p.kind # "input"
      BY <1>1, <1>5, <3>1, RememberFacts DEF ListsOK
    <3>4. id \in Ids(panes')
      BY <1>5, <3>2, ListFacts
    <3>5. QED
      BY <1>4, <3>2, <3>3, <3>4 DEF ListsOK, All
  <2>2. CASE ~byHand
    <3>1. panes' = shown /\ saved' = saved
      BY <2>2 DEF Show, shown, cur, kept
    <3>2. QED
      BY <1>1, <1>4, <3>1 DEF ListsOK, All
  <2>3. QED
    BY <2>1, <2>2
<1>8. \A q \in All' : \E p \in All : Alike(q, p)
  BY <1>3, <1>5, <1>6, <1>7
<1>9. UNCHANGED <<floorVars, basis, reviewRuns, runs>> /\ SyncPhase
  BY DEF Show
<1>10. QED
  BY <1>2, <1>7, <1>8, <1>9, CopiesKeep

\* Putting a pane away.
LEMMA CloseKeeps ==
  ASSUME PanesIInv, NEW id, Close(id)
  PROVE  Kept
<1> DEFINE pane == Find(panes, id)
<1>1. ListsOK /\ PointersOK
  BY DEF PanesIInv
<1>2. /\ Visible(id) /\ saved' = Remember(saved, pane, basis) /\ panes' = Without(panes, id)
      /\ focus' = FocusOr(Head(panes').id)
  BY DEF Close
<1>3. pane \in ToSet(panes) /\ pane \in Pane
  BY <1>1, <1>2, FindFacts DEF ListsOK, Visible
<1> HIDE DEF pane
<1>4. /\ saved' \in Seq(Pane) /\ Len(saved') <= MaxSaved /\ Unique(saved')
      /\ \A p \in ToSet(saved') : p \in ToSet(saved) \/ (p = pane /\ pane.kind # "input")
      /\ Has(saved, basis) => Has(saved', basis)
  BY <1>1, <1>2, <1>3, RememberFacts DEF ListsOK
<1>5. /\ panes' \in Seq(Pane) /\ Len(panes') <= Len(panes) /\ Unique(panes')
      /\ ToSet(panes') = {p \in ToSet(panes) : p.id # id}
  BY <1>1, <1>2, WithoutFacts DEF ListsOK
<1>6. ListsOK'
  <2>1. Len(panes') \in Nat /\ Len(panes) \in Nat /\ MaxVisible \in Nat
    BY <1>1, <1>5, ListFacts, PlacesAssumption DEF ListsOK
  <2>2. QED
    BY <1>1, <1>4, <1>5, <2>1 DEF ListsOK
<1>7. \A q \in All' : q \in All
  BY <1>3, <1>4, <1>5 DEF All
<1>8. focus' \in Ids(panes') \cup {Agent}
  BY <1>1, <1>2, <1>5, FirstIsThere DEF FocusOr
<1>9. \A q \in All' : \E p \in All : Alike(q, p)
  BY <1>7 DEF Alike, LogAlike, WorkAlike, Remarks
<1>10. UNCHANGED <<floorVars, basis, reviewRuns, runs>> /\ SyncPhase
  BY DEF Close
<1>11. QED
  BY <1>4, <1>6, <1>8, <1>9, <1>10, CopiesKeep

\* Bringing a pane to the front.
LEMMA FocusKeeps ==
  ASSUME PanesIInv, NEW id, Focus(id)
  PROVE  Kept
<1>1. ListsOK
  BY DEF PanesIInv
<1>2. Has(panes, id) /\ panes' = Foreground(panes, id) /\ saved' = saved /\ focus' = id
  BY DEF Focus, Visible
<1>3. /\ panes' \in Seq(Pane) /\ Len(panes') <= Len(panes) /\ Unique(panes')
      /\ ToSet(panes') = ToSet(panes)
  BY <1>1, <1>2, ForegroundFacts DEF ListsOK
<1>4. ListsOK'
  <2>1. Len(panes') \in Nat /\ Len(panes) \in Nat /\ MaxVisible \in Nat
    BY <1>1, <1>3, ListFacts, PlacesAssumption DEF ListsOK
  <2>2. QED
    BY <1>1, <1>2, <1>3, <2>1 DEF ListsOK
<1>5. id \in Ids(panes')
  BY <1>1, <1>2, <1>3, ListFacts DEF ListsOK
<1>6. \A q \in All' : q \in All
  BY <1>2, <1>3 DEF All
<1>7. \A q \in All' : \E p \in All : Alike(q, p)
  BY <1>6 DEF Alike, LogAlike, WorkAlike, Remarks
<1>8. UNCHANGED <<floorVars, basis, reviewRuns, runs>> /\ SyncPhase
  BY DEF Focus
<1>9. QED
  BY <1>2, <1>4, <1>5, <1>7, <1>8, CopiesKeep

\* Bringing the agent to the front.
LEMMA FocusAgentKeeps ==
  ASSUME PanesIInv, FocusAgent
  PROVE  Kept
<1>1. /\ panes' = panes /\ saved' = saved /\ focus' = Agent
      /\ UNCHANGED <<floorVars, basis, reviewRuns, runs>> /\ SyncPhase
  BY DEF FocusAgent
<1>2. ListsOK'
  BY <1>1 DEF ListsOK, PanesIInv
<1>3. \A q \in All' : \E p \in All : Alike(q, p)
  BY <1>1 DEF All, Alike, LogAlike, WorkAlike, Remarks
<1>4. QED
  BY <1>1, <1>2, <1>3, CopiesKeep

-------------------------------------------------------------------------------
(* The events of a command.                                                 *)

\* The floor, and the types of the runs, while no job begins or ends.
LEMMA SameJob ==
  ASSUME PanesIInv, UNCHANGED floorVars
  PROVE  FloorTypeOK' /\ turn' = turn /\ spent' = spent
  BY DEF PanesIInv, FloorTypeOK, floorVars

\* One run goes on.
LEMMA RunGoesOn ==
  ASSUME RunsOK, NEW r \in Run, NEW now \in RunState, runs' = [runs EXCEPT ![r] = now],
         turn' = turn, spent' = spent, now.job \in spent,
         now.at \in {"started", "open"} => now.pane \in PaneId /\ "terminal" \in Kinds,
         reviewRuns' = reviewRuns \/ reviewRuns' = reviewRuns \cup {r},
         r \in reviewRuns' => now.at = "over" /\ turn \in {NoTurn, now.job}
  PROVE  RunsOK' /\ runs'[r] = now /\ \A o \in Run \ {r} : runs'[o] = runs[o]
  BY DEF RunsOK

\* A command starts: no log is its yet.
LEMMA StartRunKeeps ==
  ASSUME PanesIInv, NEW r \in Run, NEW id \in PaneId, NEW gated \in BOOLEAN, StartRun(r, id, gated)
  PROVE  Kept
<1> DEFINE now == [at |-> "started", job |-> turn, pane |-> id, gated |-> gated, code |-> "none"]
<1>1. FloorTypeOK' /\ turn' = turn /\ spent' = spent
  BY SameJob DEF StartRun
<1>2. /\ turn # NoTurn /\ "terminal" \in Kinds
      /\ runs[r].at = "unused" /\ runs' = [runs EXCEPT ![r] = now]
      /\ UNCHANGED <<panes, saved, focus, basis, phase, reviewRuns>>
  BY DEF StartRun
<1>3. FloorTypeOK /\ RunsOK
  BY DEF PanesIInv
<1>4. now \in RunState /\ now.job \in spent /\ now.pane \in PaneId /\ r \notin reviewRuns
  BY <1>2, <1>3 DEF RunState, FloorTypeOK, RunsOK
<1> HIDE DEF now
<1>5. RunsOK' /\ \A o \in Run \ {r} : runs'[o] = runs[o]
  BY <1>1, <1>2, <1>3, <1>4, RunGoesOn
<1>6. All' = All
  BY <1>2 DEF All
<1>7. Logs(All, runs', turn) /\ LogsKept(All, All)
  <2>1. Logs(All, runs, turn)
    BY DEF PanesIInv
  <2>2. \A p \in All : p.kind = "terminal" => p.run \in Run \ {r}
    BY <1>2, <2>1 DEF Logs, LogTrue
  <2>3. QED
    BY <1>5, <2>1, <2>2 DEF Logs, LogTrue, LogsKept, SameLog
<1>8. ListsOK' /\ PointersOK' /\ Works(All, turn, basis) /\ Earned(All, All)
  BY <1>1, <1>2 DEF PanesIInv, ListsOK, PointersOK, Earned
<1>9. QED
  BY <1>1, <1>2, <1>5, <1>6, <1>7, <1>8 DEF Kept, PanesIInv

\* recordReviewRun touches no pane: the logs of the run are closed or cut off.
LEMMA RecordRunKeeps ==
  ASSUME PanesIInv, NEW r \in Run, RecordRun(r)
  PROVE  Kept
<1> DEFINE now == Gone(r, runs[r].code)
<1>1. FloorTypeOK' /\ turn' = turn /\ spent' = spent
  BY SameJob DEF RecordRun
<1>2. /\ runs[r].at = "exited" /\ runs' = [runs EXCEPT ![r] = now]
      /\ UNCHANGED <<panes, saved, focus, basis, phase>>
      /\ reviewRuns' = IF Citable(r) THEN reviewRuns \cup {r} ELSE reviewRuns
  BY DEF RecordRun
<1>3. FloorTypeOK /\ RunsOK
  BY DEF PanesIInv
<1>4. runs[r] \in RunState /\ runs[r].job \in spent
  BY <1>2, <1>3 DEF RunsOK
<1>5. /\ now \in RunState /\ now.at = "over" /\ now.job = runs[r].job
      /\ now.gated = runs[r].gated /\ now.code = runs[r].code
  BY <1>4 DEF Gone, RunState
<1> HIDE DEF now
<1>6. r \in reviewRuns' => turn \in {NoTurn, now.job}
  BY <1>2, <1>3, <1>5 DEF RunsOK, Citable
<1>7. RunsOK' /\ runs'[r] = now /\ \A o \in Run \ {r} : runs'[o] = runs[o]
  <2>1. reviewRuns' = reviewRuns \/ reviewRuns' = reviewRuns \cup {r}
    BY <1>2
  <2>2. QED
    BY <1>1, <1>2, <1>3, <1>4, <1>5, <1>6, <2>1, RunGoesOn
<1>8. All' = All
  BY <1>2 DEF All
<1>9. Logs(All, runs', turn) /\ LogsKept(All, All)
  <2>1. Logs(All, runs, turn)
    BY DEF PanesIInv
  <2>2. ASSUME NEW p \in All, p.kind = "terminal" PROVE LogTrue(p, runs', turn)
    <3>1. LogTrue(p, runs, turn)
      BY <2>1, <2>2 DEF Logs
    <3>2. CASE p.run = r
      BY <1>2, <1>5, <1>7, <3>1, <3>2 DEF LogTrue
    <3>3. CASE p.run # r
      BY <1>7, <3>1, <3>3 DEF LogTrue
    <3>4. QED
      BY <3>2, <3>3
  <2>3. QED
    BY <2>1, <2>2 DEF Logs, LogsKept, SameLog
<1>10. ListsOK' /\ PointersOK' /\ Works(All, turn, basis) /\ Earned(All, All)
  BY <1>1, <1>2 DEF PanesIInv, ListsOK, PointersOK, Earned
<1>11. QED
  BY <1>1, <1>2, <1>7, <1>8, <1>9, <1>10 DEF Kept, PanesIInv

\* A log is written where it stands, and to the end of what is put away.
LEMMA WriteLogFacts ==
  ASSUME ListsOK, NEW log \in Pane, log.kind = "terminal", WriteLog(log)
  PROVE  /\ ListsOK'
         /\ Ids(panes') = Ids(panes)
         /\ Has(saved, basis) => Has(saved', basis)
         /\ \A q \in All' : (q \in All /\ q.id # log.id) \/ q = log
<1>1. panes' = Update(panes, log) /\ saved' = Remember(saved, log, basis)
  BY DEF WriteLog
<1>2. /\ panes' \in Seq(Pane) /\ Len(panes') = Len(panes) /\ Unique(panes')
      /\ ToSet(panes') = {p \in ToSet(panes) : p.id # log.id}
                           \cup (IF Has(panes, log.id) THEN {log} ELSE {})
  BY <1>1, UpdateFacts DEF ListsOK
<1>3. /\ saved' \in Seq(Pane) /\ Len(saved') <= MaxSaved /\ Unique(saved')
      /\ \A p \in ToSet(saved') : (p \in ToSet(saved) /\ p.id # log.id) \/ p = log
      /\ Has(saved, basis) => Has(saved', basis)
  BY <1>1, RememberFacts DEF ListsOK
<1>4. Ids(panes') = Ids(panes)
  <2>1. Ids(panes) = {p.id : p \in ToSet(panes)} /\ Ids(panes') = {p.id : p \in ToSet(panes')}
        /\ (Has(panes, log.id) <=> log.id \in Ids(panes))
    BY <1>2, ListFacts DEF ListsOK
  <2>2. QED
    BY <1>2, <2>1
<1>5. QED
  BY <1>2, <1>3, <1>4 DEF ListsOK, All

\* The log an event may change is one of the panes.
LEMMA LogOfFacts ==
  ASSUME PanesIInv, NEW r, NEW p \in LogOf(r)
  PROVE  p \in All /\ p \in Pane /\ p.kind = "terminal" /\ p.run = r /\ ~p.ended
  BY FindIn DEF LogOf, PanesIInv

\* Output changes nothing but the log's place among what is put away.
LEMMA AppendLogKeeps ==
  ASSUME PanesIInv, NEW r \in Run, AppendLog(r)
  PROVE  Kept
<1>1. PICK p \in LogOf(r) : WriteLog(p)
  BY DEF AppendLog
<1>2. p \in All /\ p \in Pane /\ p.kind = "terminal"
  BY LogOfFacts
<1>3. ListsOK /\ PointersOK
  BY DEF PanesIInv
<1>4. /\ ListsOK' /\ Ids(panes') = Ids(panes)
      /\ Has(saved, basis) => Has(saved', basis)
      /\ \A q \in All' : (q \in All /\ q.id # p.id) \/ q = p
  BY <1>1, <1>2, <1>3, WriteLogFacts
<1>5. \A q \in All' : \E o \in All : Alike(q, o)
  BY <1>2, <1>4 DEF Alike, LogAlike, WorkAlike, Remarks
<1>6. focus' \in Ids(panes') \cup {Agent} /\ phase' = phase
      /\ UNCHANGED <<floorVars, basis, reviewRuns, runs>>
  BY <1>3, <1>4 DEF AppendLog, PointersOK
<1>7. QED
  BY <1>4, <1>5, <1>6, CopiesKeep

\* The exit is told by every copy of the run's log, or there is none that could tell it.
LEMMA ExitLogKeeps ==
  ASSUME PanesIInv, NEW r \in Run, NEW code \in {"ok", "bad", "unknown"}, ExitLog(r, code)
  PROVE  Kept
<1> DEFINE now == [runs[r] EXCEPT !.at = "exited", !.code = code]
           told == runs[r].at = "open" /\ ~Dropped(r) /\ LogOf(r) # {}
<1>1. FloorTypeOK' /\ turn' = turn /\ spent' = spent
  BY SameJob DEF ExitLog
<1>2. /\ runs[r].at \in {"started", "open"} /\ UNCHANGED <<focus, basis, phase, reviewRuns>>
      /\ runs' = [runs EXCEPT ![r].at = "exited", ![r].code = code]
      /\ IF told THEN \E p \in LogOf(r) : WriteLog(Exited(p, code)) ELSE UNCHANGED <<panes, saved>>
  BY DEF ExitLog
<1>3. RunsOK /\ ListsOK /\ PointersOK /\ Works(All, turn, basis) /\ Logs(All, runs, turn)
  BY DEF PanesIInv
<1>4. runs[r] \in RunState /\ runs[r].job \in spent /\ runs \in [Run -> RunState] /\ r \notin reviewRuns
  BY <1>2, <1>3 DEF RunsOK
<1>5. /\ now \in RunState /\ now.at = "exited" /\ now.code = code
      /\ now.job = runs[r].job /\ now.gated = runs[r].gated
  BY <1>4 DEF RunState
<1>6. runs' = [runs EXCEPT ![r] = now]
  BY <1>2, <1>4 DEF RunState
<1> HIDE DEF now
<1>7. RunsOK' /\ runs'[r] = now /\ \A o \in Run \ {r} : runs'[o] = runs[o]
  BY <1>1, <1>2, <1>3, <1>4, <1>5, <1>6, RunGoesOn
<1>8. \* What was not written before this exit is cut off, or another run's.
      ASSUME NEW p \in All, p.kind = "terminal", p.run = r => Dropped(r)
      PROVE  LogTrue(p, runs', turn)
  <2>1. LogTrue(p, runs, turn)
    BY <1>3, <1>8 DEF Logs
  <2>2. CASE p.run = r
    BY <1>2, <1>5, <1>7, <1>8, <2>1, <2>2 DEF LogTrue, Dropped
  <2>3. CASE p.run # r
    BY <1>7, <2>1, <2>3 DEF LogTrue
  <2>4. QED
    BY <2>2, <2>3
<1>9. CASE told
  <2>1. PICK p \in LogOf(r) : WriteLog(Exited(p, code))
    BY <1>2, <1>9
  <2> DEFINE log == Exited(p, code)
  <2>2. p \in All /\ p \in Pane /\ p.kind = "terminal" /\ p.run = r /\ ~p.ended
    BY LogOfFacts
  <2>3. /\ log \in Pane /\ log.kind = "terminal" /\ log.id = p.id /\ log.run = r
        /\ log.ended /\ log.code = code /\ WorkAlike(log, p)
    BY <2>2 DEF Exited, Pane, WorkAlike, Remarks
  <2>4. WriteLog(log)
    BY <2>1
  <2> HIDE DEF log
  <2>5. /\ ListsOK' /\ Ids(panes') = Ids(panes)
        /\ Has(saved, basis) => Has(saved', basis)
        /\ \A q \in All' : (q \in All /\ q.id # log.id) \/ q = log
    BY <1>3, <2>3, <2>4, WriteLogFacts
  <2>6. p.id = runs[r].pane
    BY <1>3, <1>9, <2>2 DEF Logs, LogTrue
  <2>7. LogTrue(log, runs', turn)
    BY <1>5, <1>7, <2>3 DEF LogTrue
  <2>8. ASSUME NEW q \in All', q.kind = "terminal" PROVE LogTrue(q, runs', turn)
    <3>1. CASE q = log
      BY <2>7, <3>1
    <3>2. CASE q \in All /\ q.id # log.id
      <4>1. LogTrue(q, runs, turn)
        BY <1>3, <2>8, <3>2 DEF Logs
      <4>2. q.run # r
        BY <1>9, <2>3, <2>6, <3>2, <4>1 DEF LogTrue
      <4>3. QED
        BY <1>8, <2>8, <3>2, <4>2
    <3>3. QED
      BY <2>5, <3>1, <3>2
  <2>9. \A q, o \in All' : q.id = o.id /\ q.kind = "terminal" => SameLog(q, o)
    BY <1>3, <2>3, <2>5 DEF Logs, SameLog
  <2>10. Logs(All', runs', turn)
    BY <2>8, <2>9 DEF Logs
  <2>11. LogsKept(All, All')
    BY <1>3, <2>2, <2>3, <2>5 DEF Logs, SameLog, LogsKept
  <2>12. \A q \in All' : \E o \in All : WorkAlike(q, o)
    BY <2>2, <2>3, <2>5 DEF WorkAlike, Remarks
  <2>13. Works(All', turn, basis) /\ Earned(All, All')
    BY <1>3, <2>12, WorksOfCopies
  <2>14. PointersOK'
    BY <1>1, <1>2, <1>3, <2>5, ListFacts DEF PointersOK, ListsOK
  <2>15. QED
    BY <1>1, <1>2, <1>7, <2>5, <2>10, <2>11, <2>13, <2>14 DEF Kept, PanesIInv
<1>10. CASE ~told
  <2>1. All' = All /\ panes' = panes /\ saved' = saved
    BY <1>2, <1>10 DEF All
  <2>2. ASSUME NEW p \in All, p.kind = "terminal", p.run = r PROVE p.ended \/ Dropped(r)
    <3> SUFFICES ASSUME ~p.ended, ~Dropped(r) PROVE FALSE
      OBVIOUS
    <3>1. LogTrue(p, runs, turn)
      BY <1>3, <2>2 DEF Logs
    <3>2. runs[r].at = "open" /\ p.id = runs[r].pane
      BY <2>2, <3>1 DEF LogTrue, Dropped
    <3>3. Known(p.id)
      BY <1>3, ListFacts DEF ListsOK, Known, Visible, All
    <3>4. Current(p.id) \in All /\ Current(p.id).id = p.id
      BY <1>3, <3>3, FindIn
    <3>5. SameLog(p, Current(p.id))
      BY <1>3, <2>2, <3>4 DEF Logs
    <3>6. Current(p.id) \in LogOf(r)
      BY <2>2, <3>2, <3>3, <3>5 DEF LogOf, SameLog
    <3>7. QED
      BY <1>10, <3>2, <3>6
  <2>3. ASSUME NEW p \in All, p.kind = "terminal" PROVE LogTrue(p, runs', turn)
    <3>1. CASE p.run = r => Dropped(r)
      BY <1>8, <2>3, <3>1
    <3>2. CASE p.run = r /\ ~Dropped(r)
      <4>1. p.ended /\ LogTrue(p, runs, turn)
        BY <1>3, <2>2, <2>3, <3>2 DEF Logs
      <4>2. QED
        BY <1>2, <3>2, <4>1 DEF LogTrue
    <3>3. QED
      BY <3>1, <3>2
  <2>4. Logs(All, runs', turn) /\ LogsKept(All, All) /\ Earned(All, All)
    BY <1>3, <2>3 DEF Logs, LogsKept, SameLog, Earned
  <2>5. QED
    BY <1>1, <1>2, <1>3, <1>7, <2>1, <2>4 DEF Kept, PanesIInv, ListsOK, PointersOK
<1>11. QED
  BY <1>9, <1>10

\* A new log replaces whatever had its id, but never the basis, and is its run's only one.
LEMMA OpenLogKeeps ==
  ASSUME PanesIInv, NEW r \in Run, NEW foreground \in BOOLEAN, OpenLog(r, foreground)
  PROVE  Kept
<1> DEFINE id == runs[r].pane
           log == [Blank(id, "terminal") EXCEPT
                     !.run = r, !.manual = Known(id) /\ Current(id).manual]
           now == [runs[r] EXCEPT !.at = "open"]
<1>1. FloorTypeOK' /\ turn' = turn /\ spent' = spent
  BY SameJob DEF OpenLog
<1>2. /\ runs[r].at = "started" /\ ~Dropped(r) /\ id # basis
      /\ Visible(id) \/ Len(panes) < MaxVisible
      /\ saved' = Remember(saved, log, basis)
      /\ IF foreground
           THEN panes' = Foreground(Put(panes, log), id) /\ focus' = id
           ELSE panes' = Put(panes, log) /\ UNCHANGED focus
      /\ runs' = [runs EXCEPT ![r].at = "open"]
      /\ UNCHANGED <<basis, phase, reviewRuns>>
  BY DEF OpenLog
<1>3. RunsOK /\ ListsOK /\ PointersOK /\ Works(All, turn, basis) /\ Logs(All, runs, turn)
  BY DEF PanesIInv
<1>4. runs[r] \in RunState /\ runs[r].job \in spent /\ runs \in [Run -> RunState] /\ r \notin reviewRuns
  BY <1>2, <1>3 DEF RunsOK
<1>5. /\ now \in RunState /\ now.at = "open" /\ now.pane = id
      /\ now.job = runs[r].job /\ now.gated = runs[r].gated
  BY <1>4 DEF RunState
<1>6. runs' = [runs EXCEPT ![r] = now]
  BY <1>2, <1>4 DEF RunState
<1>7. /\ log \in Pane /\ log.id = id /\ log.kind = "terminal" /\ log.run = r /\ ~log.ended
      /\ log.job = NoTurn /\ log.work = "none" /\ log.check = "none" /\ log.cites = NoRun
  <2> DEFINE manual == Known(id) /\ Current(id).manual
  <2>1. manual \in BOOLEAN
    OBVIOUS
  <2> HIDE DEF manual
  <2>2. id \in PaneId /\ "terminal" \in Kinds
    BY <1>2, <1>3 DEF RunsOK
  <2> HIDE DEF id
  <2>3. QED
    BY <2>1, <2>2 DEF Blank, Pane
<1>8. /\ panes' \in Seq(Pane) /\ Len(panes') <= MaxVisible /\ Unique(panes')
      /\ ToSet(panes') = {p \in ToSet(panes) : p.id # id} \cup {log}
      /\ id \in Ids(panes')
  <2> HIDE DEF id, log
  <2>1. panes' \in {Put(panes, log), Foreground(Put(panes, log), log.id)}
    BY <1>2, <1>7
  <2>2. IF Has(panes, log.id) THEN Len(panes) <= MaxVisible ELSE Len(panes) < MaxVisible
    BY <1>2, <1>3, <1>7 DEF ListsOK, Visible
  <2>3. /\ panes' \in Seq(Pane) /\ Len(panes') <= MaxVisible /\ Unique(panes')
        /\ ToSet(panes') = {p \in ToSet(panes) : p.id # log.id} \cup {log}
        /\ log.id \in Ids(panes')
    BY <1>3, <1>7, <2>1, <2>2, PlacedFacts DEF ListsOK
  <2>4. QED
    BY <1>7, <2>3
<1> HIDE DEF log, now
<1>9. /\ saved' \in Seq(Pane) /\ Len(saved') <= MaxSaved /\ Unique(saved')
      /\ \A p \in ToSet(saved') : (p \in ToSet(saved) /\ p.id # id) \/ p = log
      /\ Has(saved, basis) => Has(saved', basis)
  BY <1>2, <1>3, <1>7, RememberFacts DEF ListsOK
<1>10. ListsOK' /\ \A q \in All' : (q \in All /\ q.id # id) \/ q = log
  BY <1>3, <1>7, <1>8, <1>9 DEF ListsOK, All
<1>11. RunsOK' /\ runs'[r] = now /\ \A o \in Run \ {r} : runs'[o] = runs[o]
  <2>1. now.pane \in PaneId /\ "terminal" \in Kinds
    BY <1>2, <1>3, <1>5 DEF RunsOK
  <2>2. QED
    BY <1>1, <1>2, <1>3, <1>4, <1>5, <1>6, <2>1, RunGoesOn
<1>12. ASSUME NEW p \in All, p.kind = "terminal"
       PROVE  p.run # r /\ LogTrue(p, runs, turn) /\ LogTrue(p, runs', turn)
  <2>1. LogTrue(p, runs, turn)
    BY <1>3, <1>12 DEF Logs
  <2>2. p.run # r
    BY <1>2, <2>1 DEF LogTrue, Dropped
  <2>3. QED
    BY <1>11, <2>1, <2>2 DEF LogTrue
<1>13. LogTrue(log, runs', turn)
  BY <1>5, <1>7, <1>11 DEF LogTrue
<1>14. Logs(All', runs', turn)
  <2>1. \A q \in All' : q.kind = "terminal" => LogTrue(q, runs', turn)
    BY <1>10, <1>12, <1>13
  <2>2. \A p, q \in All' : p.id = q.id /\ p.kind = "terminal" => SameLog(p, q)
    BY <1>3, <1>7, <1>10 DEF Logs, SameLog
  <2>3. QED
    BY <2>1, <2>2 DEF Logs
<1>15. LogsKept(All, All')
  BY <1>3, <1>7, <1>10, <1>12 DEF Logs, SameLog, LogsKept
<1>16. Works(All', turn, basis) /\ Earned(All, All')
  <2>1. WellFormed(log)
    BY <1>7 DEF WellFormed
  <2>2. QED
    BY <1>2, <1>3, <1>7, <1>10, <2>1 DEF Works, Earned
<1>17. PointersOK'
  <2>1. focus' \in Ids(panes') \cup {Agent}
    <3>1. CASE foreground
      BY <1>2, <1>8, <3>1
    <3>2. CASE ~foreground
      <4>1. Ids(panes) \subseteq Ids(panes')
        BY <1>3, <1>8, ListFacts DEF ListsOK
      <4>2. QED
        BY <1>2, <1>3, <3>2, <4>1 DEF PointersOK
    <3>3. QED
      BY <3>1, <3>2
  <2>2. basis # NoPane => basis \in Ids(saved')
    BY <1>3, <1>9, ListFacts DEF PointersOK, ListsOK
  <2>3. QED
    BY <1>1, <1>2, <1>3, <2>1, <2>2 DEF PointersOK
<1>18. QED
  BY <1>1, <1>2, <1>10, <1>11, <1>14, <1>15, <1>16, <1>17 DEF Kept, PanesIInv

-------------------------------------------------------------------------------
(* The ends of jobs, processes and sessions.                                *)

\* Nothing comes of a killed run any more, and an exit seen before stays what it was.
LEMMA RunsKilledFacts ==
  ASSUME runs \in [Run -> RunState], RunsKilled
  PROVE  /\ runs' \in [Run -> RunState]
         /\ \A r \in Run :
              /\ runs'[r].at = IF runs[r].at = "unused" THEN "unused" ELSE "over"
              /\ runs'[r].job = runs[r].job /\ runs'[r].gated = runs[r].gated
              /\ runs[r].at \in {"exited", "over"} => runs'[r].code = runs[r].code
<1>1. ASSUME NEW r \in Run
      PROVE  /\ runs'[r] \in RunState
             /\ runs'[r].at = IF runs[r].at = "unused" THEN "unused" ELSE "over"
             /\ runs'[r].job = runs[r].job /\ runs'[r].gated = runs[r].gated
             /\ runs[r].at \in {"exited", "over"} => runs'[r].code = runs[r].code
  <2>1. runs[r] \in RunState
    OBVIOUS
  <2>2. \A code \in {"none", "ok", "bad", "unknown"} :
          /\ Gone(r, code) \in RunState /\ Gone(r, code).at = "over"
          /\ Gone(r, code).job = runs[r].job /\ Gone(r, code).gated = runs[r].gated
          /\ Gone(r, code).code = code
    BY <2>1 DEF Gone, RunState
  <2>3. CASE runs[r].at \in {"unused", "over"}
    <3>1. runs'[r] = runs[r]
      BY <2>3 DEF RunsKilled
    <3>2. QED
      BY <2>1, <2>3, <3>1
  <2>4. CASE runs[r].at = "exited"
    <3>1. runs'[r] = Gone(r, runs[r].code) /\ runs[r].code \in {"none", "ok", "bad", "unknown"}
      BY <2>1, <2>4 DEF RunsKilled, RunState
    <3>2. QED
      BY <2>2, <2>4, <3>1
  <2>5. CASE runs[r].at \notin {"unused", "over", "exited"}
    <3>1. runs'[r] = Gone(r, "unknown")
      BY <2>5 DEF RunsKilled
    <3>2. QED
      BY <2>2, <2>5, <3>1
  <2>6. QED
    BY <2>3, <2>4, <2>5
<1>2. runs' = [r \in Run |-> runs'[r]]
  BY DEF RunsKilled
<1>3. QED
  BY <1>1, <1>2

\* The logs after every open one has been cut off, wherever it stood.
LEMMA LogsCutOff ==
  ASSUME NEW S, NEW T, NEW t, NEW u, Logs(S, runs, t), runs \in [Run -> RunState], RunsKilled,
         \A q \in T : \E p \in S :
           /\ q.id = p.id /\ q.kind = p.kind /\ q.run = p.run
           /\ p.kind = "terminal" =>
                q.ended /\ q.code = IF p.ended THEN p.code ELSE "unknown"
  PROVE  Logs(T, runs', u) /\ LogsKept(S, T)
<1> DEFINE Cut(q, p) ==
             /\ q.id = p.id /\ q.kind = p.kind /\ q.run = p.run
             /\ p.kind = "terminal" =>
                  q.ended /\ q.code = IF p.ended THEN p.code ELSE "unknown"
<1>1. \A q \in T : \E p \in S : Cut(q, p)
  OBVIOUS
<1>2. \A p \in S : p.kind = "terminal" => LogTrue(p, runs, t)
  BY DEF Logs
<1>3. \A p, q \in S : p.id = q.id /\ p.kind = "terminal" => SameLog(p, q)
  BY DEF Logs
<1>4. ASSUME NEW q \in T, q.kind = "terminal" PROVE LogTrue(q, runs', u)
  <2>1. PICK p \in S : Cut(q, p)
    BY <1>1
  <2>2. /\ p.kind = "terminal" /\ q.run = p.run /\ q.ended
        /\ q.code = IF p.ended THEN p.code ELSE "unknown"
    BY <1>4, <2>1
  <2>3. LogTrue(p, runs, t)
    BY <1>2, <2>2
  <2>4. runs'[p.run].at = "over" /\ p.run \in Run
        /\ (p.ended => p.code \in {runs'[p.run].code, "unknown"})
    BY <2>3, RunsKilledFacts DEF LogTrue
  <2>5. QED
    BY <2>2, <2>4 DEF LogTrue
<1>5. ASSUME NEW p \in S, NEW q \in T, p.kind = "terminal", q.id = p.id
      PROVE  /\ q.kind = "terminal" /\ q.run = p.run /\ q.ended
             /\ q.code = IF p.ended THEN p.code ELSE "unknown"
  <2>1. PICK o \in S : Cut(q, o)
    BY <1>1
  <2>2. o.id = p.id
    BY <1>5, <2>1
  <2>3. SameLog(p, o)
    <3> HIDE DEF Cut
    <3>1. QED
      BY <1>3, <1>5, <2>2
  <2>4. QED
    BY <1>5, <2>1, <2>3 DEF SameLog
<1>6. LogsKept(S, T)
  BY <1>5 DEF LogsKept
<1>7. ASSUME NEW q \in T, NEW o \in T, q.id = o.id, q.kind = "terminal" PROVE SameLog(q, o)
  <2>1. PICK p \in S : Cut(q, p)
    BY <1>1
  <2>2. p.kind = "terminal" /\ o.id = p.id
    BY <1>7, <2>1
  <2>3. QED
    BY <1>5, <2>1, <2>2 DEF SameLog
<1>8. QED
  BY <1>4, <1>6, <1>7 DEF Logs

\* interruptTerminals: what is put away open has a visible or a saved version among the
\* artifacts, which takes its place.
LEMMA InterruptKeeps ==
  ASSUME PanesIInv, Interrupt
  PROVE  Kept
<1> DEFINE places == {i \in DOMAIN Artifacts : Unended(Artifacts[i])}
           open == Among(Artifacts, places)
           cut == [i \in DOMAIN open |-> Exited(open[i], "unknown")]
<1>1. FloorTypeOK' /\ turn' = turn /\ spent' = spent
  BY SameJob DEF Interrupt
<1>2. /\ saved' = RememberAll(saved, cut, basis)
      /\ panes' = [i \in DOMAIN panes |-> Interrupted(panes[i])]
      /\ RunsKilled
      /\ UNCHANGED <<focus, basis, phase, reviewRuns>>
  BY DEF Interrupt
<1>3. RunsOK /\ ListsOK /\ PointersOK /\ Works(All, turn, basis) /\ Logs(All, runs, turn)
  BY DEF PanesIInv
<1>4. /\ Artifacts \in Seq(Pane)
      /\ ToSet(Artifacts) \subseteq All
      /\ \A p \in All : \E a \in ToSet(Artifacts) : a.id = p.id
  BY <1>3, ArtifactsFacts DEF ListsOK, All
<1>5. open \in Seq(Pane) /\ ToSet(open) = {a \in ToSet(Artifacts) : Unended(a)}
  <2>1. DOMAIN Artifacts = 1..Len(Artifacts)
    BY <1>4, ListFacts
  <2>2. {Artifacts[j] : j \in places \cap 1..Len(Artifacts)} = {a \in ToSet(Artifacts) : Unended(a)}
    BY <2>1 DEF ToSet
  <2> HIDE DEF places
  <2>3. QED
    BY <1>4, <2>2, AmongProperties
<1> HIDE DEF open
<1>6. ASSUME NEW p \in Pane
      PROVE  Exited(p, "unknown") \in Pane /\ Exited(p, "unknown").id = p.id
  BY <1>6 DEF Exited, Pane
<1>7. \A i \in DOMAIN open : open[i] \in Pane
  BY <1>5, ListFacts
<1>8. cut \in Seq(Pane) /\ ToSet(cut) = {Exited(a, "unknown") : a \in ToSet(open)}
  <2>1. cut = [i \in DOMAIN open |-> cut[i]]
        /\ \A i \in DOMAIN open : cut[i] = Exited(open[i], "unknown")
    OBVIOUS
  <2>2. \A i \in DOMAIN open : cut[i] \in Pane /\ cut[i].id = open[i].id
    BY <1>6, <1>7
  <2> HIDE DEF cut
  <2>3. cut \in Seq(Pane) /\ ToSet(cut) = {cut[i] : i \in DOMAIN open}
        /\ ToSet(open) = {open[i] : i \in DOMAIN open}
    BY <1>5, <2>1, <2>2, MapFacts
  <2>4. QED
    BY <2>1, <2>3
<1> HIDE DEF cut
<1>9. /\ saved' \in Seq(Pane) /\ Len(saved') <= MaxSaved /\ Unique(saved')
      /\ \A p \in ToSet(saved') :
           \/ p \in ToSet(saved) /\ \A q \in ToSet(cut) : q.kind # "input" => q.id # p.id
           \/ p \in ToSet(cut) /\ p.kind # "input"
      /\ Has(saved, basis) => Has(saved', basis)
  BY <1>2, <1>3, <1>8, RememberAllFacts DEF ListsOK
<1>10. /\ panes' \in Seq(Pane) /\ Len(panes') = Len(panes) /\ Unique(panes')
       /\ Ids(panes') = Ids(panes)
       /\ ToSet(panes') = {Interrupted(p) : p \in ToSet(panes)}
  <2>1. panes' = [i \in DOMAIN panes |-> panes'[i]]
        /\ \A i \in DOMAIN panes : panes'[i] = Interrupted(panes[i])
    BY <1>2
  <2>2. \A i \in DOMAIN panes : panes'[i] \in Pane /\ panes'[i].id = panes[i].id
    BY <1>3, <1>6, <2>1, ListFacts DEF Interrupted, ListsOK
  <2>3. /\ panes' \in Seq(Pane) /\ Len(panes') = Len(panes) /\ Unique(panes')
        /\ Ids(panes') = Ids(panes)
        /\ ToSet(panes') = {panes'[i] : i \in DOMAIN panes}
        /\ ToSet(panes) = {panes[i] : i \in DOMAIN panes}
    BY <1>3, <2>1, <2>2, MapFacts DEF ListsOK
  <2>4. QED
    BY <2>1, <2>3
<1>11. All \subseteq Pane
  BY <1>3, ListFacts DEF ListsOK, All
<1>12. ASSUME NEW p \in Pane
       PROVE  /\ WorkAlike(Exited(p, "unknown"), p) /\ WorkAlike(p, p)
              /\ Exited(p, "unknown").ended /\ Exited(p, "unknown").code = "unknown"
  BY <1>12 DEF Exited, Pane, WorkAlike, Remarks
<1>13. ASSUME NEW q \in All'
       PROVE  \E p \in All : WorkAlike(q, p) /\ q = IF Unended(p) THEN Exited(p, "unknown") ELSE p
  <2>1. CASE q \in ToSet(panes')
    <3>1. PICK p \in ToSet(panes) : q = Interrupted(p)
      BY <1>10, <2>1
    <3>2. p \in All /\ p \in Pane
      BY <1>11 DEF All
    <3>3. QED
      BY <1>12, <3>1, <3>2 DEF Interrupted
  <2>2. CASE q \in ToSet(cut)
    <3>1. PICK a \in ToSet(open) : q = Exited(a, "unknown")
      BY <1>8, <2>2
    <3>2. a \in All /\ a \in Pane /\ Unended(a)
      BY <1>4, <1>5, <1>11
    <3>3. QED
      BY <1>12, <3>1, <3>2
  <2>3. CASE q \in ToSet(saved) /\ \A o \in ToSet(cut) : o.kind # "input" => o.id # q.id
    <3>1. q \in All /\ q \in Pane
      BY <1>11, <2>3 DEF All
    <3>2. ~Unended(q)
      <4> SUFFICES ASSUME Unended(q) PROVE FALSE
        OBVIOUS
      <4>1. PICK a \in ToSet(Artifacts) : a.id = q.id
        BY <1>4, <3>1
      <4>2. SameLog(q, a)
        BY <1>3, <1>4, <3>1, <4>1 DEF Logs, Unended
      <4>3. a \in ToSet(open) /\ a \in Pane /\ a.kind = "terminal"
        BY <1>4, <1>5, <1>11, <4>1, <4>2 DEF SameLog, Unended
      <4>4. Exited(a, "unknown") \in ToSet(cut) /\ Exited(a, "unknown").id = q.id
        BY <1>6, <1>8, <4>1, <4>3
      <4>5. Exited(a, "unknown").kind # "input"
        BY <1>12, <4>3 DEF WorkAlike
      <4>6. QED
        BY <2>3, <4>4, <4>5
    <3>3. QED
      BY <1>12, <3>1, <3>2
  <2>4. QED
    BY <1>9, <2>1, <2>2, <2>3 DEF All
<1>14. Works(All', turn, basis) /\ Earned(All, All')
  BY <1>3, <1>13, WorksOfCopies
<1>15. Logs(All', runs', turn) /\ LogsKept(All, All')
  <2>1. \A q \in All' : \E p \in All :
           /\ q.id = p.id /\ q.kind = p.kind /\ q.run = p.run
           /\ p.kind = "terminal" =>
                q.ended /\ q.code = IF p.ended THEN p.code ELSE "unknown"
    BY <1>11, <1>12, <1>13 DEF WorkAlike, Remarks, Unended
  <2>2. runs \in [Run -> RunState] /\ RunsKilled
    BY <1>2, <1>3 DEF RunsOK
  <2>3. QED
    BY <1>3, <2>1, <2>2, LogsCutOff
<1>16. RunsOK'
  BY <1>1, <1>2, <1>3, RunsKilledFacts DEF RunsOK
<1>17. ListsOK'
  <2>1. ASSUME NEW q \in ToSet(saved') PROVE q.kind # "input"
    BY <1>3, <1>9 DEF ListsOK
  <2>2. QED
    BY <1>3, <1>9, <1>10, <2>1 DEF ListsOK
<1>18. PointersOK'
  <2>1. basis # NoPane => basis \in Ids(saved')
    BY <1>3, <1>9, ListFacts DEF PointersOK, ListsOK
  <2>2. QED
    BY <1>1, <1>2, <1>3, <1>10, <2>1 DEF PointersOK
<1>19. QED
  BY <1>1, <1>2, <1>14, <1>15, <1>16, <1>17, <1>18 DEF Kept, PanesIInv

\* A session arrives.
LEMMA ArriveKeeps ==
  ASSUME PanesIInv, NEW s \in Session, Arrive(s)
  PROVE  Kept
<1>1. FloorTypeOK' /\ turn' = turn /\ spent' = spent
  BY DEF PanesIInv, FloorTypeOK, Arrive
<1>2. UNCHANGED <<panes, saved, focus, basis, phase, reviewRuns, runs>> /\ All' = All
  BY DEF Arrive, paneVars, All
<1>3. LogsKept(All, All) /\ Earned(All, All)
  BY DEF PanesIInv, Logs, LogsKept, SameLog, Earned
<1>4. QED
  BY <1>1, <1>2, <1>3 DEF Kept, PanesIInv, ListsOK, PointersOK, RunsOK

\* A reset leaves no pane.
LEMMA ResetPanesKeeps ==
  ASSUME PanesIInv, ResetPanes
  PROVE  Kept
<1>1. FloorTypeOK' /\ turn' = NoTurn /\ spent' = spent
  BY TimeAssumption DEF PanesIInv, FloorTypeOK, ResetPanes, Reset
<1>2. /\ panes' = <<>> /\ saved' = <<>> /\ focus' = Agent /\ basis' = NoPane
      /\ phase' = "idle" /\ reviewRuns' = {} /\ runs' = runs
  BY DEF ResetPanes
<1>3. ListsOK' /\ All' = {}
  BY <1>2, PlacesAssumption, EmptySeq DEF ListsOK, Unique, All, ToSet
<1>4. PointersOK'
  BY <1>2 DEF PointersOK
<1>5. RunsOK'
  BY <1>1, <1>2 DEF PanesIInv, RunsOK
<1>6. QED
  BY <1>1, <1>3, <1>4, <1>5 DEF Kept, PanesIInv, Works, Logs, LogsKept, Earned

\* beginTui: what is shown or put away was shown or put away, and the new job's id is
\* nobody's.
LEMMA BeginJobKeeps ==
  ASSUME PanesIInv, NEW s \in Session, NEW id \in TurnId, BeginJob(s, id)
  PROVE  Kept
<1> DEFINE places == {i \in DOMAIN panes : panes[i].manual}
<1>1. /\ FloorTypeOK' /\ turn = NoTurn /\ turn' = id
      /\ id \notin spent /\ spent' = spent \cup {id}
  BY TimeAssumption DEF PanesIInv, FloorTypeOK, BeginJob, BeginTui, StartTurn
<1>2. /\ phase' = "running" /\ reviewRuns' = {} /\ basis' = NoPane /\ focus' = Agent
      /\ saved' = RememberAll(saved, panes, NoPane)
      /\ panes' = Among(panes, places)
      /\ runs' = runs
  BY DEF BeginJob
<1>3. RunsOK /\ ListsOK /\ PointersOK /\ Works(All, turn, basis) /\ Logs(All, runs, turn)
  BY DEF PanesIInv
<1>4. /\ saved' \in Seq(Pane) /\ Len(saved') <= MaxSaved /\ Unique(saved')
      /\ \A p \in ToSet(saved') : p \in ToSet(saved) \/ (p \in ToSet(panes) /\ p.kind # "input")
  BY <1>2, <1>3, RememberAllFacts DEF ListsOK
<1>5. /\ panes' \in Seq(Pane) /\ Len(panes') <= Len(panes) /\ Unique(panes')
      /\ ToSet(panes') \subseteq ToSet(panes)
  <2>1. /\ panes' \in Seq(Pane) /\ Len(panes') <= Len(panes) /\ Unique(panes')
        /\ ToSet(panes') = {panes[j] : j \in places \cap 1..Len(panes)}
    <3> HIDE DEF places
    <3>1. QED
      BY <1>2, <1>3, AmongProperties DEF ListsOK
  <2>2. DOMAIN panes = 1..Len(panes)
    BY <1>3, ListFacts DEF ListsOK
  <2>3. QED
    BY <2>1, <2>2 DEF ToSet
<1>6. ListsOK' /\ All' \subseteq All
  <2>1. Len(panes') \in Nat /\ Len(panes) \in Nat /\ MaxVisible \in Nat
    BY <1>3, <1>5, ListFacts, PlacesAssumption DEF ListsOK
  <2>2. QED
    BY <1>3, <1>4, <1>5, <2>1 DEF ListsOK, All
<1>7. PointersOK'
  BY <1>2 DEF PointersOK
<1>8. RunsOK'
  BY <1>1, <1>2, <1>3 DEF RunsOK
<1>9. Works(All', id, NoPane) /\ Earned(All, All')
  BY <1>1, <1>3, <1>6 DEF Works, Earned
<1>10. Logs(All', runs, id) /\ LogsKept(All, All')
  <2>1. \A q \in All' : \E p \in All : LogAlike(q, p)
    BY <1>6 DEF LogAlike
  <2>2. Logs(All', runs, turn) /\ LogsKept(All, All')
    BY <1>3, <2>1, LogsOfCopies
  <2>3. \A r \in Run : runs[r].at # "unused" => id # runs[r].job
    BY <1>1, <1>3 DEF RunsOK
  <2>4. QED
    BY <2>2, <2>3, LogsOfOtherJob
<1>11. QED
  BY <1>1, <1>2, <1>6, <1>7, <1>8, <1>9, <1>10 DEF Kept, PanesIInv

\* What finish() and restore() leave as work.
LEMMA NothingWorks ==
  ASSUME NEW S, \A p \in S : WellFormed(p) /\ (p.job # NoTurn <=> p.work # "none"),
         \A p \in S : p.work # "working", NEW t
  PROVE  Works(S, t, NoPane)
  BY DEF Works

\* A restart: nothing works, nothing is open, and every run is over.
LEMMA RestartKeeps ==
  ASSUME PanesIInv, Restart
  PROVE  Kept
<1> DEFINE all == RememberAll(saved, panes, basis)
<1>1. FloorTypeOK' /\ turn' = NoTurn /\ spent' = spent
  BY TimeAssumption DEF PanesIInv, FloorTypeOK, Restart
<1>2. /\ saved' = Restored(all) /\ panes' = Restored(NoInputs)
      /\ focus' = FocusOr(Agent)
      /\ basis' = NoPane /\ phase' = "idle" /\ reviewRuns' = {} /\ RunsKilled
  BY DEF Restart
<1>3. RunsOK /\ ListsOK /\ PointersOK /\ Works(All, turn, basis) /\ Logs(All, runs, turn)
  BY DEF PanesIInv
<1>4. /\ all \in Seq(Pane) /\ Len(all) <= MaxSaved /\ Unique(all)
      /\ \A p \in ToSet(all) : p \in All /\ p.kind # "input"
  BY <1>3, RememberAllFacts DEF ListsOK, All
<1>5. /\ NoInputs \in Seq(Pane) /\ Len(NoInputs) <= MaxVisible /\ Unique(NoInputs)
      /\ \A p \in ToSet(NoInputs) : p \in All
  <2>1. /\ NoInputs \in Seq(Pane) /\ Len(NoInputs) <= Len(panes) /\ Unique(NoInputs)
        /\ \A p \in ToSet(NoInputs) : p \in All
    BY <1>3, NoInputsFacts DEF ListsOK, All
  <2>2. Len(NoInputs) \in Nat /\ Len(panes) \in Nat /\ MaxVisible \in Nat
    BY <1>3, <2>1, ListFacts, PlacesAssumption DEF ListsOK
  <2>3. QED
    BY <1>3, <2>1, <2>2 DEF ListsOK
<1> HIDE DEF all
<1>6. ASSUME NEW p \in Pane
      PROVE  /\ Revived(p) \in Pane
             /\ Remarks(Revived(p), p) /\ Revived(p).kind = p.kind /\ Revived(p).run = p.run
             /\ Revived(p).job = p.job
             /\ Revived(p).work = IF p.work = "working" THEN "interrupted" ELSE p.work
             /\ p.kind = "terminal" /\ p.work # "working" =>
                  /\ Revived(p).ended
                  /\ Revived(p).code = IF p.ended THEN p.code ELSE "unknown"
  <2> USE DEF Remarks
  <2>1. CASE p.work = "working"
    <3> DEFINE still == p.active /\ p.kind # "context"
    <3>1. Revived(p) = [p EXCEPT !.work = "interrupted", !.active = still]
      BY <2>1 DEF Revived
    <3>2. still \in BOOLEAN
      OBVIOUS
    <3> HIDE DEF still
    <3>3. QED
      BY <1>6, <2>1, <3>1, <3>2 DEF Pane
  <2>2. CASE p.work # "working" /\ Unended(p)
    <3>1. Revived(p) = [p EXCEPT !.ended = TRUE, !.code = "unknown", !.active = FALSE]
      BY <2>2 DEF Revived, Exited
    <3>2. QED
      BY <1>6, <2>2, <3>1 DEF Pane, Unended
  <2>3. CASE p.work # "working" /\ ~Unended(p)
    <3>1. Revived(p) = p
      BY <2>3 DEF Revived
    <3>2. QED
      BY <1>6, <2>3, <3>1 DEF Pane, Unended
  <2>4. QED
    BY <2>1, <2>2, <2>3
<1>7. ASSUME NEW list \in Seq(Pane), Unique(list)
      PROVE  /\ Restored(list) \in Seq(Pane) /\ Len(Restored(list)) = Len(list)
             /\ Unique(Restored(list))
             /\ ToSet(Restored(list)) = {Revived(p) : p \in ToSet(list)}
  <2> DEFINE new == Restored(list)
  <2>1. new = [i \in DOMAIN list |-> new[i]] /\ \A i \in DOMAIN list : new[i] = Revived(list[i])
    BY DEF Restored
  <2> HIDE DEF new
  <2>2. \A i \in DOMAIN list : new[i] \in Pane /\ new[i].id = list[i].id
    BY <1>6, <2>1, ListFacts DEF Remarks
  <2>3. /\ new \in Seq(Pane) /\ Len(new) = Len(list) /\ Unique(new)
        /\ ToSet(new) = {new[i] : i \in DOMAIN list} /\ ToSet(list) = {list[i] : i \in DOMAIN list}
    BY <1>7, <2>1, <2>2, MapFacts
  <2>4. ToSet(new) = {Revived(p) : p \in ToSet(list)}
    BY <2>1, <2>3
  <2>5. QED
    BY <2>3, <2>4 DEF new
<1>8. All \subseteq Pane
  BY <1>3, ListFacts DEF ListsOK, All
<1>9. ListsOK' /\ \A q \in All' : \E p \in All : q = Revived(p)
  <2>1. \A q \in ToSet(saved') : \E p \in All : q = Revived(p) /\ p.kind # "input"
    BY <1>2, <1>4, <1>7
  <2>2. \A q \in ToSet(panes') : \E p \in All : q = Revived(p)
    BY <1>2, <1>5, <1>7
  <2>3. \A q \in ToSet(saved') : q.kind # "input"
    BY <1>6, <1>8, <2>1
  <2>4. /\ saved' \in Seq(Pane) /\ Len(saved') <= MaxSaved /\ Unique(saved')
        /\ panes' \in Seq(Pane) /\ Len(panes') <= MaxVisible /\ Unique(panes')
    BY <1>2, <1>4, <1>5, <1>7
  <2>5. QED
    BY <2>1, <2>2, <2>3, <2>4 DEF ListsOK, All
<1>10. Works(All', NoTurn, NoPane)
  <2>1. \A p \in All : WellFormed(p) /\ (p.job # NoTurn <=> p.work # "none")
    BY <1>3 DEF Works
  <2>2. ASSUME NEW q \in All'
        PROVE  WellFormed(q) /\ (q.job # NoTurn <=> q.work # "none") /\ q.work # "working"
    <3>1. PICK p \in All : q = Revived(p)
      BY <1>9
    <3>2. QED
      BY <1>6, <1>8, <2>1, <3>1 DEF WellFormed, Remarks
  <2>3. QED
    BY <2>2, NothingWorks
<1>11. Earned(All, All')
  <2>1. ASSUME NEW q \in All', q.check = "passed"
        PROVE  \E p \in All : p.id = q.id /\ p.cites = q.cites /\ p.check = "passed"
    <3>1. PICK p \in All : q = Revived(p)
      BY <1>9
    <3>2. QED
      BY <1>6, <1>8, <2>1, <3>1 DEF Remarks
  <2>2. QED
    BY <2>1 DEF Earned
<1>12. Logs(All', runs', NoTurn) /\ LogsKept(All, All')
  <2>1. ASSUME NEW q \in All'
        PROVE  \E p \in All :
                 /\ q.id = p.id /\ q.kind = p.kind /\ q.run = p.run
                 /\ p.kind = "terminal" => q.ended /\ q.code = IF p.ended THEN p.code ELSE "unknown"
    <3>1. PICK p \in All : q = Revived(p)
      BY <1>9
    <3>2. p.kind = "terminal" => p.work # "working"
      BY <1>3 DEF Works, WellFormed
    <3>3. QED
      BY <1>6, <1>8, <3>1, <3>2 DEF Remarks
  <2>2. runs \in [Run -> RunState]
    BY <1>3 DEF RunsOK
  <2>3. QED
    BY <1>2, <1>3, <2>1, <2>2, LogsCutOff
<1>13. RunsOK'
  BY <1>1, <1>2, <1>3, RunsKilledFacts DEF RunsOK
<1>14. PointersOK'
  BY <1>2 DEF PointersOK, FocusOr
<1>15. QED
  BY <1>1, <1>2, <1>9, <1>10, <1>11, <1>12, <1>13, <1>14 DEF Kept, PanesIInv

\* finish(): all that says "working" is the basis, and the basis is among what is settled,
\* in whichever version is shown or put away.
LEMMA FinishJobKeeps ==
  ASSUME PanesIInv, NEW error \in BOOLEAN, FinishJob(error)
  PROVE  Kept
<1> DEFINE places == {i \in DOMAIN Artifacts : Artifacts[i].job = turn}
           done == Among(Artifacts, places)
           settled == [i \in DOMAIN done |-> Settled(done[i], error)]
           outcome == IF error THEN "interrupted" ELSE "finished"
           After(q, p) ==
             /\ Remarks(q, p) /\ LogAlike(q, p) /\ q.job = p.job
             /\ q.work = IF p.job = turn THEN outcome ELSE p.work
<1>1. FloorTypeOK' /\ turn # NoTurn /\ turn' = NoTurn /\ spent' = spent
  BY DEF PanesIInv, FloorTypeOK, FinishJob, Finish
<1>2. /\ saved' = RememberAll(saved, settled, basis)
      /\ panes' = [i \in DOMAIN NoInputs |-> Closed(NoInputs[i], error)]
      /\ basis' = NoPane /\ phase' = IF error THEN "error" ELSE "idle"
      /\ focus' = FocusOr(Last(panes').id)
      /\ reviewRuns' = reviewRuns /\ runs' = runs
  BY DEF FinishJob
<1>3. /\ RunsOK /\ ListsOK /\ PointersOK /\ FloorTypeOK
      /\ Works(All, turn, basis) /\ Logs(All, runs, turn)
  BY DEF PanesIInv
<1>4. All \subseteq Pane
  BY <1>3, ListFacts DEF ListsOK, All
<1>5. /\ Artifacts \in Seq(Pane)
      /\ ToSet(Artifacts) \subseteq All
      /\ \A p \in All : \E a \in ToSet(Artifacts) : a.id = p.id
  BY <1>3, ArtifactsFacts DEF ListsOK, All
<1>6. done \in Seq(Pane) /\ ToSet(done) = {a \in ToSet(Artifacts) : a.job = turn}
  <2>1. DOMAIN Artifacts = 1..Len(Artifacts)
    BY <1>5, ListFacts
  <2>2. {Artifacts[j] : j \in places \cap 1..Len(Artifacts)} = {a \in ToSet(Artifacts) : a.job = turn}
    BY <2>1 DEF ToSet
  <2> HIDE DEF places
  <2>3. QED
    BY <1>5, <2>2, AmongProperties
<1> HIDE DEF done
<1>7. ASSUME NEW p \in Pane, p.job = turn
      PROVE  Settled(p, error) \in Pane /\ After(Settled(p, error), p)
  <2> DEFINE still == IF p.kind = "context" THEN FALSE ELSE p.active
  <2>1. Settled(p, error) = [p EXCEPT !.work = outcome, !.active = still]
    BY DEF Settled
  <2>2. still \in BOOLEAN /\ outcome \in {"finished", "interrupted"}
    BY <1>7 DEF Pane
  <2> HIDE DEF still, outcome
  <2>3. QED
    BY <1>7, <2>1, <2>2 DEF Pane, Remarks, LogAlike
<1>8. ASSUME NEW p \in Pane
      PROVE  Closed(p, error) \in Pane /\ After(Closed(p, error), p)
  <2> DEFINE q == IF p.job = turn THEN Settled(p, error) ELSE p
             still == q.active /\ ~(error /\ q.kind # "terminal" /\ ~q.manual)
  <2>1. Closed(p, error) = [q EXCEPT !.active = still]
    BY DEF Closed
  <2>2. q \in Pane /\ After(q, p)
    <3>1. CASE p.job = turn
      BY <1>7, <1>8, <3>1
    <3>2. CASE p.job # turn
      BY <1>8, <3>2 DEF Remarks, LogAlike
    <3>3. QED
      BY <3>1, <3>2
  <2>3. still \in BOOLEAN
    OBVIOUS
  <2> HIDE DEF q, still, outcome
  <2>4. QED
    BY <2>1, <2>2, <2>3 DEF Pane, Remarks, LogAlike
<1>9. settled \in Seq(Pane) /\ ToSet(settled) = {Settled(a, error) : a \in ToSet(done)}
  <2>1. settled = [i \in DOMAIN done |-> settled[i]]
        /\ \A i \in DOMAIN done : settled[i] = Settled(done[i], error)
    OBVIOUS
  <2>2. \A i \in DOMAIN done : done[i] \in Pane /\ done[i].job = turn
    BY <1>6, ListFacts
  <2>3. \A i \in DOMAIN done : settled[i] \in Pane /\ settled[i].id = done[i].id
    BY <1>7, <2>1, <2>2 DEF Remarks
  <2> HIDE DEF settled
  <2>4. settled \in Seq(Pane) /\ ToSet(settled) = {settled[i] : i \in DOMAIN done}
        /\ ToSet(done) = {done[i] : i \in DOMAIN done}
    BY <1>6, <2>1, <2>3, MapFacts
  <2>5. QED
    BY <2>1, <2>4
<1> HIDE DEF settled
<1>10. /\ saved' \in Seq(Pane) /\ Len(saved') <= MaxSaved /\ Unique(saved')
       /\ \A p \in ToSet(saved') :
            \/ p \in ToSet(saved) /\ \A q \in ToSet(settled) : q.kind # "input" => q.id # p.id
            \/ p \in ToSet(settled) /\ p.kind # "input"
  BY <1>2, <1>3, <1>9, RememberAllFacts DEF ListsOK
<1>11. /\ panes' \in Seq(Pane) /\ Len(panes') <= MaxVisible /\ Unique(panes')
       /\ \A q \in ToSet(panes') : \E p \in All : q = Closed(p, error)
  <2>1. panes' = [i \in DOMAIN NoInputs |-> panes'[i]]
        /\ \A i \in DOMAIN NoInputs : panes'[i] = Closed(NoInputs[i], error)
    BY <1>2
  <2>2. /\ NoInputs \in Seq(Pane) /\ Len(NoInputs) <= Len(panes) /\ Unique(NoInputs)
        /\ \A p \in ToSet(NoInputs) : p \in All
    BY <1>3, NoInputsFacts DEF ListsOK, All
  <2>3. \A i \in DOMAIN NoInputs : NoInputs[i] \in Pane /\ NoInputs[i] \in All
    BY <2>2, ListFacts
  <2>4. \A i \in DOMAIN NoInputs : panes'[i] \in Pane /\ panes'[i].id = NoInputs[i].id
    BY <1>8, <2>1, <2>3 DEF Remarks
  <2>5. /\ panes' \in Seq(Pane) /\ Len(panes') = Len(NoInputs) /\ Unique(panes')
        /\ ToSet(panes') = {panes'[i] : i \in DOMAIN NoInputs}
    BY <2>1, <2>2, <2>4, MapFacts
  <2>6. Len(panes') \in Nat /\ Len(panes) \in Nat /\ MaxVisible \in Nat
    BY <1>3, <2>5, ListFacts, PlacesAssumption DEF ListsOK
  <2>7. QED
    BY <1>3, <2>1, <2>2, <2>3, <2>5, <2>6 DEF ListsOK
<1>12. \A p \in All : WellFormed(p) /\ (p.job # NoTurn <=> p.work # "none")
  BY <1>3 DEF Works
<1>13. \* What stays put away as it was is not the basis, so it does not work.
       ASSUME NEW q \in ToSet(saved),
              \A o \in ToSet(settled) : o.kind # "input" => o.id # q.id
       PROVE  q.work # "working"
  <2> SUFFICES ASSUME q.work = "working" PROVE FALSE
    OBVIOUS
  <2>1. q \in All /\ q.id = basis /\ q.job = turn
    BY <1>3 DEF Works, All
  <2>2. basis # NoPane
    BY <1>4, <2>1, IdAssumption DEF Pane
  <2>3. PICK a \in ToSet(Artifacts) : a.id = q.id
    BY <1>5, <2>1
  <2>4. a \in All /\ a.job = turn
    BY <1>3, <1>5, <2>1, <2>2, <2>3 DEF Works
  <2>5. a.kind # "input"
    BY <1>1, <1>12, <2>4 DEF WellFormed
  <2>6. Settled(a, error) \in ToSet(settled)
    BY <1>6, <1>9, <2>3, <2>4
  <2>7. After(Settled(a, error), a)
    BY <1>4, <1>7, <2>4
  <2>8. QED
    BY <1>13, <2>3, <2>5, <2>6, <2>7 DEF Remarks, LogAlike
<1>14. ASSUME NEW q \in All'
       PROVE  \E p \in All : After(q, p) \/ (q = p /\ p.work # "working")
  <2>1. CASE q \in ToSet(panes')
    <3>1. PICK p \in All : q = Closed(p, error)
      BY <1>11, <2>1
    <3>2. QED
      BY <1>4, <1>8, <3>1
  <2>2. CASE q \in ToSet(settled)
    <3>1. PICK a \in ToSet(done) : q = Settled(a, error)
      BY <1>9, <2>2
    <3>2. a \in All /\ a.job = turn
      BY <1>5, <1>6, <3>1
    <3>3. QED
      BY <1>4, <1>7, <3>1, <3>2
  <2>3. CASE q \in ToSet(saved) /\ \A o \in ToSet(settled) : o.kind # "input" => o.id # q.id
    BY <1>13, <2>3 DEF All
  <2>4. QED
    BY <1>10, <2>1, <2>2, <2>3 DEF All
<1>15. \A q \in All' : \E p \in All : LogAlike(q, p) /\ Remarks(q, p)
  BY <1>14 DEF LogAlike, Remarks
<1>16. Logs(All', runs, NoTurn) /\ LogsKept(All, All')
  <2>1. Logs(All', runs, turn) /\ LogsKept(All, All')
    BY <1>3, <1>15, LogsOfCopies
  <2>2. \A r \in Run : runs[r].at # "unused" => NoTurn # runs[r].job
    BY <1>3, TurnAssumption DEF RunsOK, FloorTypeOK
  <2>3. QED
    BY <2>1, <2>2, LogsOfOtherJob
<1>17. Works(All', NoTurn, NoPane)
  <2>1. ASSUME NEW q \in All'
        PROVE  WellFormed(q) /\ (q.job # NoTurn <=> q.work # "none") /\ q.work # "working"
    <3>1. PICK p \in All : After(q, p) \/ (q = p /\ p.work # "working")
      BY <1>14
    <3>2. CASE q = p /\ p.work # "working"
      BY <1>12, <3>2
    <3>3. CASE After(q, p)
      <4>1. outcome # "none" /\ outcome # "working"
        OBVIOUS
      <4>2. p.work = "working" => p.job = turn
        BY <1>3 DEF Works
      <4> HIDE DEF outcome
      <4>3. QED
        BY <1>1, <1>12, <3>3, <4>1, <4>2 DEF WellFormed, Remarks, LogAlike
    <3>4. QED
      BY <3>1, <3>2, <3>3
  <2>2. QED
    BY <2>1, NothingWorks
<1>18. Earned(All, All')
  BY <1>15 DEF Earned, Remarks
<1>19. RunsOK'
  BY <1>1, <1>2, <1>3 DEF RunsOK
<1>20. ListsOK'
  <2>1. ASSUME NEW q \in ToSet(saved') PROVE q.kind # "input"
    BY <1>3, <1>10 DEF ListsOK
  <2>2. QED
    BY <1>10, <1>11, <2>1 DEF ListsOK
<1>21. PointersOK'
  <2>1. focus' \in Ids(panes') \cup {Agent}
    BY <1>2, <1>3, <1>11, FirstIsThere DEF FocusOr, PointersOK
  <2>2. QED
    BY <1>2, <2>1 DEF PointersOK
<1>22. QED
  BY <1>1, <1>2, <1>16, <1>17, <1>18, <1>19, <1>20, <1>21 DEF Kept, PanesIInv

-------------------------------------------------------------------------------
(* Presentations.                                                           *)

\* What pane.upsert lets through, and what it makes of it: the pane stands for itself, for
\* the basis or for the review that takes the basis over, and never for a log.
LEMMA UpsertKeeps ==
  ASSUME PanesIInv, NEW id \in PaneId, NEW kind \in Kinds \ {"terminal"},
         NEW cites \in Cites(kind), Upsert(id, kind, cites)
  PROVE  Kept
<1> DEFINE takesOver == kind = "review" /\ HasContext
           replaced == IF takesOver /\ Context.id # id THEN Context.id ELSE NoPane
           remaining == Without(panes, replaced)
           manual == \/ Visible(id) /\ Find(panes, id).manual
                     \/ Has(saved, id) /\ Find(saved, id).manual
                     \/ replaced # NoPane /\ Context.manual
           job == CASE kind = "context" -> turn
                    [] takesOver -> Context.job
                    [] OTHER -> NoTurn
           work == CASE kind = "context" -> "working"
                     [] takesOver -> Context.work
                     [] OTHER -> "none"
           pane == [Blank(id, kind) EXCEPT
                      !.manual = manual, !.active = kind # "review",
                      !.job = job, !.work = work, !.cites = cites, !.check = Verdict(cites)]
<1>1. FloorTypeOK' /\ turn' = turn /\ spent' = spent
  BY SameJob DEF Upsert
<1>2. /\ Allowed(id, kind)
      /\ Len(remaining) < MaxVisible \/ Has(remaining, id)
      /\ basis' = IF pane.work # "none" THEN id ELSE basis
      /\ IF kind = "context"
           THEN panes' = Put(remaining, pane) /\ focus' = focus
           ELSE panes' = Foreground(Put(remaining, pane), id) /\ focus' = id
      /\ saved' = Remember(Without(saved, replaced), pane, basis')
      /\ SyncPhase /\ reviewRuns' = reviewRuns /\ runs' = runs
  BY DEF Upsert
<1>3. RunsOK /\ ListsOK /\ PointersOK /\ Works(All, turn, basis) /\ Logs(All, runs, turn)
  BY DEF PanesIInv
<1>4. \* This job's basis, if it has one, is the context.
      HasContext => /\ basis # NoPane /\ Context.id = basis /\ Context \in All
                    /\ Context \in Pane /\ Context.job = turn /\ turn # NoTurn
                    /\ Context.work # "none"
  <2> SUFFICES ASSUME HasContext PROVE basis # NoPane /\ Context.id = basis /\ Context \in All
                    /\ Context \in Pane /\ Context.job = turn /\ turn # NoTurn
                    /\ Context.work # "none"
    OBVIOUS
  <2>1. basis # NoPane /\ Known(basis) /\ Context = Current(basis) /\ Context.job = turn
    BY DEF HasContext, Context
  <2>2. Context \in All /\ Context \in Pane /\ Context.id = basis
    BY <1>3, <2>1, FindIn
  <2>3. turn # NoTurn /\ Context.work # "none"
    BY <1>3, <2>1, <2>2 DEF PointersOK, Works
  <2>4. QED
    BY <2>1, <2>2, <2>3
<1>5. basis # NoPane => HasContext
  BY BasisIsKnown
<1>6. /\ \A p \in All : p.id = id => p.kind # "terminal"
      /\ HasContext /\ Context.id = id => kind \in {"context", "review"}
      /\ kind = "context" => turn # NoTurn /\ (HasContext => Context.id = id)
  <2>1. \A p \in ToSet(panes) : p.id = id => Visible(id) /\ Find(panes, id) = p
    BY <1>3, FindUnique, ListFacts DEF Visible, ListsOK
  <2>2. \A p \in ToSet(saved) : p.id = id => Has(saved, id) /\ Find(saved, id) = p
    BY <1>3, FindUnique, ListFacts DEF ListsOK
  <2>3. QED
    BY <1>2, <2>1, <2>2 DEF Allowed, All
<1>7. /\ kind = "context" => job = turn /\ work = "working"
      /\ kind = "review" /\ HasContext => job = turn /\ work = Context.work /\ work # "none"
      /\ kind # "context" /\ ~(kind = "review" /\ HasContext) => job = NoTurn /\ work = "none"
  BY <1>4
<1>8. /\ manual \in BOOLEAN
      /\ job \in TurnId \cup {NoTurn}
      /\ work \in {"none", "working", "finished", "interrupted"}
      /\ cites \in Run \cup {NoRun} /\ (cites = NoRun \/ kind = "review")
      /\ Verdict(cites) \in {"none", "unverified", "passed", "failed"}
  <2>1. manual \in BOOLEAN
    OBVIOUS
  <2>2. turn \in TurnId \cup {NoTurn}
    BY DEF PanesIInv, FloorTypeOK
  <2>3. Context \in Pane => Context.work \in {"none", "working", "finished", "interrupted"}
    BY DEF Pane
  <2>4. cites \in Run \cup {NoRun} /\ (cites = NoRun \/ kind = "review")
    BY DEF Cites
  <2>5. Verdict(cites) \in {"none", "unverified", "passed", "failed"}
    BY DEF Verdict
  <2> HIDE DEF manual, job, work
  <2>6. QED
    BY <1>4, <1>7, <2>1, <2>2, <2>3, <2>4, <2>5
<1>9. Verdict(NoRun) = "none"
      /\ (Verdict(cites) = "passed" => cites \in reviewRuns /\ runs[cites].code = "ok")
  BY DEF Verdict
<1> HIDE DEF manual, job, work
<1>10. /\ pane \in Pane /\ pane.id = id /\ pane.kind = kind /\ pane.job = job /\ pane.work = work
       /\ pane.cites = cites /\ pane.check = Verdict(cites) /\ pane.run = NoRun
  BY <1>8 DEF Blank, Pane
<1>11. WellFormed(pane) /\ (pane.job # NoTurn <=> pane.work # "none")
  BY <1>4, <1>6, <1>7, <1>8, <1>9, <1>10 DEF WellFormed
<1> HIDE DEF pane
<1>12. /\ replaced # NoPane => kind = "review" /\ HasContext
       /\ kind = "review" /\ HasContext /\ Context.id # id => replaced = Context.id
  OBVIOUS
<1> HIDE DEF replaced
<1>13. /\ remaining \in Seq(Pane) /\ Len(remaining) <= Len(panes) /\ Unique(remaining)
       /\ ToSet(remaining) = {p \in ToSet(panes) : p.id # replaced}
  BY <1>3, WithoutFacts DEF ListsOK
<1> HIDE DEF remaining
<1>14. /\ panes' \in Seq(Pane) /\ Len(panes') <= MaxVisible /\ Unique(panes')
       /\ ToSet(panes') = {p \in ToSet(remaining) : p.id # id} \cup {pane}
       /\ id \in Ids(panes')
  <2>1. panes' \in {Put(remaining, pane), Foreground(Put(remaining, pane), pane.id)}
    BY <1>2, <1>10
  <2>2. IF Has(remaining, pane.id) THEN Len(remaining) <= MaxVisible
                                   ELSE Len(remaining) < MaxVisible
    <3>1. Len(remaining) \in Nat /\ Len(panes) \in Nat /\ MaxVisible \in Nat
      BY <1>3, <1>13, ListFacts, PlacesAssumption DEF ListsOK
    <3>2. QED
      BY <1>2, <1>3, <1>10, <1>13, <3>1 DEF ListsOK
  <2>3. /\ panes' \in Seq(Pane) /\ Len(panes') <= MaxVisible /\ Unique(panes')
        /\ ToSet(panes') = {p \in ToSet(remaining) : p.id # pane.id} \cup {pane}
        /\ pane.id \in Ids(panes')
    <3>1. remaining \in Seq(Pane) /\ Unique(remaining) /\ pane \in Pane
      BY <1>10, <1>13
    <3>2. QED
      BY <2>1, <2>2, <3>1, PlacedFacts
  <2>4. QED
    BY <1>10, <2>3
<1>15. /\ saved' \in Seq(Pane) /\ Len(saved') <= MaxSaved /\ Unique(saved')
       /\ \A p \in ToSet(saved') :
            \/ p \in ToSet(saved) /\ p.id # replaced /\ (kind # "input" => p.id # id)
            \/ p = pane /\ kind # "input"
       /\ basis' = id /\ kind # "input" => Has(saved', basis')
       /\ replaced = NoPane /\ basis' # NoPane /\ Has(saved, basis') => Has(saved', basis')
  <2> DEFINE rest == Without(saved, replaced)
  <2>1. /\ rest \in Seq(Pane) /\ Len(rest) <= Len(saved) /\ Unique(rest)
        /\ ToSet(rest) = {p \in ToSet(saved) : p.id # replaced}
    BY <1>3, WithoutFacts DEF ListsOK
  <2>2. saved' = Remember(rest, pane, basis')
    BY <1>2
  <2> HIDE DEF rest
  <2>3. Len(rest) <= MaxSaved
    <3>1. Len(rest) \in Nat /\ Len(saved) \in Nat /\ MaxSaved \in Nat
      BY <1>3, <2>1, ListFacts, PlacesAssumption DEF ListsOK
    <3>2. QED
      BY <1>3, <2>1, <3>1 DEF ListsOK
  <2>4. /\ saved' \in Seq(Pane) /\ Len(saved') <= MaxSaved /\ Unique(saved')
        /\ \A p \in ToSet(saved') :
             \/ p \in ToSet(rest) /\ (pane.kind # "input" => p.id # pane.id)
             \/ p = pane /\ pane.kind # "input"
        /\ Has(rest, basis') \/ (basis' = pane.id /\ pane.kind # "input") => Has(saved', basis')
    BY <1>10, <2>1, <2>2, <2>3, RememberFacts
  <2>5. replaced = NoPane /\ basis' # NoPane /\ Has(saved, basis') => Has(rest, basis')
    BY <1>3, <2>1, ListFacts DEF ListsOK
  <2>6. QED
    BY <1>10, <2>1, <2>4, <2>5
<1>16. \A q \in All' :
         q = pane \/ (q \in All /\ q.id # replaced /\ (kind # "input" => q.id # id))
  BY <1>13, <1>14, <1>15 DEF All
<1>17. ListsOK'
  BY <1>3, <1>10, <1>14, <1>15 DEF ListsOK
<1>18. \* The basis is the pane, or has not moved and is another one.
       \/ /\ basis' = id /\ pane.job = turn /\ turn # NoTurn /\ kind \in {"context", "review"}
          /\ basis \in {NoPane, id, replaced}
       \/ /\ basis' = basis /\ pane.work = "none" /\ replaced = NoPane
          /\ basis # NoPane => basis # id
  BY <1>2, <1>4, <1>5, <1>6, <1>7, <1>10, <1>12
<1>19. \A p \in All : p.id # NoPane
  <2>1. All \subseteq Pane
    BY <1>3, ListFacts DEF ListsOK, All
  <2>2. QED
    BY <2>1, IdAssumption DEF Pane
<1>20. Works(All', turn, basis')
  <2>1. ASSUME NEW q \in All', q.work = "working"
        PROVE  turn # NoTurn /\ q.job = turn /\ q.id = basis'
    <3>1. CASE q = pane
      BY <1>10, <1>18, <2>1, <3>1
    <3>2. CASE q \in All /\ q.id # replaced /\ (kind # "input" => q.id # id)
      <4>1. turn # NoTurn /\ q.job = turn /\ q.id = basis
        BY <1>3, <2>1, <3>2 DEF Works
      <4>2. QED
        BY <1>18, <1>19, <3>2, <4>1
    <3>3. QED
      BY <1>16, <3>1, <3>2
  <2>2. ASSUME basis' # NoPane, NEW q \in All', q.id = basis'
        PROVE  q.job = turn
    <3>1. CASE q = pane
      BY <1>10, <1>18, <2>2, <3>1
    <3>2. CASE q \in All /\ q.id # replaced /\ (kind # "input" => q.id # id)
      BY <1>3, <1>18, <2>2, <3>2 DEF Works
    <3>3. QED
      BY <1>16, <3>1, <3>2
  <2>3. \A q \in All' : WellFormed(q) /\ (q.job # NoTurn <=> q.work # "none")
    BY <1>3, <1>11, <1>16 DEF Works
  <2>4. QED
    BY <2>1, <2>2, <2>3 DEF Works
<1>21. Logs(All', runs, turn) /\ LogsKept(All, All')
  <2>1. pane.kind # "terminal"
    BY <1>10
  <2>2. \A p, q \in All' : p.id = q.id /\ p.kind = "terminal" => SameLog(p, q)
    <3>1. \A p \in All' : p.kind = "terminal" => p \in All /\ p.id # pane.id
      BY <1>6, <1>10, <1>16, <2>1
    <3>2. QED
      BY <1>3, <1>16, <3>1 DEF Logs
  <2>3. \A q \in All' : q.kind = "terminal" => LogTrue(q, runs, turn)
    BY <1>3, <1>16, <2>1 DEF Logs
  <2>4. ASSUME NEW p \in All, NEW q \in All', p.kind = "terminal", q.id = p.id
        PROVE  SameLog(p, q)
    BY <1>3, <1>6, <1>10, <1>16, <2>4 DEF Logs
  <2>5. QED
    BY <2>2, <2>3, <2>4 DEF Logs, LogsKept, SameLog
<1>22. Earned(All, All')
  <2>1. ASSUME NEW q \in All', q.check = "passed", q \notin All
        PROVE  /\ runs[q.cites].at = "over" /\ runs[q.cites].code = "ok"
               /\ turn \in {NoTurn, runs[q.cites].job}
    BY <1>3, <1>9, <1>10, <1>16, <2>1 DEF RunsOK
  <2>2. QED
    BY <2>1 DEF Earned
<1>23. PointersOK'
  <2>1. focus' \in Ids(panes') \cup {Agent}
    <3>1. CASE kind = "context"
      <4>1. replaced = NoPane /\ focus' = focus
        BY <1>2, <1>12, <3>1
      <4>2. \A p \in ToSet(panes) : p.id # NoPane
        BY <1>19 DEF All
      <4>3. Ids(panes) \subseteq Ids(panes')
        <5>1. \A p \in ToSet(panes) : p \in ToSet(panes') \/ p.id = id
          BY <1>13, <1>14, <4>1, <4>2
        <5>2. Ids(panes) = {p.id : p \in ToSet(panes)}
              /\ Ids(panes') = {p.id : p \in ToSet(panes')}
          BY <1>3, <1>14, ListFacts DEF ListsOK
        <5>3. QED
          BY <1>14, <5>1, <5>2
      <4>4. QED
        BY <1>3, <4>1, <4>3 DEF PointersOK
    <3>2. CASE kind # "context"
      BY <1>2, <1>14, <3>2
    <3>3. QED
      BY <3>1, <3>2
  <2>2. phase' \in {"idle", "running", "waiting", "error"}
    BY <1>2, <1>3 DEF SyncPhase, PointersOK
  <2>3. ASSUME basis' # NoPane PROVE turn # NoTurn /\ Has(saved', basis')
    <3>1. CASE basis' = id /\ turn # NoTurn /\ kind \in {"context", "review"}
      BY <1>15, <3>1
    <3>2. CASE basis' = basis /\ replaced = NoPane
      <4>1. turn # NoTurn /\ Has(saved, basis)
        BY <1>3, <2>3, <3>2, ListFacts DEF PointersOK, ListsOK
      <4>2. QED
        BY <1>15, <2>3, <3>2, <4>1
    <3>3. QED
      BY <1>18, <3>1, <3>2
  <2>4. basis' # NoPane => turn # NoTurn /\ basis' \in Ids(saved')
    BY <1>15, <2>3, ListFacts
  <2>5. QED
    BY <1>1, <2>1, <2>2, <2>4 DEF PointersOK
<1>24. RunsOK'
  BY <1>1, <1>2, <1>3 DEF RunsOK
<1>25. QED
  BY <1>1, <1>2, <1>17, <1>20, <1>21, <1>22, <1>23, <1>24 DEF Kept, PanesIInv

-------------------------------------------------------------------------------
(* The theorems.                                                            *)

\* An empty stage.
LEMMA PanesInvInit == PanesInit => PanesIInv
<1> SUFFICES ASSUME PanesInit
             PROVE  PanesIInv
  OBVIOUS
<1>1. FloorTypeOK /\ turn = NoTurn
  BY TimeAssumption DEF PanesInit, FloorInit, FloorTypeOK
<1>2. /\ panes = <<>> /\ saved = <<>> /\ focus = Agent /\ basis = NoPane
      /\ phase = "idle" /\ reviewRuns = {} /\ runs = [r \in Run |-> NotStarted]
  BY DEF PanesInit
<1>3. ListsOK /\ All = {}
  BY <1>2, PlacesAssumption, EmptySeq DEF ListsOK, Unique, All, ToSet
<1>4. PointersOK
  BY <1>2 DEF PointersOK
<1>5. NotStarted \in RunState /\ NotStarted.at = "unused"
  BY DEF NotStarted, RunState
<1>6. RunsOK
  BY <1>1, <1>2, <1>5 DEF RunsOK
<1>7. QED
  BY <1>1, <1>3, <1>4, <1>6 DEF PanesIInv, Works, Logs

\* Every step keeps the invariant, tells no log otherwise than it was told, and says
\* "passed" only where the server saw it.
LEMMA PanesStep == PanesIInv /\ [PanesNext]_vars => Kept
<1> SUFFICES ASSUME PanesIInv, [PanesNext]_vars
             PROVE  Kept
  OBVIOUS
<1>1. ASSUME NEW s \in Session, Arrive(s) PROVE Kept
  BY <1>1, ArriveKeeps
<1>2. ASSUME NEW s \in Session, NEW id \in TurnId, BeginJob(s, id) PROVE Kept
  BY <1>2, BeginJobKeeps
<1>3. ASSUME NEW error \in BOOLEAN, FinishJob(error) PROVE Kept
  BY <1>3, FinishJobKeeps
<1>4. CASE ResetPanes
  BY <1>4, ResetPanesKeeps
<1>5. CASE Restart
  BY <1>5, RestartKeeps
<1>6. ASSUME NEW id \in PaneId, Present(id) PROVE Kept
  <2>1. ASSUME NEW kind \in Kinds \ {"terminal"}, NEW cites \in Cites(kind), Upsert(id, kind, cites)
        PROVE  Kept
    BY <2>1, UpsertKeeps
  <2>2. ASSUME NEW byHand \in BOOLEAN, Show(id, byHand) PROVE Kept
    BY <2>2, ShowKeeps
  <2>3. CASE Close(id)
    BY <2>3, CloseKeeps
  <2>4. CASE Focus(id)
    BY <2>4, FocusKeeps
  <2>5. QED
    BY <1>6, <2>1, <2>2, <2>3, <2>4 DEF Present
<1>7. ASSUME NEW r \in Run, Follow(r) PROVE Kept
  <2>1. ASSUME NEW id \in PaneId, NEW gated \in BOOLEAN, StartRun(r, id, gated) PROVE Kept
    BY <2>1, StartRunKeeps
  <2>2. ASSUME NEW foreground \in BOOLEAN, OpenLog(r, foreground) PROVE Kept
    BY <2>2, OpenLogKeeps
  <2>3. CASE AppendLog(r)
    BY <2>3, AppendLogKeeps
  <2>4. ASSUME NEW code \in {"ok", "bad", "unknown"}, ExitLog(r, code) PROVE Kept
    BY <2>4, ExitLogKeeps
  <2>5. CASE RecordRun(r)
    BY <2>5, RecordRunKeeps
  <2>6. QED
    BY <1>7, <2>1, <2>2, <2>3, <2>4, <2>5 DEF Follow
<1>8. CASE Interrupt
  BY <1>8, InterruptKeeps
<1>9. CASE UNCHANGED vars
  <2>1. /\ UNCHANGED <<panes, saved, focus, basis, phase, reviewRuns, runs>>
        /\ FloorTypeOK' /\ turn' = turn /\ spent' = spent /\ All' = All
    BY <1>9 DEF vars, paneVars, floorVars, PanesIInv, FloorTypeOK, All
  <2>2. LogsKept(All, All) /\ Earned(All, All)
    BY DEF PanesIInv, Logs, LogsKept, SameLog, Earned
  <2>3. QED
    BY <2>1, <2>2 DEF Kept, PanesIInv, ListsOK, PointersOK, RunsOK
<1>10. CASE FocusAgent
  BY <1>10, FocusAgentKeeps
<1>11. QED
  BY <1>1, <1>2, <1>3, <1>4, <1>5, <1>6, <1>7, <1>8, <1>9, <1>10 DEF PanesNext

\* Whatever is shown, put away, evicted, taken over, restored or interrupted, the stage has
\* at most one basis, never loses it while its job runs, never points at a pane that is not
\* there, tells the truth about its commands, and can be saved.
THEOREM PanesInvHolds == PanesSpec => []PanesInv
<1>1. PanesIInv /\ [PanesNext]_vars => PanesIInv'
  BY PanesStep DEF Kept
<1>2. QED
  BY <1>1, PanesInvInit, PanesInvFollows, PTL DEF PanesSpec

\* An execution log is only ever replaced by the log of another run, and its ending is final:
\* no presentation, no late event, no restart rewrites it.
THEOREM LogsFinalHolds == PanesSpec => LogsFinal
<1>1. PanesIInv /\ [PanesNext]_vars =>
        [\A p \in {o \in ToSet(panes) \cup ToSet(saved) : o.kind = "terminal"} :
           \A q \in {o \in ToSet(panes') \cup ToSet(saved') : o.id = p.id} :
             /\ q.kind = "terminal"
             /\ q.run = p.run /\ p.ended => q.ended /\ q.code = p.code]_vars
  <2> SUFFICES ASSUME PanesIInv, [PanesNext]_vars
               PROVE  \A p \in {o \in ToSet(panes) \cup ToSet(saved) : o.kind = "terminal"} :
                        \A q \in {o \in ToSet(panes') \cup ToSet(saved') : o.id = p.id} :
                          /\ q.kind = "terminal"
                          /\ q.run = p.run /\ p.ended => q.ended /\ q.code = p.code
    OBVIOUS
  <2>1. LogsKept(All, All')
    BY PanesStep DEF Kept
  <2>2. QED
    BY <2>1 DEF LogsKept, All
<1>2. PanesIInv /\ [PanesNext]_vars => PanesIInv'
  BY PanesStep DEF Kept
<1>3. QED
  BY <1>1, <1>2, PanesInvInit, PTL DEF PanesSpec, LogsFinal

\* A review says "passed" about a run it cites only if the server saw that run exit with 0,
\* and never about a command of an earlier job than the running one.
THEOREM PassedMeansRanHolds == PanesSpec => PassedMeansRan
<1>1. PanesIInv /\ [PanesNext]_vars =>
        [\A c \in Passed(panes') \ (Passed(panes) \cup Passed(saved)) :
           runs[c[2]].at = "over" /\ runs[c[2]].code = "ok" /\ turn \in {NoTurn, runs[c[2]].job}]_vars
  <2> SUFFICES ASSUME PanesIInv, [PanesNext]_vars,
                      NEW c \in Passed(panes') \ (Passed(panes) \cup Passed(saved))
               PROVE  /\ runs[c[2]].at = "over" /\ runs[c[2]].code = "ok"
                      /\ turn \in {NoTurn, runs[c[2]].job}
    OBVIOUS
  <2>1. Earned(All, All')
    BY PanesStep DEF Kept
  <2>2. PICK q \in ToSet(panes') : q.check = "passed" /\ c = <<q.id, q.cites>>
    BY DEF Passed
  <2>3. q \in All' /\ c[2] = q.cites
    BY <2>2 DEF All
  <2>4. ~\E p \in All : p.id = q.id /\ p.cites = q.cites /\ p.check = "passed"
    BY <2>2 DEF All, Passed
  <2>5. QED
    BY <2>1, <2>2, <2>3, <2>4 DEF Earned
<1>2. PanesIInv /\ [PanesNext]_vars => PanesIInv'
  BY PanesStep DEF Kept
<1>3. QED
  BY <1>1, <1>2, PanesInvInit, PTL DEF PanesSpec, PassedMeansRan
===============================================================================
