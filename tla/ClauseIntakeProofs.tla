-------------------------- MODULE ClauseIntakeProofs --------------------------
(***************************************************************************)
(* What both engines start from is the problem of the command line, for    *)
(* every formula, every command line and whatever the first solve learns   *)
(* at the root; and there is nothing left to propagate in it.              *)
(*                                                                         *)
(* The argument has two halves.  Up to the solver: the first arguments     *)
(* and the first tokens, as far as they have been looked at, have given    *)
(* what they say (ReadInv).  From the solver on: what addClause_ does      *)
(* with a clause keeps the models of the trail and the clauses together,   *)
(* because the clause is satisfied, or contradicted, or attached without   *)
(* its false literals (IInv); the trail is closed under the clauses that   *)
(* are attached, so a clause that is not satisfied has two open literals.  *)
(***************************************************************************)
EXTENDS ClauseIntake, SequenceFacts, FiniteSetTheorems

-----------------------------------------------------------------------------
(* Literals and sequences of them.                                         *)

LEMMA LiteralFacts ==
  ASSUME NEW l \in Literal
  PROVE  l \in Int /\ -l \in Literal /\ l # -l /\ -(-l) = l
<1>1. \A v \in Var : v \in Int /\ v # 0 /\ v # -v /\ -(-v) = v
  BY VarAssumption
<1> QED
  BY <1>1 DEF Literal

\* What two sequences hold together.
LEMMA ConcatFacts ==
  ASSUME NEW E, NEW s \in Seq(E), NEW t \in Seq(E)
  PROVE  s \o t \in Seq(E) /\ ToSet(s \o t) = ToSet(s) \cup ToSet(t)
<1>1. /\ s \o t \in Seq(E) /\ Len(s \o t) = Len(s) + Len(t)
      /\ \A i \in 1 .. Len(s) + Len(t) :
           (s \o t)[i] = IF i <= Len(s) THEN s[i] ELSE t[i - Len(s)]
  BY ConcatProperties
<1>2. /\ Len(s) \in Nat /\ Len(t) \in Nat
      /\ DOMAIN s = 1 .. Len(s) /\ DOMAIN t = 1 .. Len(t)
  OBVIOUS
<1> PICK u : u = s \o t
  OBVIOUS
<1>3. DOMAIN u = 1 .. Len(s) + Len(t)
  BY <1>1, LenProperties
<1>4. \A i \in 1 .. Len(s) : i \in DOMAIN u /\ u[i] = s[i]
  BY <1>1, <1>2, <1>3
<1>5. \A i \in 1 .. Len(t) : i + Len(s) \in DOMAIN u /\ u[i + Len(s)] = t[i]
  BY <1>1, <1>2, <1>3
<1>6. \A i \in DOMAIN u : \/ i \in DOMAIN s /\ u[i] = s[i]
                          \/ i - Len(s) \in DOMAIN t /\ u[i] = t[i - Len(s)]
  BY <1>1, <1>2, <1>3
<1>7. ToSet(u) \subseteq ToSet(s) \cup ToSet(t)
  BY <1>6 DEF ToSet
<1>8. ToSet(s) \subseteq ToSet(u)
  BY <1>2, <1>4 DEF ToSet
<1>9. ToSet(t) \subseteq ToSet(u)
  BY <1>2, <1>5 DEF ToSet
<1> QED
  BY <1>1, <1>7, <1>8, <1>9

LEMMA AppendFacts ==
  ASSUME NEW E, NEW s \in Seq(E), NEW e \in E
  PROVE  Append(s, e) \in Seq(E) /\ ToSet(Append(s, e)) = ToSet(s) \cup {e}
<1>1. /\ Append(s, e) \in Seq(E) /\ Len(s) \in Nat
      /\ Append(s, e)[Len(s) + 1] = e
      /\ \A k \in 1 .. Len(s) : Append(s, e)[k] = s[k]
      /\ DOMAIN Append(s, e) = 1 .. Len(s) + 1
  BY PushFacts
<1>2. DOMAIN s = 1 .. Len(s)
  OBVIOUS
<1> PICK u : u = Append(s, e)
  OBVIOUS
<1>3. \A k \in 1 .. Len(s) + 1 : k \in 1 .. Len(s) \/ k = Len(s) + 1
  BY <1>1
<1>4. ToSet(u) = ToSet(s) \cup {e}
  BY <1>1, <1>2, <1>3 DEF ToSet
<1> QED
  BY <1>1, <1>4

\* What is kept is what the set holds.
LEMMA KeptSet ==
  ASSUME NEW E, NEW s \in Seq(E), NEW S
  PROVE  Kept(s, S) \in Seq(E) /\ ToSet(Kept(s, S)) = ToSet(s) \cap S
<1>1. /\ Kept(s, S) \in Seq(E)
      /\ {Kept(s, S)[n] : n \in DOMAIN Kept(s, S)} = {s[n] : n \in DOMAIN s} \cap S
  BY KeptFacts
<1> QED
  BY <1>1 DEF ToSet

-----------------------------------------------------------------------------
(* addClause_: what is made of a clause.                                   *)

LEMMA InsertFacts ==
  ASSUME NEW s \in Seq(Literal), NEW l \in Literal
  PROVE  Insert(s, l) \in Seq(Literal) /\ ToSet(Insert(s, l)) = ToSet(s) \cup {l}
<1> DEFINE before == {m \in Literal : Less(m, l)}
           front == Kept(s, before)
           back == Kept(s, Literal \ before)
<1>1. front \in Seq(Literal) /\ ToSet(front) = ToSet(s) \cap before
  BY KeptSet
<1>2. back \in Seq(Literal) /\ ToSet(back) = ToSet(s) \cap (Literal \ before)
  BY KeptSet
<1>3. ToSet(s) \subseteq Literal
  BY ElementOfSeq DEF ToSet
<1>4. Insert(s, l) = Append(front, l) \o back
  BY DEF Insert
<1> DEFINE all == Append(front, l)
<1> HIDE DEF before, front, back
<1>5. all \in Seq(Literal) /\ ToSet(all) = ToSet(front) \cup {l}
  BY <1>1, AppendFacts
<1>6. Insert(s, l) = all \o back
  BY <1>4
<1> HIDE DEF all
<1>7. all \o back \in Seq(Literal) /\ ToSet(all \o back) = ToSet(all) \cup ToSet(back)
  BY <1>2, <1>5, ConcatFacts
<1> QED
  BY <1>1, <1>2, <1>3, <1>5, <1>6, <1>7

\* Sorting keeps what a clause holds.
LEMMA SortedFacts ==
  ASSUME NEW c \in Seq(Literal)
  PROVE  Sorted(c) \in Seq(Literal) /\ ToSet(Sorted(c)) = ToSet(c)
<1> DEFINE n == Len(c)
           turn == [k \in 1 .. n |-> [s \in Seq(Literal) |-> Insert(s, c[k])]]
           Step(f, k) == IF k = 0 THEN <<>> ELSE Insert(f[k - 1], c[k])
           g == CHOOSE f : f = [k \in 0 .. n |-> Step(f, k)]
<1>1. n \in Nat /\ DOMAIN c = 1 .. n /\ \A k \in 1 .. n : c[k] \in Literal
  BY ElementOfSeq
<1>2. turn \in Turns(n, Seq(Literal))
  BY <1>1, InsertFacts DEF Turns
<1>3. \A k \in 1 .. n : \A s \in Seq(Literal) : turn[k][s] = Insert(s, c[k])
  OBVIOUS
<1> HIDE DEF turn
<1>4. <<>> \in Seq(Literal)
  OBVIOUS
<1>5. PICK f : f \in Loop(n, Seq(Literal), <<>>, turn)
  BY <1>1, <1>2, <1>4, LoopExists
<1>05. /\ f \in [0 .. n -> Seq(Literal)]
      /\ f[0] = <<>>
      /\ \A k \in 1 .. n : f[k] = turn[k][f[k - 1]]
  BY <1>5 DEF Loop
<1>6. \A k \in 0 .. n : f[k] = Step(f, k)
  <2> SUFFICES ASSUME NEW k \in 0 .. n
               PROVE  f[k] = Step(f, k)
    OBVIOUS
  <2>1. CASE k = 0
    BY <1>05, <2>1
  <2>2. CASE k # 0
    <3>1. k \in 1 .. n /\ k - 1 \in 0 .. n
      BY <1>1, <2>2
    <3>2. f[k - 1] \in Seq(Literal)
      BY <1>05, <3>1
    <3>3. f[k] = Insert(f[k - 1], c[k])
      BY <1>3, <1>05, <3>1, <3>2
    <3> QED
      BY <2>2, <3>3
  <2> QED
    BY <2>1, <2>2
<1>7. f = [k \in 0 .. n |-> Step(f, k)]
  <2> HIDE DEF Step, n
  <2> QED
    BY <1>05, <1>6
<1>8. g = [k \in 0 .. n |-> Step(g, k)]
  BY <1>7
<1>9. Sorted(c) = g[n]
  BY DEF Sorted
<1> HIDE DEF g
<1>10. g[0] = <<>> /\ \A k \in 1 .. n : g[k] = Insert(g[k - 1], c[k])
  BY <1>1, <1>8
<1> DEFINE Exact(k) == g[k] \in Seq(Literal) /\ ToSet(g[k]) = {c[j] : j \in 1 .. k}
           Good == {k \in 0 .. n : Exact(k)}
<1>11. 0 \in Good
  <2>1. ToSet(<<>>) = {} /\ {c[j] : j \in 1 .. 0} = {}
    BY DEF ToSet
  <2>2. Exact(0)
    BY <1>4, <1>10, <2>1
  <2> HIDE DEF Exact
  <2> QED
    BY <1>1, <2>2
<1>12. ASSUME NEW k \in 1 .. n, k - 1 \in Good
       PROVE  k \in Good
  <2>1. g[k - 1] \in Seq(Literal) /\ ToSet(g[k - 1]) = {c[j] : j \in 1 .. k - 1}
    BY <1>12
  <2>2. g[k] \in Seq(Literal) /\ ToSet(g[k]) = ToSet(g[k - 1]) \cup {c[k]}
    BY <1>1, <1>10, <2>1, InsertFacts
  <2>3. {c[j] : j \in 1 .. k} = {c[j] : j \in 1 .. k - 1} \cup {c[k]}
    BY <1>1
  <2>4. Exact(k)
    BY <2>1, <2>2, <2>3
  <2> HIDE DEF Exact
  <2> QED
    BY <1>1, <2>4
<1>13. Good \in SUBSET (0 .. n)
  OBVIOUS
<1>14. n \in Good
  <2> HIDE DEF Good, n
  <2>1. Good = 0 .. n
    BY <1>1, <1>11, <1>12, <1>13, Climb
  <2> QED
    BY <1>1, <2>1
<1>15. {c[j] : j \in 1 .. n} = ToSet(c)
  BY <1>1 DEF ToSet
<1> QED
  BY <1>9, <1>14, <1>15

\* Picking out places of a clause, in their order.
Picks(r, c, places, left) ==
  /\ DOMAIN r = DOMAIN left
  /\ \A m \in DOMAIN left : r[m] = c[left[m]]
  /\ \A m, k \in DOMAIN left : m < k => left[m] < left[k]
  /\ {left[m] : m \in DOMAIN left} = places

LEMMA InOrderFacts ==
  ASSUME NEW E, NEW c \in Seq(E), NEW places, places \subseteq 1 .. Len(c)
  PROVE  /\ InOrder(c, places) \in Seq(E)
         /\ \E left \in Seq(places) : Picks(InOrder(c, places), c, places, left)
<1> DEFINE ids == [m \in 1 .. Len(c) |-> m]
           left == Kept(ids, places)
<1>1. Len(c) \in Nat /\ DOMAIN c = 1 .. Len(c) /\ \A m \in 1 .. Len(c) : c[m] \in E
  BY ElementOfSeq
<1>2. ids \in Seq(1 .. Len(c)) /\ DOMAIN ids = 1 .. Len(c) /\ \A m \in 1 .. Len(c) : ids[m] = m
  BY <1>1
<1>3. InOrder(c, places) = [m \in DOMAIN left |-> c[left[m]]]
  BY DEF InOrder
<1> HIDE DEF ids
<1>4. left \in Seq(1 .. Len(c)) /\ ToSet(left) = ToSet(ids) \cap places
  BY <1>2, KeptSet
<1>5. \A i, j \in DOMAIN left : i < j =>
        \E m, n \in DOMAIN ids : m < n /\ left[i] = ids[m] /\ left[j] = ids[n]
  BY <1>2, KeptOrder
<1> HIDE DEF left
<1>6. ToSet(left) = places
  BY <1>2, <1>4 DEF ToSet
<1>7. /\ Len(left) \in Nat /\ DOMAIN left = 1 .. Len(left)
      /\ \A m \in DOMAIN left : left[m] \in places
  BY <1>4, <1>6 DEF ToSet
<1>8. left \in Seq(places)
  <2>1. left \in [1 .. Len(left) -> places]
    BY <1>4, <1>7
  <2> QED
    BY <1>7, <2>1, FunctionIsSeq
<1>9. \A m, k \in DOMAIN left : m < k => left[m] < left[k]
  BY <1>2, <1>5
<1>10. \A m \in DOMAIN left : c[left[m]] \in E
  BY <1>1, <1>7
<1>11. [m \in DOMAIN left |-> c[left[m]]] \in Seq(E)
  <2> PICK r : r = [m \in DOMAIN left |-> c[left[m]]]
    OBVIOUS
  <2>1. r \in [1 .. Len(left) -> E]
    BY <1>7, <1>10
  <2> QED
    BY <1>7, <2>1, FunctionIsSeq
<1>12. Picks(InOrder(c, places), c, places, left)
  BY <1>3, <1>6, <1>9 DEF ToSet, Picks
<1> QED
  BY <1>3, <1>8, <1>11, <1>12

\* What the loop of addClause_ keeps: of the first n literals those that are not false,
\* each once; there are no more of them.
LEMMA KeptOfFacts ==
  ASSUME NEW c \in Seq(Literal), NEW n \in 0 .. Len(c)
  PROVE  /\ KeptOf(c, n) \in Seq(Literal)
         /\ ToSet(KeptOf(c, n)) = {l \in {c[m] : m \in 1 .. n} : ~IsFalse(l)}
         /\ IsInjective(KeptOf(c, n))
         /\ Len(KeptOf(c, n)) <= n
<1> DEFINE places == {m \in OpenPlaces(c, n) : \A k \in 1 .. m - 1 : c[k] # c[m]}
           r == InOrder(c, places)
<1>1. Len(c) \in Nat /\ DOMAIN c = 1 .. Len(c) /\ 1 .. n \subseteq 1 .. Len(c) /\ n \in Nat
  OBVIOUS
<1>2. places \subseteq 1 .. n /\ places \subseteq 1 .. Len(c)
  BY <1>1 DEF OpenPlaces
<1>3. KeptOf(c, n) = r
  BY DEF KeptOf
<1>4. \A m \in places : ~IsFalse(c[m]) /\ \A k \in 1 .. m - 1 : c[k] # c[m]
  BY DEF OpenPlaces
<1>5. \A m \in 1 .. n : ~IsFalse(c[m]) => \E k \in places : c[k] = c[m]
  <2> SUFFICES ASSUME NEW m \in 1 .. n, ~IsFalse(c[m])
               PROVE  \E k \in places : c[k] = c[m]
    OBVIOUS
  <2> DEFINE same == {k \in 1 .. n : c[k] = c[m]}
  <2>1. same \subseteq Nat /\ m \in same
    OBVIOUS
  <2>2. PICK k \in same : \A j \in same : k <= j
    BY <2>1, LeastNumber
  <2>3. \A j \in 1 .. k - 1 : j \in 1 .. n /\ j < k
    BY <2>2
  <2>4. \A j \in 1 .. k - 1 : c[j] # c[k]
    BY <2>2, <2>3
  <2>5. ~IsFalse(c[k]) /\ c[k] = c[m] /\ k \in 1 .. n
    BY <2>2
  <2> QED
    BY <2>4, <2>5 DEF OpenPlaces
<1> HIDE DEF places
<1>06. r \in Seq(Literal) /\ \E left \in Seq(places) : Picks(r, c, places, left)
  BY <1>2, InOrderFacts
<1> HIDE DEF r
<1>6. PICK left \in Seq(places) :
        /\ r \in Seq(Literal)
        /\ DOMAIN r = DOMAIN left
        /\ \A m \in DOMAIN left : r[m] = c[left[m]]
        /\ \A m, k \in DOMAIN left : m < k => left[m] < left[k]
        /\ {left[m] : m \in DOMAIN left} = places
  BY <1>06 DEF Picks
<1>7. ToSet(r) = {c[m] : m \in places}
  <2>1. ToSet(r) = {r[m] : m \in DOMAIN left}
    BY <1>6 DEF ToSet
  <2> QED
    BY <1>6, <2>1
<1>8. {c[m] : m \in places} = {l \in {c[m] : m \in 1 .. n} : ~IsFalse(l)}
  BY <1>2, <1>4, <1>5
<1>9. DOMAIN left = 1 .. Len(left) /\ Len(left) \in Nat /\ \A m \in DOMAIN left : left[m] \in places
  BY <1>6
<1>10. \A m, k \in DOMAIN r : m < k => r[m] # r[k]
  <2> SUFFICES ASSUME NEW m \in DOMAIN left, NEW k \in DOMAIN left, m < k
               PROVE  r[m] # r[k]
    BY <1>6
  <2>1. left[m] < left[k] /\ left[m] \in 1 .. n /\ left[k] \in places /\ left[k] \in 1 .. n
    BY <1>2, <1>6, <1>9
  <2>2. left[m] \in 1 .. left[k] - 1
    BY <2>1
  <2> QED
    BY <1>4, <1>6, <2>1, <2>2
<1>11. IsInjective(r)
  <2>1. \A m, k \in DOMAIN r : m = k \/ m < k \/ k < m
    BY <1>6, <1>9
  <2> QED
    BY <1>10, <2>1 DEF IsInjective
<1>12. Len(r) <= n
  <2>1. left \in Seq(1 .. n)
    <3>1. left \in [1 .. Len(left) -> places]
      BY <1>9, <1>6
    <3>2. left \in [1 .. Len(left) -> 1 .. n]
      BY <1>2, <3>1
    <3> QED
      BY <1>9, <3>2, FunctionIsSeq
  <2>2. Len(left) <= n
    BY <1>1, <1>6, <2>1, RisingPlaces
  <2>3. Len(r) = Len(left)
    BY <1>6
  <2> QED
    BY <2>2, <2>3
<1> QED
  BY <1>3, <1>6, <1>7, <1>8, <1>11, <1>12

Contradictory(c) == \E l \in ToSet(c) : -l \in ToSet(c)

\* A clause that is not satisfied and not contradictory keeps its literals that are not false.
LEMMA RewrittenFacts ==
  ASSUME NEW c \in Seq(Literal), ~IsTautologie(c)
  PROVE  /\ Rewritten(c) \in Seq(Literal)
         /\ ToSet(Rewritten(c)) = {l \in ToSet(c) : ~IsFalse(l)}
         /\ \A l \in ToSet(c) : ~IsTrue(l)
         /\ IsInjective(Rewritten(c))
<1>1. Len(c) \in 0 .. Len(c) /\ ToSet(c) = {c[m] : m \in 1 .. Len(c)}
  BY DEF ToSet
<1>2. Rewritten(c) = KeptOf(c, Len(c))
  BY DEF Rewritten
<1>3. /\ KeptOf(c, Len(c)) \in Seq(Literal)
      /\ ToSet(KeptOf(c, Len(c))) = {l \in {c[m] : m \in 1 .. Len(c)} : ~IsFalse(l)}
      /\ IsInjective(KeptOf(c, Len(c)))
  BY <1>1, KeptOfFacts
<1>4. \A n \in DOMAIN c : ~IsTrue(c[n])
  BY DEF IsTautologie, StopsAt
<1> QED
  BY <1>1, <1>2, <1>3, <1>4 DEF ToSet

\* Where it stops the clause is satisfied, or it has both literals of a variable.
LEMMA TautologieFacts ==
  ASSUME NEW c \in Seq(Literal), IsTautologie(c)
  PROVE  IsSat(c) \/ Contradictory(c)
<1>1. PICK n \in DOMAIN c : IsTrue(c[n]) \/ \E m \in 1 .. n - 1 : c[m] = -c[n]
  BY DEF IsTautologie, StopsAt
<1>2. \A m \in 1 .. n - 1 : m \in DOMAIN c
  OBVIOUS
<1> QED
  BY <1>1, <1>2 DEF IsSat, Contradictory, ToSet

\* What overwrites the front of the clause leaves the literal it stops at, and has kept the
\* opposite one: the clause stays satisfied or contradictory.
LEMMA OverwrittenFacts ==
  ASSUME NEW c \in Seq(Literal), IsTautologie(c)
  PROVE  /\ Rewritten(c) \in Seq(Literal)
         /\ IsSat(Rewritten(c)) \/ Contradictory(Rewritten(c))
<1> DEFINE n == Min(StopsAt(c))
           left == KeptOf(c, n - 1)
           back == SubSeq(c, Len(left) + 1, Len(c))
<1>1. Len(c) \in Nat /\ DOMAIN c = 1 .. Len(c) /\ \A m \in 1 .. Len(c) : c[m] \in Literal
  BY ElementOfSeq
<1>2. StopsAt(c) \subseteq Nat /\ StopsAt(c) # {}
  BY <1>1 DEF IsTautologie, StopsAt
<1>3. PICK x \in StopsAt(c) : \A y \in StopsAt(c) : x <= y
  BY <1>2, LeastNumber
<1>4. n \in StopsAt(c)
  BY <1>3 DEF Min
<1>5. n \in 1 .. Len(c) /\ (IsTrue(c[n]) \/ \E m \in 1 .. n - 1 : c[m] = -c[n])
  BY <1>1, <1>4 DEF StopsAt
<1>6. Rewritten(c) = left \o back
  BY DEF Rewritten, Overwritten
<1> HIDE DEF n
<1>7. n - 1 \in 0 .. Len(c)
  BY <1>1, <1>5
<1>8. /\ left \in Seq(Literal)
      /\ ToSet(left) = {l \in {c[m] : m \in 1 .. n - 1} : ~IsFalse(l)}
      /\ Len(left) <= n - 1
  BY <1>7, KeptOfFacts
<1> HIDE DEF left
<1>9. Len(left) \in Nat /\ Len(left) + 1 \in 1 .. n /\ Len(left) + 1 \in Nat
  BY <1>5, <1>8
<1>10. \A m \in Len(left) + 1 .. Len(c) : c[m] \in Literal
  BY <1>1, <1>9
<1>11. /\ back \in Seq(Literal)
       /\ Len(back) = Len(c) - Len(left)
       /\ \A m \in 1 .. Len(c) - Len(left) : back[m] = c[Len(left) + m]
  BY <1>1, <1>5, <1>9, <1>10, SubSeqProperties
<1> HIDE DEF back
<1>12. c[n] \in ToSet(back)
  <2>1. n - Len(left) \in 1 .. Len(c) - Len(left) /\ Len(left) + (n - Len(left)) = n
    BY <1>1, <1>5, <1>9
  <2>2. back[n - Len(left)] = c[n] /\ n - Len(left) \in DOMAIN back
    BY <1>11, <2>1
  <2> QED
    BY <2>2 DEF ToSet
<1>13. left \o back \in Seq(Literal) /\ ToSet(left \o back) = ToSet(left) \cup ToSet(back)
  BY <1>8, <1>11, ConcatFacts
<1>14. CASE IsTrue(c[n])
  BY <1>6, <1>12, <1>13, <1>14 DEF IsSat
<1>15. CASE ~IsTrue(c[n])
  <2>1. PICK m \in 1 .. n - 1 : c[m] = -c[n]
    BY <1>5, <1>15
  <2>2. -c[m] = c[n] /\ -c[n] = c[m]
    BY <1>1, <1>5, <2>1, LiteralFacts
  <2>3. c[m] \in ToSet(left)
    BY <1>8, <1>15, <2>2 DEF IsFalse, IsTrue
  <2> QED
    BY <1>6, <1>12, <1>13, <2>2, <2>3 DEF Contradictory
<1> QED
  BY <1>6, <1>13, <1>14, <1>15

-----------------------------------------------------------------------------
(* propagate, and the models.                                              *)

Satisfies(A, cs) == \A i \in DOMAIN cs : ToSet(cs[i]) \cap A # {}

\* A model has one literal of each variable.
LEMMA TotalFacts ==
  ASSUME NEW A \in Total
  PROVE  A \in SUBSET Literal /\ \A l \in Literal : l \in A <=> -l \notin A
<1>1. A \in SUBSET Literal /\ \A v \in Var : (v \in A) # (-v \in A)
  BY DEF Total
<1>2. \A l \in Literal : l \in Var \/ \E v \in Var : l = -v
  BY DEF Literal
<1>3. \A v \in Var : -(-v) = v /\ v \in Literal /\ -v \in Literal
  BY VarAssumption DEF Literal
<1> QED
  BY <1>1, <1>2, <1>3

\* What propagation gives is closed, and is in every closed set.
LEMMA PropagateFacts ==
  ASSUME NEW S \in SUBSET Literal, NEW cs \in Seq(Seq(Literal))
  PROVE  /\ Propagate(S, cs) \in SUBSET Literal
         /\ S \subseteq Propagate(S, cs)
         /\ ClosedUnder(Propagate(S, cs), cs)
         /\ \A T \in SUBSET Literal : S \subseteq T /\ ClosedUnder(T, cs) => Propagate(S, cs) \subseteq T
<1>1. Propagate(S, cs) \in SUBSET Literal /\ S \subseteq Propagate(S, cs)
  BY DEF Propagate
<1>2. \A T \in SUBSET Literal : S \subseteq T /\ ClosedUnder(T, cs) => Propagate(S, cs) \subseteq T
  BY DEF Propagate
<1>3. ClosedUnder(Propagate(S, cs), cs)
  <2> SUFFICES ASSUME NEW i \in DOMAIN cs, NEW l \in ToSet(cs[i]),
                      \A m \in ToSet(cs[i]) \ {l} : -m \in Propagate(S, cs)
               PROVE  l \in Propagate(S, cs)
    BY DEF ClosedUnder
  <2>1. cs[i] \in Seq(Literal)
    BY ElementOfSeq
  <2>2. l \in Literal
    BY <2>1, ElementOfSeq DEF ToSet
  <2>3. ASSUME NEW T \in SUBSET Literal, S \subseteq T, ClosedUnder(T, cs)
        PROVE  l \in T
    <3>1. \A m \in ToSet(cs[i]) \ {l} : -m \in T
      BY <1>2, <2>3
    <3> QED
      BY <2>3, <3>1 DEF ClosedUnder
  <2> QED
    BY <2>2, <2>3 DEF Propagate
<1> QED
  BY <1>1, <1>2, <1>3

\* A model of the clauses is closed under them, so that it has all that is propagated.
LEMMA ModelPropagates ==
  ASSUME NEW S \in SUBSET Literal, NEW cs \in Seq(Seq(Literal)),
         NEW A \in Total, Satisfies(A, cs), S \subseteq A
  PROVE  Propagate(S, cs) \subseteq A
<1>1. A \in SUBSET Literal /\ \A l \in Literal : l \in A <=> -l \notin A
  BY TotalFacts
<1>2. ClosedUnder(A, cs)
  <2> SUFFICES ASSUME NEW i \in DOMAIN cs, NEW l \in ToSet(cs[i]),
                      \A m \in ToSet(cs[i]) \ {l} : -m \in A
               PROVE  l \in A
    BY DEF ClosedUnder
  <2>1. PICK m \in ToSet(cs[i]) : m \in A
    BY DEF Satisfies
  <2>2. m \in Literal
    BY <1>1, <2>1
  <2> QED
    BY <1>1, <2>1, <2>2
<1> QED
  BY <1>1, <1>2, PropagateFacts

-----------------------------------------------------------------------------
(* What the occurrence manager is given of a clause.                       *)

LEMMA OpenFacts ==
  ASSUME NEW c \in Seq(Literal)
  PROVE  /\ Open(c) \in Seq(Literal)
         /\ ToSet(Open(c)) = {l \in ToSet(c) : ~IsTrue(l) /\ ~IsFalse(l)}
         /\ IsInjective(c) => IsInjective(Open(c))
<1> DEFINE S == {l \in Literal : ~IsTrue(l) /\ ~IsFalse(l)}
           k == Kept(c, S)
<1>1. ToSet(c) \subseteq Literal /\ DOMAIN c = 1 .. Len(c)
  BY ElementOfSeq DEF ToSet
<1>3. Open(c) = Kept(c, S)
  BY DEF Open
<1>5. ToSet(c) \cap S = {l \in ToSet(c) : ~IsTrue(l) /\ ~IsFalse(l)}
  BY <1>1
<1> HIDE DEF S
<1>2. Kept(c, S) \in Seq(Literal) /\ ToSet(Kept(c, S)) = ToSet(c) \cap S
  BY KeptSet
<1>4. \A i, j \in DOMAIN Kept(c, S) : i < j =>
        \E m, n \in DOMAIN c : m < n /\ Kept(c, S)[i] = c[m] /\ Kept(c, S)[j] = c[n]
  BY KeptOrder
<1>6. /\ k \in Seq(Literal) /\ ToSet(k) = {l \in ToSet(c) : ~IsTrue(l) /\ ~IsFalse(l)}
      /\ \A i, j \in DOMAIN k : i < j =>
           \E m, n \in DOMAIN c : m < n /\ k[i] = c[m] /\ k[j] = c[n]
  BY <1>2, <1>4, <1>5
<1> HIDE DEF k
<1>7. DOMAIN k = 1 .. Len(k) /\ Len(k) \in Nat
  BY <1>6
<1>8. ASSUME IsInjective(c)
      PROVE  IsInjective(k)
  <2>1. \A i, j \in DOMAIN k : i < j => k[i] # k[j]
    BY <1>1, <1>6, <1>8 DEF IsInjective
  <2>2. \A i, j \in DOMAIN k : i = j \/ i < j \/ j < i
    BY <1>7
  <2> QED
    BY <2>1, <2>2 DEF IsInjective
<1> QED
  BY <1>3, <1>6, <1>8 DEF k

\* Two literals are more than one.
LEMMA TwoLiterals ==
  ASSUME NEW c \in Seq(Literal), NEW l \in ToSet(c), NEW m \in ToSet(c), l # m
  PROVE  Cardinality(ToSet(c)) > 1
<1>1. IsFiniteSet(ToSet(c)) 
  <2>1. Len(c) \in Nat /\ DOMAIN c = 1 .. Len(c)
    OBVIOUS
  <2>2. IsFiniteSet(1 .. Len(c))
    BY <2>1, FS_Interval
  <2>3. c \in [1 .. Len(c) -> ToSet(c)] /\ \A x \in ToSet(c) : \E i \in 1 .. Len(c) : c[i] = x
    BY <2>1 DEF ToSet
  <2>4. c \in Surjection(1 .. Len(c), ToSet(c))
    BY <2>3 DEF Surjection
  <2> QED
    BY <2>2, <2>4, FS_Surjection
<1> PICK T : T = ToSet(c)
  OBVIOUS
<1>2. IsFiniteSet(T) /\ l \in T /\ m \in T
  BY <1>1
<1>3. Cardinality(T) \in Nat
  BY <1>2, FS_CardinalityType
<1>4. Cardinality(T) # 0
  BY <1>2, FS_EmptySet
<1>5. Cardinality(T) # 1
  BY <1>2, FS_Singleton
<1> QED
  BY <1>3, <1>4, <1>5

-----------------------------------------------------------------------------
(* The inductive invariant.                                                *)

SatBy(S, c) == \E l \in ToSet(c) : l \in S
Settled(S, c, cs) == SatBy(S, c) \/ Contradictory(c) \/ c \in ToSet(cs)

\* With the trail S, the clauses cs and, of the clauses `in` of the file, those at R still to
\* add: what has become of the others is in f.
Added(S, cs, f, in, R) ==
  /\ ClosedUnder(S, cs)
  /\ \A c \in ToSet(cs) : c # <<>> /\ IsInjective(c) /\ \E k \in DOMAIN f \ R : f[k] = c
  /\ DOMAIN f = DOMAIN in
  /\ \A k \in DOMAIN f \ R : Settled(S, f[k], cs)
  /\ \A k \in R : f[k] = in[k]
  /\ \A A \in Total : Satisfies(A, in) <=> /\ S \subseteq A /\ Satisfies(A, cs)
                                           /\ \A k \in R : ToSet(f[k]) \cap A # {}

\* What one clause is for the occurrence manager.
GivenRight(S, c, counter) ==
  /\ Cardinality(ToSet(c)) > 1
  /\ \A l \in ToSet(c) : l \notin S /\ -l \notin S
  /\ IsInjective(c) \/ (counter /\ Contradictory(c))

\* The clauses src before n are copied.
Copied(S, src, cls, n, counter) ==
  /\ \A A \in Total : S \subseteq A =>
       (Satisfies(A, src) <=> /\ Satisfies(A, cls)
                              /\ \A k \in DOMAIN src : n <= k => ToSet(src[k]) \cap A # {})
  /\ \A i \in DOMAIN cls : GivenRight(S, cls[i], counter)

OverLiterals(f) ==
  /\ f \in Seq(ToSet(f))
  /\ \A token \in ToSet(f) : token.kind = "int" => token.value \in Literal \cup {0}

ReadTyped ==
  /\ invocation \in Invocations
  /\ args \in Seq(ToSet(invocation.args))
  /\ kept \in Seq(PlainNames(invocation))
  /\ OverLiterals(file.cnf)
  /\ rest \in Seq(ToSet(file.cnf))
  /\ input \in Seq(Seq(Literal))

NotStarted ==
  pc \in {"options", "open", "cnf", "weights", "projected", "parsed"} =>
    next = 1 /\ units = {} /\ attached = <<>> /\ clauses = <<>>

IntakeTyped ==
  /\ cnf \in Seq(Seq(Literal)) /\ attached \in Seq(Seq(Literal)) /\ clauses \in Seq(Seq(Literal))
  /\ units \in SUBSET Literal /\ next \in Nat \ {0}

\* The clauses from n on.
ToAdd(f, n) == {k \in DOMAIN f : n <= k}
Remaining == IF pc = "add" THEN ToAdd(cnf, next) ELSE {}

IInv ==
  /\ ReadTyped /\ NotStarted /\ IntakeTyped
  /\ pc \in {"add", "copy", "ready"} => Added(units, attached, cnf, input, Remaining)
  /\ pc = "add" => clauses = <<>>
  /\ pc \in {"copy", "ready"} => Copied(units, Source, clauses, next, engine = "counter")
  /\ pc = "ready" => next > Len(Source)
  /\ pc = "unsat" => \A A \in Total : ~Satisfies(A, input)

\* What the search is given has the models of the clauses read.
ModelsOfInput ==
  /\ pc = "ready" => ModelsOf(units, clauses) = ModelsOf({}, input)
  /\ pc = "unsat" => ModelsOf({}, input) = {}

-----------------------------------------------------------------------------
(* Adding a clause.                                                        *)

\* A clause with a literal of a model's is satisfied; one with both of a variable always is.
LEMMA SettledByModel ==
  ASSUME NEW S, NEW c \in Seq(Literal), SatBy(S, c) \/ Contradictory(c),
         NEW A \in Total, S \subseteq A
  PROVE  ToSet(c) \cap A # {}
<1>1. \A l \in Literal : l \in A <=> -l \notin A
  BY TotalFacts
<1>2. ToSet(c) \subseteq Literal
  BY ElementOfSeq DEF ToSet
<1> QED
  BY <1>1, <1>2 DEF SatBy, Contradictory

LEMMA SettledMore ==
  ASSUME NEW S, NEW T, S \subseteq T, NEW cs, NEW ds, ToSet(cs) \subseteq ToSet(ds),
         NEW c, Settled(S, c, cs)
  PROVE  Settled(T, c, ds)
BY DEF Settled, SatBy

\* The clause at n is turned into ps, and the others are left to add.
Put(f, n, ps) == [f EXCEPT ![n] = ps]
IsPut(g, f, n, ps) ==
  /\ g \in Seq(Seq(Literal)) /\ DOMAIN g = DOMAIN f /\ g[n] = ps
  /\ n \in ToAdd(f, n) /\ n \notin ToAdd(f, n + 1) /\ ToAdd(f, n) = ToAdd(f, n + 1) \cup {n}
  /\ DOMAIN f \ ToAdd(f, n + 1) = (DOMAIN f \ ToAdd(f, n)) \cup {n}
  /\ ToAdd(f, n) \subseteq DOMAIN f
  /\ \A k \in DOMAIN f \ {n} : g[k] = f[k]

LEMMA OneLess ==
  ASSUME NEW f \in Seq(Seq(Literal)), NEW n \in DOMAIN f, NEW ps \in Seq(Literal)
  PROVE  IsPut(Put(f, n, ps), f, n, ps)
<1> USE DEF Put, IsPut
<1> DEFINE R == ToAdd(f, n)
           Q == ToAdd(f, n + 1)
<1>1. DOMAIN f = 1 .. Len(f) /\ Len(f) \in Nat /\ n \in Nat
  OBVIOUS
<1>2. \A k \in DOMAIN f : n <= k <=> (n + 1 <= k \/ k = n)
  BY <1>1
<1>3. n \in R /\ n \notin Q /\ R = Q \cup {n}
  BY <1>1, <1>2 DEF ToAdd
<1>4. R \subseteq DOMAIN f
  BY DEF ToAdd
<1> HIDE DEF R, Q
<1>5. DOMAIN f \ Q = (DOMAIN f \ R) \cup {n}
  BY <1>3, <1>4
<1> QED
  BY <1>1, <1>3, <1>4, <1>5 DEF R, Q

LEMMA AddedTautologie ==
  ASSUME NEW S \in SUBSET Literal, NEW cs \in Seq(Seq(Literal)),
         NEW f \in Seq(Seq(Literal)), NEW in \in Seq(Seq(Literal)), NEW n \in DOMAIN f,
         Added(S, cs, f, in, ToAdd(f, n)), NEW ps \in Seq(Literal),
         SatBy(S, f[n]) \/ Contradictory(f[n]),
         SatBy(S, ps) \/ Contradictory(ps)
  PROVE  Added(S, cs, Put(f, n, ps), in, ToAdd(f, n + 1))
<1> DEFINE g == Put(f, n, ps)
           R == ToAdd(f, n)
           Q == ToAdd(f, n + 1)
<1>0. IsPut(g, f, n, ps)
  BY OneLess
<1>1. /\ DOMAIN g = DOMAIN f /\ g[n] = ps
      /\ n \in R /\ n \notin Q /\ R = Q \cup {n}
      /\ DOMAIN f \ Q = (DOMAIN f \ R) \cup {n}
      /\ R \subseteq DOMAIN f
      /\ \A k \in DOMAIN f \ {n} : g[k] = f[k]
  BY <1>0 DEF IsPut
<1> HIDE DEF g, R, Q
<1>2. /\ ClosedUnder(S, cs)
      /\ \A c \in ToSet(cs) : c # <<>> /\ IsInjective(c) /\ \E k \in DOMAIN f \ R : f[k] = c
      /\ DOMAIN f = DOMAIN in
      /\ \A k \in DOMAIN f \ R : Settled(S, f[k], cs)
      /\ \A k \in R : f[k] = in[k]
      /\ \A A \in Total : Satisfies(A, in) <=> /\ S \subseteq A /\ Satisfies(A, cs)
                                               /\ \A k \in R : ToSet(f[k]) \cap A # {}
  BY DEF Added, R
<1>3. \A c \in ToSet(cs) : \E k \in DOMAIN g \ Q : g[k] = c
  BY <1>1, <1>2
<1>4. Settled(S, g[n], cs)
  BY <1>1 DEF Settled
<1>5. \A k \in DOMAIN g \ Q : Settled(S, g[k], cs)
  BY <1>1, <1>2, <1>4
<1>6. \A k \in Q : k \in DOMAIN f /\ k # n /\ k \in R /\ g[k] = f[k]
  BY <1>1
<1>7. f[n] \in Seq(Literal)
  BY ElementOfSeq
<1>8. ASSUME NEW A \in Total
      PROVE  Satisfies(A, in) <=> /\ S \subseteq A /\ Satisfies(A, cs)
                                  /\ \A k \in Q : ToSet(g[k]) \cap A # {}
  <2>1. S \subseteq A => ToSet(f[n]) \cap A # {}
    BY <1>7, SettledByModel
  <2>2. (\A k \in R : ToSet(f[k]) \cap A # {})
          <=> (ToSet(f[n]) \cap A # {} /\ \A k \in Q : ToSet(g[k]) \cap A # {})
    BY <1>1, <1>6
  <2> QED
    BY <1>2, <2>1, <2>2
<1>9. Added(S, cs, g, in, Q)
  BY <1>1, <1>2, <1>3, <1>5, <1>6, <1>8 DEF Added
<1> QED
  BY <1>9 DEF g, Q

\* What is left of a clause without its false literals.
NotFalse(S, c) == {l \in ToSet(c) : -l \notin S}

LEMMA AtMostOne ==
  ASSUME NEW E, NEW ps \in Seq(E), Len(ps) <= 1
  PROVE  ps = <<>> \/ \E l \in E : ToSet(ps) = {l}
<1>1. Len(ps) \in Nat /\ DOMAIN ps = 1 .. Len(ps) /\ \A i \in 1 .. Len(ps) : ps[i] \in E
  BY ElementOfSeq
<1>2. CASE Len(ps) = 0
  BY <1>2, EmptySeq
<1>3. CASE Len(ps) = 1
  <2>1. DOMAIN ps = {1} /\ ps[1] \in E
    BY <1>1, <1>3
  <2>2. ToSet(ps) = {ps[1]}
    BY <2>1 DEF ToSet
  <2> QED
    BY <2>1, <2>2
<1> QED
  BY <1>1, <1>2, <1>3

LEMMA AddedUnit ==
  ASSUME NEW S \in SUBSET Literal, NEW cs \in Seq(Seq(Literal)),
         NEW f \in Seq(Seq(Literal)), NEW in \in Seq(Seq(Literal)), NEW n \in DOMAIN f,
         Added(S, cs, f, in, ToAdd(f, n)), NEW ps \in Seq(Literal),
         ToSet(ps) = NotFalse(S, f[n]),
         NEW u, ToSet(ps) = {u}
  PROVE  Added(Propagate(S \cup ToSet(ps), cs), cs, Put(f, n, ps), in, ToAdd(f, n + 1))
<1> DEFINE g == Put(f, n, ps)
           R == ToAdd(f, n)
           Q == ToAdd(f, n + 1)
           T == Propagate(S \cup ToSet(ps), cs)
<1>0. IsPut(g, f, n, ps)
  BY OneLess
<1>1. /\ DOMAIN g = DOMAIN f /\ g[n] = ps
      /\ n \in R /\ n \notin Q /\ R = Q \cup {n}
      /\ DOMAIN f \ Q = (DOMAIN f \ R) \cup {n}
      /\ R \subseteq DOMAIN f
      /\ \A k \in DOMAIN f \ {n} : g[k] = f[k]
  BY <1>0 DEF IsPut
<1>7. f[n] \in Seq(Literal)
  BY ElementOfSeq
<1>70. ToSet(ps) \subseteq Literal
  BY ElementOfSeq DEF ToSet
<1>71. S \cup ToSet(ps) \in SUBSET Literal
  BY <1>70
<1>72. /\ T \in SUBSET Literal /\ S \cup ToSet(ps) \subseteq T /\ ClosedUnder(T, cs)
  BY <1>71, PropagateFacts
<1>73. \A A \in Total : Satisfies(A, cs) /\ S \cup ToSet(ps) \subseteq A => T \subseteq A
  BY <1>71, ModelPropagates
<1> HIDE DEF g, R, Q, T
<1>2. /\ ClosedUnder(S, cs)
      /\ \A c \in ToSet(cs) : c # <<>> /\ IsInjective(c) /\ \E k \in DOMAIN f \ R : f[k] = c
      /\ DOMAIN f = DOMAIN in
      /\ \A k \in DOMAIN f \ R : Settled(S, f[k], cs)
      /\ \A k \in R : f[k] = in[k]
      /\ \A A \in Total : Satisfies(A, in) <=> /\ S \subseteq A /\ Satisfies(A, cs)
                                               /\ \A k \in R : ToSet(f[k]) \cap A # {}
  BY DEF Added, R
<1>3. \A c \in ToSet(cs) : \E k \in DOMAIN g \ Q : g[k] = c
  BY <1>1, <1>2
<1>4. Settled(T, g[n], cs)
  BY <1>1, <1>72 DEF Settled, SatBy
<1>40. \A k \in DOMAIN f \ R : Settled(T, f[k], cs)
  BY <1>2, <1>72, SettledMore
<1>5. \A k \in DOMAIN g \ Q : Settled(T, g[k], cs)
  BY <1>1, <1>4, <1>40
<1>6. \A k \in Q : k \in DOMAIN f /\ k # n /\ k \in R /\ g[k] = f[k]
  BY <1>1
<1>8. ASSUME NEW A \in Total
      PROVE  Satisfies(A, in) <=> /\ T \subseteq A /\ Satisfies(A, cs)
                                  /\ \A k \in Q : ToSet(g[k]) \cap A # {}
  <2>1. ASSUME S \subseteq A
        PROVE  ToSet(f[n]) \cap A # {} <=> u \in A
    <3>1. \A l \in Literal : l \in A <=> -l \notin A
      BY TotalFacts
    <3>2. ToSet(f[n]) \subseteq Literal
      BY <1>7, ElementOfSeq DEF ToSet
    <3> QED
      BY <2>1, <3>1, <3>2 DEF NotFalse
  <2>2. (\A k \in R : ToSet(f[k]) \cap A # {})
          <=> (ToSet(f[n]) \cap A # {} /\ \A k \in Q : ToSet(g[k]) \cap A # {})
    BY <1>1, <1>6
  <2>3. Satisfies(A, cs) => (S \subseteq A /\ u \in A <=> T \subseteq A)
    BY <1>72, <1>73
  <2> QED
    BY <1>2, <2>1, <2>2, <2>3
<1>9. Added(T, cs, g, in, Q)
  BY <1>1, <1>2, <1>3, <1>5, <1>6, <1>72, <1>8 DEF Added
<1> QED
  BY <1>9 DEF g, Q, T

\* An empty clause, or two literals that contradict each other: no model.
LEMMA AddedConflict ==
  ASSUME NEW S \in SUBSET Literal, NEW cs \in Seq(Seq(Literal)),
         NEW f \in Seq(Seq(Literal)), NEW in \in Seq(Seq(Literal)), NEW n \in DOMAIN f,
         Added(S, cs, f, in, ToAdd(f, n)), NEW ps \in Seq(Literal),
         ToSet(ps) = NotFalse(S, f[n]), Len(ps) <= 1,
         ps = <<>> \/ Conflict(Propagate(S \cup ToSet(ps), cs)),
         NEW A \in Total
  PROVE  ~Satisfies(A, in)
<1> SUFFICES ASSUME Satisfies(A, in)
             PROVE  FALSE
  OBVIOUS
<1>1. /\ S \subseteq A /\ Satisfies(A, cs)
      /\ \A k \in ToAdd(f, n) : ToSet(f[k]) \cap A # {}
  BY DEF Added
<1>2. n \in ToAdd(f, n)
  BY DEF ToAdd
<1>3. f[n] \in Seq(Literal)
  BY ElementOfSeq
<1>10. A \in SUBSET Literal /\ \A l \in Literal : l \in A <=> -l \notin A
  BY TotalFacts
<1>4. ToSet(ps) \cap A # {}
  <2>1. ToSet(f[n]) \cap A # {}
    BY <1>1, <1>2
  <2>2. ToSet(f[n]) \subseteq Literal
    BY <1>3, ElementOfSeq DEF ToSet
  <2> QED
    BY <1>1, <1>10, <2>1, <2>2 DEF NotFalse
<1>5. ps # <<>>
  BY <1>4 DEF ToSet
<1>6. ToSet(ps) \subseteq A
  BY <1>4, <1>5, AtMostOne
<1>7. ToSet(ps) \subseteq Literal
  BY ElementOfSeq DEF ToSet
<1>8. S \cup ToSet(ps) \in SUBSET Literal /\ S \cup ToSet(ps) \subseteq A
  BY <1>1, <1>6, <1>7
<1>9. Propagate(S \cup ToSet(ps), cs) \subseteq A
  BY <1>1, <1>8, ModelPropagates
<1> QED
  BY <1>5, <1>9, <1>10 DEF Conflict

LEMMA AddedAttach ==
  ASSUME NEW S \in SUBSET Literal, NEW cs \in Seq(Seq(Literal)),
         NEW f \in Seq(Seq(Literal)), NEW in \in Seq(Seq(Literal)), NEW n \in DOMAIN f,
         Added(S, cs, f, in, ToAdd(f, n)), NEW ps \in Seq(Literal),
         ToSet(ps) = NotFalse(S, f[n]), Len(ps) > 1, IsInjective(ps)
  PROVE  Added(S, Append(cs, ps), Put(f, n, ps), in, ToAdd(f, n + 1))
<1> DEFINE g == Put(f, n, ps)
           R == ToAdd(f, n)
           Q == ToAdd(f, n + 1)
           ds == Append(cs, ps)
<1>0. IsPut(g, f, n, ps)
  BY OneLess
<1>1. /\ DOMAIN g = DOMAIN f /\ g[n] = ps
      /\ n \in R /\ n \notin Q /\ R = Q \cup {n}
      /\ DOMAIN f \ Q = (DOMAIN f \ R) \cup {n}
      /\ R \subseteq DOMAIN f
      /\ \A k \in DOMAIN f \ {n} : g[k] = f[k]
  BY <1>0 DEF IsPut
<1>7. f[n] \in Seq(Literal)
  BY ElementOfSeq
<1>70. /\ ds \in Seq(Seq(Literal)) /\ Len(cs) \in Nat
       /\ ds[Len(cs) + 1] = ps
       /\ \A k \in 1 .. Len(cs) : ds[k] = cs[k]
       /\ DOMAIN ds = 1 .. Len(cs) + 1
  BY PushFacts
<1>71. ToSet(ds) = ToSet(cs) \cup {ps}
  BY AppendFacts
<1> HIDE DEF g, R, Q, ds
<1>72. DOMAIN cs = 1 .. Len(cs)
  OBVIOUS
<1>73. \A i \in DOMAIN ds : (i \in DOMAIN cs /\ ds[i] = cs[i]) \/ ds[i] = ps
  BY <1>70, <1>72
<1>74. \A i \in DOMAIN cs : i \in DOMAIN ds
  BY <1>70, <1>72
<1>2. /\ ClosedUnder(S, cs)
      /\ \A c \in ToSet(cs) : c # <<>> /\ IsInjective(c) /\ \E k \in DOMAIN f \ R : f[k] = c
      /\ DOMAIN f = DOMAIN in
      /\ \A k \in DOMAIN f \ R : Settled(S, f[k], cs)
      /\ \A k \in R : f[k] = in[k]
      /\ \A A \in Total : Satisfies(A, in) <=> /\ S \subseteq A /\ Satisfies(A, cs)
                                               /\ \A k \in R : ToSet(f[k]) \cap A # {}
  BY DEF Added, R
<1>20. /\ 1 \in DOMAIN ps /\ 2 \in DOMAIN ps /\ ps[1] # ps[2] /\ ps # <<>>
  <2>1. Len(ps) \in Nat /\ DOMAIN ps = 1 .. Len(ps)
    OBVIOUS
  <2>2. 1 \in DOMAIN ps /\ 2 \in DOMAIN ps
    BY <2>1
  <2> QED
    BY <2>2 DEF IsInjective
<1>21. ClosedUnder(S, ds)
  <2> SUFFICES ASSUME NEW i \in DOMAIN ds, NEW l \in ToSet(ds[i]),
                      \A m \in ToSet(ds[i]) \ {l} : -m \in S
               PROVE  l \in S
    BY DEF ClosedUnder
  <2>1. CASE i \in DOMAIN cs /\ ds[i] = cs[i]
    BY <1>2, <2>1 DEF ClosedUnder
  <2>2. CASE ds[i] = ps
    <3>1. \E m \in ToSet(ps) : m # l
      BY <1>20 DEF ToSet
    <3>2. \A m \in ToSet(ps) : -m \notin S
      BY DEF NotFalse
    <3> QED
      BY <2>2, <3>1, <3>2
  <2> QED
    BY <1>73, <2>1, <2>2
<1>3. \A c \in ToSet(ds) : c # <<>> /\ IsInjective(c) /\ \E k \in DOMAIN g \ Q : g[k] = c
  <2>1. \A c \in ToSet(cs) : c # <<>> /\ IsInjective(c) /\ \E k \in DOMAIN g \ Q : g[k] = c
    BY <1>1, <1>2
  <2>2. n \in DOMAIN g \ Q /\ g[n] = ps
    BY <1>1
  <2> QED
    BY <1>20, <1>71, <2>1, <2>2
<1>4. Settled(S, g[n], ds)
  BY <1>1, <1>71 DEF Settled
<1>40. \A k \in DOMAIN f \ R : Settled(S, f[k], ds)
  BY <1>2, <1>71, SettledMore
<1>5. \A k \in DOMAIN g \ Q : Settled(S, g[k], ds)
  BY <1>1, <1>4, <1>40
<1>6. \A k \in Q : k \in DOMAIN f /\ k # n /\ k \in R /\ g[k] = f[k]
  BY <1>1
<1>8. ASSUME NEW A \in Total
      PROVE  Satisfies(A, in) <=> /\ S \subseteq A /\ Satisfies(A, ds)
                                  /\ \A k \in Q : ToSet(g[k]) \cap A # {}
  <2>1. ASSUME S \subseteq A
        PROVE  ToSet(f[n]) \cap A # {} <=> ToSet(ps) \cap A # {}
    <3>1. \A l \in Literal : l \in A <=> -l \notin A
      BY TotalFacts
    <3>2. ToSet(f[n]) \subseteq Literal
      BY <1>7, ElementOfSeq DEF ToSet
    <3> QED
      BY <2>1, <3>1, <3>2 DEF NotFalse
  <2>2. (\A k \in R : ToSet(f[k]) \cap A # {})
          <=> (ToSet(f[n]) \cap A # {} /\ \A k \in Q : ToSet(g[k]) \cap A # {})
    BY <1>1, <1>6
  <2>3. Satisfies(A, ds) <=> Satisfies(A, cs) /\ ToSet(ps) \cap A # {}
    <3>1. Satisfies(A, ds) => Satisfies(A, cs) /\ ToSet(ps) \cap A # {}
      <4>1. Len(cs) + 1 \in DOMAIN ds
        BY <1>70
      <4>2. \A i \in DOMAIN cs : ds[i] = cs[i]
        BY <1>70, <1>72
      <4> QED
        BY <1>70, <1>74, <4>1, <4>2 DEF Satisfies
    <3>2. Satisfies(A, cs) /\ ToSet(ps) \cap A # {} => Satisfies(A, ds)
      BY <1>73 DEF Satisfies
    <3> QED
      BY <3>1, <3>2
  <2> QED
    BY <1>2, <2>1, <2>2, <2>3
<1>9. Added(S, ds, g, in, Q)
  BY <1>1, <1>2, <1>21, <1>3, <1>5, <1>6, <1>8 DEF Added
<1> QED
  BY <1>9 DEF g, Q, ds

-----------------------------------------------------------------------------
(* Once all clauses are added.                                             *)

\* The first answer adds literals that every model has.
LEMMA AddedSolved ==
  ASSUME NEW S \in SUBSET Literal, NEW cs \in Seq(Seq(Literal)), NEW f, NEW in,
         Added(S, cs, f, in, {}), NEW more \in SUBSET Implied(S, cs)
  PROVE  Added(Propagate(S \cup more, cs), cs, f, in, {})
<1> DEFINE T == Propagate(S \cup more, cs)
<1>1. S \cup more \in SUBSET Literal
  BY DEF Implied
<1>2. T \in SUBSET Literal /\ S \cup more \subseteq T /\ ClosedUnder(T, cs)
  BY <1>1, PropagateFacts
<1>3. \A A \in Total : Satisfies(A, cs) /\ S \cup more \subseteq A => T \subseteq A
  BY <1>1, ModelPropagates
<1> HIDE DEF T
<1>4. \A A \in Total : Satisfies(A, cs) /\ S \subseteq A => more \subseteq A
  BY DEF Implied, ModelsOf, Satisfies
<1>5. \A A \in Total : Satisfies(A, cs) => (S \subseteq A <=> T \subseteq A)
  BY <1>2, <1>3, <1>4
<1>6. /\ \A c \in ToSet(cs) : c # <<>> /\ IsInjective(c) /\ \E k \in DOMAIN f : f[k] = c
      /\ DOMAIN f = DOMAIN in
      /\ \A k \in DOMAIN f : Settled(S, f[k], cs)
      /\ \A A \in Total : Satisfies(A, in) <=> S \subseteq A /\ Satisfies(A, cs)
  BY DEF Added
<1>7. \A k \in DOMAIN f : Settled(T, f[k], cs)
  BY <1>2, <1>6, SettledMore
<1>8. \A A \in Total : Satisfies(A, in) <=> T \subseteq A /\ Satisfies(A, cs)
  BY <1>5, <1>6
<1>9. Added(T, cs, f, in, {})
  BY <1>2, <1>6, <1>7, <1>8 DEF Added
<1> QED
  BY <1>9 DEF T

\* Without an answer there is no model of what was read.
LEMMA AddedUnsat ==
  ASSUME NEW S, NEW cs, NEW f, NEW in,
         Added(S, cs, f, in, {}), ModelsOf(S, cs) = {}, NEW A \in Total
  PROVE  ~Satisfies(A, in)
<1>1. Satisfies(A, in) <=> S \subseteq A /\ Satisfies(A, cs)
  BY DEF Added
<1>2. S \subseteq A /\ Satisfies(A, cs) => A \in ModelsOf(S, cs)
  BY DEF ModelsOf, Satisfies
<1> QED
  BY <1>1, <1>2

\* The clauses as they were left and those of the solver have the same models, and so has
\* what was read.
LEMMA SameModels ==
  ASSUME NEW S, NEW cs \in Seq(Seq(Literal)), NEW f \in Seq(Seq(Literal)), NEW in,
         Added(S, cs, f, in, {}), NEW A \in Total
  PROVE  /\ Satisfies(A, in) <=> S \subseteq A /\ Satisfies(A, cs)
         /\ S \subseteq A => (Satisfies(A, f) <=> Satisfies(A, cs))
<1>1. /\ \A c \in ToSet(cs) : \E k \in DOMAIN f : f[k] = c
      /\ \A k \in DOMAIN f : Settled(S, f[k], cs)
      /\ Satisfies(A, in) <=> S \subseteq A /\ Satisfies(A, cs)
  BY DEF Added
<1>2. ASSUME Satisfies(A, f)
      PROVE  Satisfies(A, cs)
  <2>1. \A i \in DOMAIN cs : cs[i] \in ToSet(cs)
    BY DEF ToSet
  <2> QED
    BY <1>1, <1>2, <2>1 DEF Satisfies
<1>3. ASSUME S \subseteq A, Satisfies(A, cs), NEW k \in DOMAIN f
      PROVE  ToSet(f[k]) \cap A # {}
  <2>1. f[k] \in Seq(Literal)
    BY ElementOfSeq
  <2>2. CASE SatBy(S, f[k]) \/ Contradictory(f[k])
    BY <1>3, <2>1, <2>2, SettledByModel
  <2>3. CASE f[k] \in ToSet(cs)
    BY <1>3, <2>3 DEF Satisfies, ToSet
  <2> QED
    BY <1>1, <2>2, <2>3 DEF Settled
<1> QED
  BY <1>1, <1>2, <1>3 DEF Satisfies

-----------------------------------------------------------------------------
(* Copying a clause.                                                       *)

Left(S, c) == {l \in ToSet(c) : l \notin S /\ -l \notin S}

\* What a clause that is not satisfied has left is as good as the clause.
LEMMA LeftForModels ==
  ASSUME NEW S, NEW c \in Seq(Literal), ~SatBy(S, c), NEW A \in Total, S \subseteq A
  PROVE  ToSet(c) \cap A # {} <=> Left(S, c) \cap A # {}
<1>1. \A l \in Literal : l \in A <=> -l \notin A
  BY TotalFacts
<1>2. ToSet(c) \subseteq Literal
  BY ElementOfSeq DEF ToSet
<1> QED
  BY <1>1, <1>2 DEF Left, SatBy

\* Such a clause has two literals left at least: the trail is closed under the solver's
\* clauses, and the others have both literals of a variable.
LEMMA LeftRight ==
  ASSUME NEW S \in SUBSET Literal, NEW cs \in Seq(Seq(Literal)),
         NEW c \in Seq(Literal), ~SatBy(S, c), ClosedUnder(S, cs),
         \A d \in ToSet(cs) : d # <<>>,
         c \in ToSet(cs) \/ Contradictory(c)
  PROVE  \E l, m \in Left(S, c) : l # m /\ (c \in ToSet(cs) \/ m = -l)
<1>1. ToSet(c) \subseteq Literal
  BY ElementOfSeq DEF ToSet
<1>2. \A l \in Literal : l # -l /\ -(-l) = l /\ -l \in Literal
  BY LiteralFacts
<1>3. CASE Contradictory(c)
  <2>1. PICK l \in ToSet(c) : -l \in ToSet(c)
    BY <1>3 DEF Contradictory
  <2>2. l \in Left(S, c) /\ -l \in Left(S, c) /\ l # -l
    BY <1>1, <1>2, <2>1 DEF Left, SatBy
  <2> QED
    BY <2>2
<1>4. CASE c \in ToSet(cs)
  <2>1. PICK i \in DOMAIN cs : cs[i] = c
    BY <1>4 DEF ToSet
  <2>2. PICK l \in ToSet(c) : TRUE
    <3>1. c # <<>>
      BY <1>4
    <3>2. 1 \in DOMAIN c
      BY <3>1, EmptySeq
    <3> QED
      BY <3>2 DEF ToSet
  <2>3. \A x \in ToSet(c) : \E m \in ToSet(c) \ {x} : -m \notin S
    BY <2>1 DEF ClosedUnder, SatBy
  <2>4. PICK x \in ToSet(c) : -x \notin S
    BY <2>2, <2>3
  <2>5. PICK y \in ToSet(c) \ {x} : -y \notin S
    BY <2>3
  <2>6. x \in Left(S, c) /\ y \in Left(S, c) /\ x # y
    BY <2>4, <2>5 DEF Left, SatBy
  <2> QED
    BY <1>4, <2>6
<1> QED
  BY <1>3, <1>4

LEMMA CopiedOne ==
  ASSUME NEW S, NEW src \in Seq(Seq(Literal)), NEW cls \in Seq(Seq(Literal)), NEW counter,
         NEW n \in DOMAIN src, Copied(S, src, cls, n, counter),
         ~SatBy(S, src[n]), NEW o \in Seq(Literal), ToSet(o) = Left(S, src[n]),
         GivenRight(S, o, counter)
  PROVE  Copied(S, src, Append(cls, o), n + 1, counter)
<1> DEFINE ds == Append(cls, o)
<1>1. /\ Len(cls) \in Nat
      /\ ds[Len(cls) + 1] = o
      /\ \A k \in 1 .. Len(cls) : ds[k] = cls[k]
      /\ DOMAIN ds = 1 .. Len(cls) + 1
  BY PushFacts
<1> HIDE DEF ds
<1>2. DOMAIN cls = 1 .. Len(cls) /\ DOMAIN src = 1 .. Len(src) /\ n \in Nat
  OBVIOUS
<1>3. \A i \in DOMAIN ds : (i \in DOMAIN cls /\ ds[i] = cls[i]) \/ ds[i] = o
  BY <1>1, <1>2
<1>4. /\ \A i \in DOMAIN cls : i \in DOMAIN ds /\ ds[i] = cls[i]
      /\ Len(cls) + 1 \in DOMAIN ds
  BY <1>1, <1>2
<1>5. \A k \in DOMAIN src : n <= k <=> (n + 1 <= k \/ k = n)
  BY <1>2
<1>6. src[n] \in Seq(Literal)
  BY ElementOfSeq
<1>7. ASSUME NEW A \in Total, S \subseteq A
      PROVE  Satisfies(A, src) <=> /\ Satisfies(A, ds)
                                   /\ \A k \in DOMAIN src : n + 1 <= k => ToSet(src[k]) \cap A # {}
  <2>1. Satisfies(A, src) <=> /\ Satisfies(A, cls)
                              /\ \A k \in DOMAIN src : n <= k => ToSet(src[k]) \cap A # {}
    BY <1>7 DEF Copied
  <2>2. ToSet(src[n]) \cap A # {} <=> ToSet(o) \cap A # {}
    BY <1>6, <1>7, LeftForModels
  <2>3. Satisfies(A, ds) <=> Satisfies(A, cls) /\ ToSet(o) \cap A # {}
    <3>1. Satisfies(A, ds) => Satisfies(A, cls) /\ ToSet(o) \cap A # {}
      BY <1>1, <1>4 DEF Satisfies
    <3>2. Satisfies(A, cls) /\ ToSet(o) \cap A # {} => Satisfies(A, ds)
      BY <1>3 DEF Satisfies
    <3> QED
      BY <3>1, <3>2
  <2>4. (\A k \in DOMAIN src : n <= k => ToSet(src[k]) \cap A # {})
          <=> /\ ToSet(src[n]) \cap A # {}
              /\ \A k \in DOMAIN src : n + 1 <= k => ToSet(src[k]) \cap A # {}
    BY <1>5
  <2> QED
    BY <2>1, <2>2, <2>3, <2>4
<1>8. \A i \in DOMAIN ds : GivenRight(S, ds[i], counter)
  BY <1>3 DEF Copied
<1>9. Copied(S, src, ds, n + 1, counter)
  BY <1>7, <1>8 DEF Copied
<1> QED
  BY <1>9 DEF ds

LEMMA LeftOne ==
  ASSUME NEW S, NEW src \in Seq(Seq(Literal)), NEW cls \in Seq(Seq(Literal)), NEW counter,
         NEW n \in DOMAIN src, Copied(S, src, cls, n, counter),
         SatBy(S, src[n]) \/ \E j \in DOMAIN cls : ToSet(cls[j]) \subseteq Left(S, src[n])
  PROVE  Copied(S, src, cls, n + 1, counter)
<1>2. DOMAIN src = 1 .. Len(src) /\ n \in Nat
  OBVIOUS
<1>5. \A k \in DOMAIN src : n <= k <=> (n + 1 <= k \/ k = n)
  BY <1>2
<1>6. src[n] \in Seq(Literal)
  BY ElementOfSeq
<1>7. ASSUME NEW A \in Total, S \subseteq A
      PROVE  Satisfies(A, src) <=> /\ Satisfies(A, cls)
                                   /\ \A k \in DOMAIN src : n + 1 <= k => ToSet(src[k]) \cap A # {}
  <2>1. Satisfies(A, src) <=> /\ Satisfies(A, cls)
                              /\ \A k \in DOMAIN src : n <= k => ToSet(src[k]) \cap A # {}
    BY <1>7 DEF Copied
  <2>2. Satisfies(A, cls) => ToSet(src[n]) \cap A # {}
    <3>1. CASE SatBy(S, src[n])
      BY <1>6, <1>7, <3>1, SettledByModel
    <3>2. CASE \E j \in DOMAIN cls : ToSet(cls[j]) \subseteq Left(S, src[n])
      <4>1. Left(S, src[n]) \subseteq ToSet(src[n])
        BY DEF Left
      <4> QED
        BY <3>2, <4>1 DEF Satisfies
    <3> QED
      BY <3>1, <3>2
  <2>4. (\A k \in DOMAIN src : n <= k => ToSet(src[k]) \cap A # {})
          <=> /\ ToSet(src[n]) \cap A # {}
              /\ \A k \in DOMAIN src : n + 1 <= k => ToSet(src[k]) \cap A # {}
    BY <1>5
  <2> QED
    BY <2>1, <2>2, <2>4
<1> QED
  BY <1>7 DEF Copied

-----------------------------------------------------------------------------
(* Reading.                                                                *)

\* What comes behind the first member of a sequence.
LEMMA TailFacts ==
  ASSUME NEW E, NEW s \in Seq(E), s # <<>>
  PROVE  Tail(s) \in Seq(E) /\ Head(s) \in E
OBVIOUS

\* A sequence is one of its own members.
LEMMA MembersFacts ==
  ASSUME NEW E, NEW s \in Seq(E)
  PROVE  s \in Seq(ToSet(s)) /\ ToSet(s) \subseteq E
<1>1. Len(s) \in Nat /\ DOMAIN s = 1 .. Len(s) /\ \A i \in 1 .. Len(s) : s[i] \in E
  BY ElementOfSeq
<1>2. s \in [1 .. Len(s) -> ToSet(s)]
  BY <1>1 DEF ToSet
<1>3. s \in Seq(ToSet(s))
  BY <1>1, <1>2, FunctionIsSeq
<1> QED
  BY <1>1, <1>3 DEF ToSet

\* The clause that is read is one of literals.
LEMMA ClauseRead ==
  ASSUME NEW f, OverLiterals(f), NEW r \in Seq(ToSet(f)), NEW n \in Ends(r)
  PROVE  /\ [k \in 1 .. n - 1 |-> r[k].value] \in Seq(Literal)
         /\ SubSeq(r, n + 1, Len(r)) \in Seq(ToSet(f))
<1>1. /\ Len(r) \in Nat /\ DOMAIN r = 1 .. Len(r)
      /\ \A k \in 1 .. Len(r) : r[k] \in ToSet(f)
  BY ElementOfSeq
<1>2. n \in 1 .. Len(r) /\ \A m \in 1 .. n - 1 : r[m].kind = "int" /\ ~IsZero(r[m])
  BY <1>1 DEF Ends
<1>3. \A k \in 1 .. n - 1 : k \in 1 .. Len(r) /\ r[k] \in ToSet(f)
  BY <1>1, <1>2
<1>4. \A k \in 1 .. n - 1 : r[k].value \in Literal
  BY <1>2, <1>3 DEF OverLiterals, IsZero
<1>5. n - 1 \in Nat
  BY <1>2
<1>6. [k \in 1 .. n - 1 |-> r[k].value] \in Seq(Literal)
  <2> PICK c : c = [k \in 1 .. n - 1 |-> r[k].value]
    OBVIOUS
  <2>1. c \in [1 .. n - 1 -> Literal]
    BY <1>4
  <2>2. c \in Seq(Literal)
    BY <1>5, <2>1, FunctionIsSeq
  <2> QED
    BY <2>2
<1>7. \A k \in n + 1 .. Len(r) : r[k] \in ToSet(f)
  BY <1>1, <1>2
<1>8. n + 1 \in Nat
  BY <1>2
<1>9. SubSeq(r, n + 1, Len(r)) \in Seq(ToSet(f))
  BY <1>1, <1>7, <1>8, SubSeqProperties
<1> QED
  BY <1>6, <1>9

LEMMA ReadStep ==
  ASSUME ReadTyped, ParserNext
  PROVE  /\ ReadTyped'
         /\ pc \in {"options", "open", "cnf", "weights", "projected"}
         /\ pc' \notin {"add", "copy", "ready", "unsat"}
<1> USE DEF ReadTyped
<1>0. /\ args # <<>> => Tail(args) \in Seq(ToSet(invocation.args)) /\ Head(args) \in ToSet(invocation.args)
      /\ rest # <<>> => Tail(rest) \in Seq(ToSet(file.cnf))
  BY TailFacts
<1>1. CASE OptionsNext /\ UNCHANGED readVars
  <2> USE <1>1 DEF readVars, optionVars, NextArgument
  <2>1. CASE PrintUsageAndExit
    BY <2>1 DEF PrintUsageAndExit
  <2>2. CASE DropHelp
    BY <1>0, <2>2 DEF DropHelp
  <2>3. CASE ParseOption
    BY <1>0, <2>3 DEF ParseOption
  <2>4. CASE OutOfRange
    BY <2>4 DEF OutOfRange
  <2>5. CASE UnknownFlag
    BY <2>5 DEF UnknownFlag
  <2>6. CASE KeepArgument
    <3>1. Head(args).name \in PlainNames(invocation)
      BY <1>0, <2>6 DEF KeepArgument, PlainNames
    <3>2. Append(kept, Head(args).name) \in Seq(PlainNames(invocation))
      BY <3>1, AppendFacts
    <3> QED
      BY <2>6, <3>2 DEF KeepArgument
  <2>7. CASE EndOfArguments
    BY <2>7 DEF EndOfArguments
  <2> QED
    BY <1>1, <2>1, <2>2, <2>3, <2>4, <2>5, <2>6, <2>7 DEF OptionsNext
<1>2. CASE OpenFormula
  <2>1. kept[1] \in PlainNames(invocation) \cap DOMAIN invocation.disk
    <3>1. kept # <<>> /\ kept[1] \in DOMAIN invocation.disk
      BY <1>2 DEF OpenFormula, FormulaThere, OnDisk
    <3>2. kept[1] \in PlainNames(invocation)
      BY <3>1, ElementOfSeq, EmptySeq
    <3> QED
      BY <3>1, <3>2
  <2>2. IsFormula(invocation.disk[kept[1]])
    BY <2>1, FilesAssumption
  <2>3. file'.cnf = invocation.disk[kept[1]] /\ rest' = file'.cnf
    BY <1>2 DEF OpenFormula
  <2>4. OverLiterals(file.cnf)' /\ rest' \in Seq(ToSet(file'.cnf))
    BY <2>2, <2>3 DEF IsFormula, OverLiterals
  <2> QED
    BY <1>2, <2>4 DEF OpenFormula, optionVars
<1>3. CASE CannotOpen
  BY <1>3 DEF CannotOpen, optionVars, readVars
<1>4. CASE SkipLine
  BY <1>0, <1>4 DEF SkipLine, NextIs, optionVars
<1>5. CASE ReadProblemLine
  BY <1>0, <1>5 DEF ReadProblemLine, NextIs, optionVars
<1>6. CASE ReadClause
  <2> DEFINE n == EndOfClause(rest)
  <2>1. n \in Ends(rest)
    BY <1>6 DEF ReadClause, EndOfClause
  <2>2. /\ input' = Append(input, [k \in 1 .. n - 1 |-> rest[k].value])
        /\ rest' = SubSeq(rest, n + 1, Len(rest))
    BY <1>6 DEF ReadClause
  <2> HIDE DEF n
  <2>3. /\ [k \in 1 .. n - 1 |-> rest[k].value] \in Seq(Literal)
        /\ SubSeq(rest, n + 1, Len(rest)) \in Seq(ToSet(file.cnf))
    BY <2>1, ClauseRead
  <2>4. input' \in Seq(Seq(Literal))
    BY <2>2, <2>3, AppendFacts
  <2> QED
    BY <1>6, <2>2, <2>3, <2>4 DEF ReadClause, NextIs, optionVars
<1>7. CASE ParseError
  BY <1>7 DEF ParseError, NextIs, optionVars
<1>8. CASE EndOfFile
  BY <1>8 DEF EndOfFile, optionVars
<1>9. CASE ParseWeight
  BY <1>9 DEF ParseWeight, optionVars
<1>10. CASE WeightsMissing
  BY <1>10 DEF WeightsMissing, optionVars, readVars
<1>11. CASE ParseProjectedVariable
  BY <1>11 DEF ParseProjectedVariable, optionVars
<1> QED
  BY <1>1, <1>2, <1>3, <1>4, <1>5, <1>6, <1>7, <1>8, <1>9, <1>10, <1>11 DEF ParserNext

-----------------------------------------------------------------------------
(* The steps.                                                              *)

LEMMA InitIInv ==
  ASSUME Init
  PROVE  IInv
<1> USE DEF Init, ParserInit, OptionsInit
<1>1. args \in Seq(ToSet(invocation.args))
  BY ArgumentsAssumption
<1>2. OverLiterals(file.cnf)
  BY DEF NoFile, OverLiterals, ToSet
<1>3. ReadTyped
  BY <1>1, <1>2 DEF ReadTyped
<1>4. NotStarted /\ IntakeTyped
  BY DEF NotStarted, IntakeTyped
<1> QED
  BY <1>3, <1>4 DEF IInv

LEMMA ReadingStep ==
  ASSUME IInv, ParserNext, UNCHANGED intakeVars
  PROVE  IInv'
<1>1. /\ ReadTyped' /\ pc \in {"options", "open", "cnf", "weights", "projected"}
      /\ pc' \notin {"add", "copy", "ready", "unsat"}
  BY ReadStep DEF IInv
<1>2. NotStarted' /\ IntakeTyped'
  BY <1>1 DEF IInv, NotStarted, IntakeTyped, intakeVars
<1> QED
  BY <1>1, <1>2 DEF IInv

\* What the intake leaves alone.
LEMMA ProblemStays ==
  ASSUME ReadTyped, UNCHANGED problem
  PROVE  ReadTyped' /\ input' = input
BY DEF ReadTyped, problem, optionVars, readVars

LEMMA LoadStep ==
  ASSUME IInv, Load
  PROVE  IInv'
<1>1. ReadTyped' /\ input' = input /\ input \in Seq(Seq(Literal))
  BY ProblemStays DEF IInv, Load, ReadTyped
<1>2. next = 1 /\ units = {} /\ attached = <<>> /\ clauses = <<>>
  BY DEF IInv, NotStarted, Load
<1>3. /\ cnf' = input /\ next' = 1 /\ units' = {} /\ attached' = <<>> /\ clauses' = <<>>
      /\ pc' \in {"done", "rejected", "add"}
  BY <1>2 DEF Load
<1>4. IntakeTyped' /\ NotStarted'
  BY <1>1, <1>3 DEF IntakeTyped, NotStarted
<1>5. ASSUME pc' = "add"
      PROVE  Added({}, <<>>, input, input, DOMAIN input)
  <2>1. ClosedUnder({}, <<>>) /\ ToSet(<<>>) = {}
    BY DEF ClosedUnder, ToSet
  <2>2. \A A \in Total : Satisfies(A, <<>>)
    BY DEF Satisfies
  <2>3. \A A \in Total : Satisfies(A, input) <=> \A k \in DOMAIN input : ToSet(input[k]) \cap A # {}
    BY DEF Satisfies
  <2> QED
    BY <2>1, <2>2, <2>3 DEF Added
<1>6. pc' = "add" => Remaining' = DOMAIN input
  <2>1. \A k \in DOMAIN input : 1 <= k
    BY <1>1
  <2>2. ToAdd(input, 1) = DOMAIN input
    BY <2>1 DEF ToAdd
  <2> QED
    BY <1>3, <2>2 DEF Remaining
<1>7. pc' = "add" => Added(units, attached, cnf, input, Remaining)'
  BY <1>1, <1>3, <1>5, <1>6
<1> QED
  BY <1>1, <1>3, <1>4, <1>7 DEF IInv

\* What an added clause starts from.
LEMMA AddBegins ==
  ASSUME IInv, pc = "add", next <= Len(cnf)
  PROVE  /\ next \in DOMAIN cnf /\ next + 1 \in Nat \ {0}
         /\ cnf \in Seq(Seq(Literal)) /\ attached \in Seq(Seq(Literal))
         /\ input \in Seq(Seq(Literal)) /\ units \in SUBSET Literal
         /\ Added(units, attached, cnf, input, ToAdd(cnf, next))
         /\ cnf[next] \in Seq(Literal)
         /\ Sorted(cnf[next]) \in Seq(Literal)
         /\ ToSet(Sorted(cnf[next])) = ToSet(cnf[next])
<1>1. /\ cnf \in Seq(Seq(Literal)) /\ attached \in Seq(Seq(Literal))
      /\ input \in Seq(Seq(Literal)) /\ units \in SUBSET Literal /\ next \in Nat \ {0}
  BY DEF IInv, IntakeTyped, ReadTyped
<1>2. next \in DOMAIN cnf /\ next + 1 \in Nat \ {0}
  BY <1>1
<1>3. Added(units, attached, cnf, input, ToAdd(cnf, next))
  BY DEF IInv, Remaining
<1>4. cnf[next] \in Seq(Literal)
  BY <1>1, <1>2, ElementOfSeq
<1> QED
  BY <1>1, <1>2, <1>3, <1>4, SortedFacts

\* What is set in the clauses of the counter.
LEMMA PutFacts ==
  ASSUME NEW f \in Seq(Seq(Literal)), NEW n \in DOMAIN f, NEW ps \in Seq(Literal)
  PROVE  /\ Put(f, n, ps) \in Seq(Seq(Literal))
         /\ ToAdd(Put(f, n, ps), n + 1) = ToAdd(f, n + 1)
         /\ Put(f, n, ps) = [f EXCEPT ![n] = ps]
<1>1. IsPut(Put(f, n, ps), f, n, ps)
  BY OneLess
<1> QED
  BY <1>1 DEF IsPut, ToAdd, Put

LEMMA TautologieStep ==
  ASSUME IInv, AddTautologie
  PROVE  IInv'
<1> DEFINE c == Sorted(cnf[next])
           ps == Rewritten(c)
<1>1. /\ pc = "add" /\ next <= Len(cnf) /\ IsTautologie(c) /\ cnf' = [cnf EXCEPT ![next] = ps]
      /\ next' = next + 1
      /\ UNCHANGED <<problem, engine, units, attached, clauses, occList, pc>>
  BY DEF AddTautologie
<1>2. /\ next \in DOMAIN cnf /\ next + 1 \in Nat \ {0}
      /\ cnf \in Seq(Seq(Literal)) /\ attached \in Seq(Seq(Literal))
      /\ input \in Seq(Seq(Literal)) /\ units \in SUBSET Literal
      /\ Added(units, attached, cnf, input, ToAdd(cnf, next))
      /\ c \in Seq(Literal) /\ ToSet(c) = ToSet(cnf[next])
  BY <1>1, AddBegins
<1>3. ps \in Seq(Literal) /\ (IsSat(ps) \/ Contradictory(ps)) /\ (IsSat(c) \/ Contradictory(c))
  BY <1>1, <1>2, OverwrittenFacts, TautologieFacts
<1> HIDE DEF ps, c
<1>4. SatBy(units, ps) \/ Contradictory(ps)
  BY <1>3 DEF IsSat, IsTrue, SatBy
<1>5. SatBy(units, cnf[next]) \/ Contradictory(cnf[next])
  BY <1>2, <1>3 DEF IsSat, IsTrue, SatBy, Contradictory
<1>6. Added(units, attached, Put(cnf, next, ps), input, ToAdd(cnf, next + 1))
  BY <1>2, <1>3, <1>4, <1>5, AddedTautologie
<1>7. /\ Put(cnf, next, ps) \in Seq(Seq(Literal))
      /\ ToAdd(Put(cnf, next, ps), next + 1) = ToAdd(cnf, next + 1)
      /\ cnf' = Put(cnf, next, ps)
  BY <1>1, <1>2, <1>3, PutFacts
<1>8. Remaining' = ToAdd(cnf, next + 1)
  BY <1>1, <1>7 DEF Remaining
<1>9. ReadTyped' /\ input' = input
  BY <1>1, ProblemStays DEF IInv
<1>10. IntakeTyped'
  BY <1>1, <1>2, <1>7 DEF IInv, IntakeTyped
<1>11. Added(units, attached, cnf, input, Remaining)'
  BY <1>1, <1>6, <1>7, <1>8, <1>9
<1> QED
  BY <1>1, <1>9, <1>10, <1>11 DEF IInv, NotStarted

LEMMA AttachStep ==
  ASSUME IInv, Attach
  PROVE  IInv'
<1> DEFINE c == Sorted(cnf[next])
           ps == Rewritten(c)
<1>1. /\ pc = "add" /\ next <= Len(cnf) /\ ~IsTautologie(c) /\ Len(ps) > 1
      /\ cnf' = [cnf EXCEPT ![next] = ps] /\ attached' = Append(attached, ps)
      /\ next' = next + 1
      /\ UNCHANGED <<problem, engine, units, clauses, occList, pc>>
  BY DEF Attach
<1>2. /\ next \in DOMAIN cnf /\ next + 1 \in Nat \ {0}
      /\ cnf \in Seq(Seq(Literal)) /\ attached \in Seq(Seq(Literal))
      /\ input \in Seq(Seq(Literal)) /\ units \in SUBSET Literal
      /\ Added(units, attached, cnf, input, ToAdd(cnf, next))
      /\ c \in Seq(Literal) /\ ToSet(c) = ToSet(cnf[next])
  BY <1>1, AddBegins
<1>3. ps \in Seq(Literal) /\ ToSet(ps) = {l \in ToSet(c) : ~IsFalse(l)} /\ IsInjective(ps)
  BY <1>1, <1>2, RewrittenFacts
<1> HIDE DEF ps, c
<1>4. ToSet(ps) = NotFalse(units, cnf[next])
  BY <1>2, <1>3 DEF NotFalse, IsFalse
<1>6. Added(units, Append(attached, ps), Put(cnf, next, ps), input, ToAdd(cnf, next + 1))
  BY <1>1, <1>2, <1>3, <1>4, AddedAttach
<1>7. /\ Put(cnf, next, ps) \in Seq(Seq(Literal))
      /\ ToAdd(Put(cnf, next, ps), next + 1) = ToAdd(cnf, next + 1)
      /\ cnf' = Put(cnf, next, ps)
  BY <1>1, <1>2, <1>3, PutFacts
<1>8. Remaining' = ToAdd(cnf, next + 1)
  BY <1>1, <1>7 DEF Remaining
<1>9. ReadTyped' /\ input' = input
  BY <1>1, ProblemStays DEF IInv
<1>90. attached' \in Seq(Seq(Literal))
  BY <1>1, <1>2, <1>3, AppendFacts
<1>10. IntakeTyped'
  BY <1>1, <1>2, <1>7, <1>90 DEF IInv, IntakeTyped
<1>11. Added(units, attached, cnf, input, Remaining)'
  BY <1>1, <1>6, <1>7, <1>8, <1>9
<1> QED
  BY <1>1, <1>9, <1>10, <1>11 DEF IInv, NotStarted

LEMMA UnitStep ==
  ASSUME IInv, AddUnit
  PROVE  IInv'
<1> DEFINE c == Sorted(cnf[next])
           ps == Rewritten(c)
<1>1. /\ pc = "add" /\ next <= Len(cnf) /\ ~IsTautologie(c) /\ Len(ps) <= 1
      /\ cnf' = [cnf EXCEPT ![next] = ps]
      /\ units' = Propagate(units \cup ToSet(ps), attached)
      /\ pc' = IF ps = <<>> \/ Conflict(units') THEN "unsat" ELSE "add"
      /\ next' = next + 1
      /\ UNCHANGED <<problem, engine, attached, clauses, occList>>
  BY DEF AddUnit
<1>2. /\ next \in DOMAIN cnf /\ next + 1 \in Nat \ {0}
      /\ cnf \in Seq(Seq(Literal)) /\ attached \in Seq(Seq(Literal))
      /\ input \in Seq(Seq(Literal)) /\ units \in SUBSET Literal
      /\ Added(units, attached, cnf, input, ToAdd(cnf, next))
      /\ c \in Seq(Literal) /\ ToSet(c) = ToSet(cnf[next])
  BY <1>1, AddBegins
<1>3. ps \in Seq(Literal) /\ ToSet(ps) = {l \in ToSet(c) : ~IsFalse(l)}
  BY <1>1, <1>2, RewrittenFacts
<1> HIDE DEF ps, c
<1>4. ToSet(ps) = NotFalse(units, cnf[next])
  BY <1>2, <1>3 DEF NotFalse, IsFalse
<1>5. Propagate(units \cup ToSet(ps), attached) \in SUBSET Literal
  BY DEF Propagate
<1>7. /\ Put(cnf, next, ps) \in Seq(Seq(Literal))
      /\ ToAdd(Put(cnf, next, ps), next + 1) = ToAdd(cnf, next + 1)
      /\ cnf' = Put(cnf, next, ps)
  BY <1>1, <1>2, <1>3, PutFacts
<1>9. ReadTyped' /\ input' = input
  BY <1>1, ProblemStays DEF IInv
<1>10. IntakeTyped'
  BY <1>1, <1>2, <1>5, <1>7 DEF IInv, IntakeTyped
<1>11. CASE ps = <<>> \/ Conflict(units')
  <2>1. \A A \in Total : ~Satisfies(A, input)
    BY <1>1, <1>2, <1>3, <1>4, <1>11, AddedConflict
  <2>2. pc' = "unsat"
    BY <1>1, <1>11
  <2> QED
    BY <1>9, <1>10, <2>1, <2>2 DEF IInv, NotStarted
<1>12. CASE ~(ps = <<>> \/ Conflict(units'))
  <2>1. pc' = "add"
    BY <1>1, <1>12
  <2>2. PICK u : ToSet(ps) = {u}
    BY <1>1, <1>3, <1>12, AtMostOne
  <2>3. Added(Propagate(units \cup ToSet(ps), attached), attached, Put(cnf, next, ps), input,
              ToAdd(cnf, next + 1))
    BY <1>2, <1>3, <1>4, <2>2, AddedUnit
  <2>4. Remaining' = ToAdd(cnf, next + 1)
    BY <1>1, <1>7, <2>1 DEF Remaining
  <2>5. Added(units, attached, cnf, input, Remaining)'
    BY <1>1, <1>7, <1>9, <2>3, <2>4
  <2> QED
    BY <1>1, <1>9, <1>10, <2>1, <2>5 DEF IInv, NotStarted
<1> QED
  BY <1>11, <1>12

LEMMA UnsatStep ==
  ASSUME IInv, SolveUnsat
  PROVE  IInv'
<1>1. /\ pc = "add" /\ next > Len(cnf) /\ ModelsOf(units, attached) = {} /\ pc' = "unsat"
      /\ UNCHANGED <<problem, engine, cnf, next, units, attached, clauses, occList>>
  BY DEF SolveUnsat
<1>2. /\ cnf \in Seq(Seq(Literal)) /\ next \in Nat
      /\ Added(units, attached, cnf, input, ToAdd(cnf, next))
  BY <1>1 DEF IInv, IntakeTyped, Remaining
<1>3. ToAdd(cnf, next) = {}
  BY <1>1, <1>2 DEF ToAdd
<1>4. \A A \in Total : ~Satisfies(A, input)
  BY <1>1, <1>2, <1>3, AddedUnsat
<1>5. ReadTyped' /\ input' = input
  BY <1>1, ProblemStays DEF IInv
<1> QED
  BY <1>1, <1>4, <1>5 DEF IInv, NotStarted, IntakeTyped

LEMMA SatStep ==
  ASSUME IInv, SolveSat
  PROVE  IInv'
<1>1. PICK more \in SUBSET (Implied(units, attached) \ units) :
        units' = Propagate(units \cup more, attached)
  BY DEF SolveSat
<1>2. /\ pc = "add" /\ next > Len(cnf) /\ next' = 1
      /\ pc' \in {"copy", "rejected"}
      /\ UNCHANGED <<problem, engine, cnf, attached, clauses, occList>>
  BY DEF SolveSat
<1>3. /\ cnf \in Seq(Seq(Literal)) /\ next \in Nat /\ attached \in Seq(Seq(Literal))
      /\ clauses \in Seq(Seq(Literal)) /\ units \in SUBSET Literal
      /\ Added(units, attached, cnf, input, ToAdd(cnf, next))
  BY <1>2 DEF IInv, IntakeTyped, Remaining
<1>4. ToAdd(cnf, next) = {}
  BY <1>2, <1>3 DEF ToAdd
<1>5. more \in SUBSET Implied(units, attached)
  OBVIOUS
<1>6. Added(units', attached, cnf, input, {})
  BY <1>1, <1>3, <1>4, <1>5, AddedSolved
<1>7. units' \in SUBSET Literal
  BY <1>1 DEF Propagate
<1>8. ReadTyped' /\ input' = input
  BY <1>2, ProblemStays DEF IInv
<1>9. IntakeTyped' /\ NotStarted'
  BY <1>2, <1>3, <1>7 DEF IntakeTyped, NotStarted
<1>10. pc' = "copy" => Added(units, attached, cnf, input, Remaining)'
  BY <1>2, <1>6, <1>8 DEF Remaining
<1>11. ASSUME pc' = "copy"
       PROVE  Copied(units', Source', clauses', 1, engine' = "counter")
  <2>1. clauses = <<>>
    BY <1>2 DEF IInv
  <2> PICK src : src = Source'
    OBVIOUS
  <2>2. src \in Seq(Seq(Literal))
    BY <1>2, <1>3 DEF Source
  <2>3. \A k \in DOMAIN src : 1 <= k
    BY <2>2
  <2>4. clauses' = <<>> /\ DOMAIN <<>> = {}
    BY <1>2, <2>1
  <2>5. Copied(units', src, <<>>, 1, engine' = "counter")
    BY <2>3, <2>4 DEF Copied, Satisfies
  <2> QED
    BY <2>4, <2>5
<1> QED
  BY <1>2, <1>8, <1>9, <1>10, <1>11 DEF IInv

\* What the copy of a clause starts from.
LEMMA CopyBegins ==
  ASSUME IInv, pc = "copy"
  PROVE  /\ Source \in Seq(Seq(Literal)) /\ clauses \in Seq(Seq(Literal))
         /\ next \in Nat \ {0} /\ units \in SUBSET Literal
         /\ cnf \in Seq(Seq(Literal)) /\ attached \in Seq(Seq(Literal))
         /\ Added(units, attached, cnf, input, {})
         /\ Copied(units, Source, clauses, next, engine = "counter")
BY DEF IInv, IntakeTyped, Remaining, Source

\* What is not copied, or copied, leaves the invariant to two facts.
LEMMA CopyEnds ==
  ASSUME IInv, pc = "copy", UNCHANGED <<problem, engine, cnf, units, attached, occList, pc>>,
         next' = next + 1, clauses' \in Seq(Seq(Literal)),
         Copied(units, Source, clauses', next + 1, engine = "counter")
  PROVE  IInv'
<1>1. ReadTyped' /\ input' = input
  BY ProblemStays DEF IInv
<1>2. next \in Nat \ {0} /\ Added(units, attached, cnf, input, {})
  BY CopyBegins
<1>3. IntakeTyped'
  BY <1>2 DEF IInv, IntakeTyped
<1>4. Added(units, attached, cnf, input, Remaining)'
  BY <1>1, <1>2 DEF Remaining
<1>5. Source' = Source
  BY DEF Source
<1>6. Copied(units, Source, clauses, next, engine = "counter")'
  BY <1>5
<1> QED
  BY <1>1, <1>3, <1>4, <1>6 DEF IInv, NotStarted

LEMMA LeaveOutStep ==
  ASSUME IInv, LeaveOut
  PROVE  IInv'
<1> DEFINE c == Source[next]
<1>1. /\ pc = "copy" /\ next <= Len(Source) /\ next' = next + 1 /\ clauses' = clauses
      /\ IsSat(c) \/ AlreadyPresent(Open(c))
      /\ UNCHANGED <<problem, engine, cnf, units, attached, occList, pc>>
  BY DEF LeaveOut
<1>2. /\ Source \in Seq(Seq(Literal)) /\ clauses \in Seq(Seq(Literal)) /\ next \in Nat \ {0}
      /\ Copied(units, Source, clauses, next, engine = "counter")
  BY <1>1, CopyBegins
<1>3. next \in DOMAIN Source
  BY <1>1, <1>2
<1>4. c \in Seq(Literal)
  BY <1>2, <1>3, ElementOfSeq
<1>5. ToSet(Open(c)) = Left(units, c)
  BY <1>4, OpenFacts DEF Left, IsTrue, IsFalse
<1>6. SatBy(units, c) \/ \E j \in DOMAIN clauses : ToSet(clauses[j]) \subseteq Left(units, c)
  BY <1>1, <1>5 DEF IsSat, IsTrue, SatBy, AlreadyPresent
<1>7. Copied(units, Source, clauses, next + 1, engine = "counter")
  BY <1>2, <1>3, <1>6, LeftOne
<1> QED
  BY <1>1, <1>2, <1>7, CopyEnds

LEMMA CopyStep ==
  ASSUME IInv, Copy
  PROVE  IInv'
<1> DEFINE c == Source[next]
           o == Open(c)
<1>1. /\ pc = "copy" /\ next <= Len(Source) /\ next' = next + 1 /\ clauses' = Append(clauses, o)
      /\ ~IsSat(c)
      /\ UNCHANGED <<problem, engine, cnf, units, attached, occList, pc>>
  BY DEF Copy
<1>2. /\ Source \in Seq(Seq(Literal)) /\ clauses \in Seq(Seq(Literal))
      /\ next \in Nat \ {0} /\ units \in SUBSET Literal
      /\ cnf \in Seq(Seq(Literal)) /\ attached \in Seq(Seq(Literal))
      /\ Added(units, attached, cnf, input, {})
      /\ Copied(units, Source, clauses, next, engine = "counter")
  BY <1>1, CopyBegins
<1>3. next \in DOMAIN Source
  BY <1>1, <1>2
<1>4. c \in Seq(Literal)
  BY <1>2, <1>3, ElementOfSeq
<1>5. /\ o \in Seq(Literal) /\ ToSet(o) = Left(units, c)
      /\ IsInjective(c) => IsInjective(o)
  BY <1>4, OpenFacts DEF Left, IsTrue, IsFalse
<1>6. ~SatBy(units, c)
  BY <1>1 DEF IsSat, IsTrue, SatBy
<1>7. /\ ClosedUnder(units, attached)
      /\ \A d \in ToSet(attached) : d # <<>> /\ IsInjective(d)
      /\ \A k \in DOMAIN cnf : Settled(units, cnf[k], attached)
  BY <1>2 DEF Added
<1>8. c \in ToSet(attached) \/ (engine = "counter" /\ Contradictory(c))
  <2>1. CASE engine = "counter"
    BY <1>3, <1>6, <1>7, <2>1 DEF Source, Settled
  <2>2. CASE engine # "counter"
    BY <1>3, <2>2 DEF Source, ToSet
  <2> QED
    BY <2>1, <2>2
<1> HIDE DEF c, o
<1>9. PICK l, m \in Left(units, c) : l # m /\ (c \in ToSet(attached) \/ m = -l)
  BY <1>2, <1>4, <1>6, <1>7, <1>8, LeftRight
<1>10. Cardinality(ToSet(o)) > 1
  BY <1>5, <1>9, TwoLiterals
<1>11. \A x \in ToSet(o) : x \notin units /\ -x \notin units
  BY <1>5 DEF Left
<1>12. IsInjective(o) \/ (engine = "counter" /\ Contradictory(o))
  BY <1>5, <1>7, <1>8, <1>9 DEF Contradictory
<1>13. GivenRight(units, o, engine = "counter")
  BY <1>10, <1>11, <1>12 DEF GivenRight
<1>14. Copied(units, Source, Append(clauses, o), next + 1, engine = "counter")
  BY <1>2, <1>3, <1>5, <1>6, <1>13, CopiedOne DEF c
<1>15. Append(clauses, o) \in Seq(Seq(Literal))
  BY <1>2, <1>5, AppendFacts
<1> QED
  BY <1>1, <1>14, <1>15, CopyEnds

LEMMA InitFormulaStep ==
  ASSUME IInv, InitFormula
  PROVE  IInv'
<1>1. /\ pc = "copy" /\ next > Len(Source) /\ pc' = "ready"
      /\ UNCHANGED <<problem, engine, cnf, next, units, attached, clauses>>
  BY DEF InitFormula
<1>2. /\ Added(units, attached, cnf, input, {})
      /\ Copied(units, Source, clauses, next, engine = "counter")
  BY <1>1, CopyBegins
<1>3. ReadTyped' /\ input' = input
  BY <1>1, ProblemStays DEF IInv
<1>4. Source' = Source
  BY <1>1 DEF Source
<1>5. IntakeTyped' /\ NotStarted'
  BY <1>1 DEF IInv, IntakeTyped, NotStarted
<1>6. Added(units, attached, cnf, input, Remaining)'
  BY <1>1, <1>2, <1>3 DEF Remaining
<1>7. Copied(units, Source, clauses, next, engine = "counter")'
  BY <1>1, <1>2, <1>4
<1> QED
  BY <1>1, <1>3, <1>4, <1>5, <1>6, <1>7 DEF IInv

LEMMA StutterStep ==
  ASSUME IInv, UNCHANGED vars
  PROVE  IInv'
<1>1. UNCHANGED <<problem, pc, engine, cnf, next, units, attached, clauses>>
  BY DEF vars, parserVars, intakeVars, problem
<1>2. ReadTyped' /\ input' = input
  BY <1>1, ProblemStays DEF IInv
<1>3. Source' = Source /\ Remaining' = Remaining
  BY <1>1 DEF Source, Remaining
<1>4. IntakeTyped' /\ NotStarted'
  BY <1>1 DEF IInv, IntakeTyped, NotStarted
<1> QED
  BY <1>1, <1>2, <1>3, <1>4 DEF IInv

-----------------------------------------------------------------------------
(* The theorems.                                                           *)

\* What is made of the clauses at every stage: see the parts of IInv.
THEOREM IntakeCorrect == Spec => []IInv
<1>1. Init => IInv
  BY InitIInv
<1>2. IInv /\ [Next]_vars => IInv'
  <2> SUFFICES ASSUME IInv, [Next]_vars
               PROVE  IInv'
    OBVIOUS
  <2>1. CASE ParserNext /\ UNCHANGED intakeVars
    BY <2>1, ReadingStep
  <2>2. CASE Load
    BY <2>2, LoadStep
  <2>3. CASE AddTautologie
    BY <2>3, TautologieStep
  <2>4. CASE AddUnit
    BY <2>4, UnitStep
  <2>5. CASE Attach
    BY <2>5, AttachStep
  <2>6. CASE SolveUnsat
    BY <2>6, UnsatStep
  <2>7. CASE SolveSat
    BY <2>7, SatStep
  <2>8. CASE LeaveOut
    BY <2>8, LeaveOutStep
  <2>9. CASE Copy
    BY <2>9, CopyStep
  <2>10. CASE InitFormula
    BY <2>10, InitFormulaStep
  <2>11. CASE UNCHANGED vars
    BY <2>11, StutterStep
  <2> QED
    BY <2>1, <2>2, <2>3, <2>4, <2>5, <2>6, <2>7, <2>8, <2>9, <2>10, <2>11 DEF Next
<1> QED
  BY <1>1, <1>2, PTL DEF Spec

\* The search starts with nothing to propagate: whatever the file, no clause that the
\* occurrence manager gets is empty, has one literal, or has a literal with a value.
THEOREM NothingToPropagateCorrect == Spec => []NothingToPropagate
<1>1. IInv => NothingToPropagate
  BY DEF IInv, Copied, GivenRight, NothingToPropagate, IsTrue, IsFalse
<1> QED
  BY <1>1, IntakeCorrect, PTL

\* The occurrence manager gets clauses without repeated literals, tautologies of the model
\* counter apart.
THEOREM OthersAreSetsCorrect == Spec => []OthersAreSets
<1>1. IInv => OthersAreSets
  BY DEF IInv, Copied, GivenRight, OthersAreSets, Contradictory
<1> QED
  BY <1>1, IntakeCorrect, PTL

\* What the search is given has the models of the clauses that were read: sorting and
\* shortening them in place, the units, the first answer and what is left out change nothing.
THEOREM ModelsOfInputCorrect == Spec => []ModelsOfInput
<1>1. IInv => ModelsOfInput
  <2> SUFFICES ASSUME IInv
               PROVE  ModelsOfInput
    OBVIOUS
  <2>1. \A S, cs : ModelsOf(S, cs) = {A \in Total : S \subseteq A /\ Satisfies(A, cs)}
    BY DEF ModelsOf, Satisfies
  <2>2. ASSUME pc = "ready", NEW A \in Total
        PROVE  Satisfies(A, input) <=> units \subseteq A /\ Satisfies(A, clauses)
    <3>1. /\ Added(units, attached, cnf, input, {})
          /\ Copied(units, Source, clauses, next, engine = "counter")
          /\ next > Len(Source) /\ next \in Nat
          /\ cnf \in Seq(Seq(Literal)) /\ attached \in Seq(Seq(Literal))
      BY <2>2 DEF IInv, Remaining, IntakeTyped
    <3>2. /\ Satisfies(A, input) <=> units \subseteq A /\ Satisfies(A, attached)
          /\ units \subseteq A => (Satisfies(A, cnf) <=> Satisfies(A, attached))
      BY <3>1, SameModels
    <3>3. Source \in Seq(Seq(Literal))
      BY <3>1 DEF Source
    <3>4. \A k \in DOMAIN Source : ~(next <= k)
      BY <3>1, <3>3
    <3>5. units \subseteq A => (Satisfies(A, Source) <=> Satisfies(A, clauses))
      BY <3>1, <3>4 DEF Copied
    <3>6. units \subseteq A => (Satisfies(A, Source) <=> Satisfies(A, attached))
      BY <3>2 DEF Source
    <3> QED
      BY <3>2, <3>5, <3>6
  <2>3. pc = "unsat" => \A A \in Total : ~Satisfies(A, input)
    BY DEF IInv
  <2> QED
    BY <2>1, <2>2, <2>3 DEF ModelsOfInput
<1> QED
  BY <1>1, IntakeCorrect, PTL

-----------------------------------------------------------------------------
(* What is read: the options, the formula, the weights and the projected   *)
(* variables.                                                              *)

\* The first d arguments of s are looked at: the options have the values vs.
For(s, d, o) == {n \in 1 .. d : Parses(o, s[n])}
Asked(s, d, o, v) ==
  /\ IF For(s, d, o) = {} THEN v = OptionList[o].value
     ELSE \E n \in For(s, d, o) : (\A m \in For(s, d, o) : m <= n) /\ Equals(o, s[n], v)
  /\ InRange(o, v)
OptionsTaken(s, d, vs) ==
  /\ vs = [o \in DOMAIN OptionList |-> vs[o]]
  /\ \A o \in DOMAIN OptionList : Asked(s, d, o, vs[o])
  /\ \A n \in 1 .. d : s[n].kind = "flag" => \E o \in DOMAIN OptionList : Parses(o, s[n])

\* The first that is kept is the first without a dash.
Plain(s, d) == {n \in 1 .. d : s[n].kind = "plain"}
PlainKept(s, d, names) ==
  IF Plain(s, d) = {} THEN names = <<>>
  ELSE \E n \in Plain(s, d) : /\ \A m \in Plain(s, d) : n <= m
                              /\ names # <<>> /\ names[1] = s[n].name

\* What is behind the place d of a sequence.
Behind(s, d) == SubSeq(s, d + 1, Len(s))
ArgumentsRead ==
  \E d \in 0 .. Len(invocation.args) :
    /\ args = Behind(invocation.args, d)
    /\ OptionsTaken(invocation.args, d, values)
    /\ PlainKept(invocation.args, d, kept)

\* The first p tokens of t are read: no clause is open, and the others are in the list `in`.
Closed(t, p) ==
  \A k \in 1 .. p : t[k].kind = "int" => \E z \in k .. p : IsZero(t[z])
ClausesIn(t, p) == {ClauseEndingAt(t, z) : z \in {x \in Zeros(t) : x <= p}}
SetsOf(in) == {ToSet(in[i]) : i \in DOMAIN in}
Announced(n) == n \in Nat /\ Var \subseteq 1 .. n
TokensRead ==
  \E p \in 0 .. Len(file.cnf) :
    /\ rest = Behind(file.cnf, p)
    /\ Closed(file.cnf, p)
    /\ SetsOf(input) = ClausesIn(file.cnf, p)
    /\ \/ Announced(nbVar)
       \/ \E k \in p + 1 .. Len(file.cnf) : file.cnf[k].kind = "problem"

FileOpened ==
  /\ FormulaThere
  /\ file = [cnf       |-> invocation.disk[kept[1]],
             weights   |-> Contents(values["wFile"], None),
             projected |-> IF values["fpv"] = "/dev/null" THEN None
                           ELSE Contents(values["fpv"], <<>>)]
WeightsRead == \A l \in Literal : weightLit[LitIndex(l)] = LastWeight(file, l)
ProjectedRead == \A v \in Var : varProjected[v - 1] <=> v \in ProjectedVariables(file)

Adding == {"parsed", "add", "copy", "ready", "unsat"}
Reading == {"weights", "projected"} \cup Adding
ReadInv ==
  /\ ArgumentsRead
  /\ pc \in {"options", "open"} => input = <<>>
  /\ pc \in {"open", "cnf"} \cup Reading => args = <<>>
  /\ pc \in {"cnf"} \cup Reading => FileOpened /\ TokensRead
  /\ pc \in Reading => rest = <<>>
  /\ pc \in {"projected"} \cup Adding => WeightsRead
  /\ pc \in Adding => ProjectedRead
  /\ pc \in {"copy", "ready"} => KnownNames

-----------------------------------------------------------------------------
(* The options.                                                            *)

LEMMA MultipleFacts ==
  ASSUME NEW I \in Nat, I > 0, NEW c \in Int
  PROVE  /\ I * c \in Int
         /\ c >= 1 => I * c >= I
         /\ c <= -1 => I * c <= -I
         /\ c = 0 => I * c = 0
OBVIOUS

\* A multiple less, the same remainder.
LEMMA ModShift ==
  ASSUME NEW I \in Nat, I > 0, NEW n \in Int, NEW q \in Int
  PROVE  (n - I * q) % I = n % I
<1> DEFINE m == n - I * q
           a == n \div I
           b == m \div I
<1>1. /\ n = I * a + (n % I) /\ a \in Int /\ n % I \in 0 .. I - 1
      /\ m = I * b + (m % I) /\ b \in Int /\ m % I \in 0 .. I - 1
  OBVIOUS
<1>2. I * (a - b - q) = I * a - I * b - I * q
  BY <1>1
<1>3. I * (a - b - q) = (m % I) - (n % I)
  BY <1>1, <1>2
<1>4. a - b - q = 0
  <2> HIDE DEF a, b, m
  <2> DEFINE c == a - b - q
  <2>1. c \in Int
    BY <1>1
  <2> QED
    BY <1>1, <1>3, <2>1, MultipleFacts
<1> HIDE DEF m, a, b
<1>5. m % I = n % I
  BY <1>1, <1>3, <1>4
<1> QED
  BY <1>5 DEF m

\* Cutting a number to the width keeps its remainder.
LEMMA ToIntFacts ==
  ASSUME NEW n \in Int
  PROVE  ToInt(n) \in Int /\ ToInt(n) % IntValues = n % IntValues
<1> DEFINE q == (n - MinInt) \div IntValues
<1>1. IntValues \in Nat /\ IntValues > 0 /\ MinInt \in Int
  BY IntValuesAssumption DEF MinInt
<1>2. q \in Int /\ n - MinInt = IntValues * q + ((n - MinInt) % IntValues) /\ (n - MinInt) % IntValues \in Int
  BY <1>1
<1>3. ToInt(n) = n - IntValues * q
  BY <1>1, <1>2 DEF ToInt
<1> HIDE DEF q
<1>4. (n - IntValues * q) % IntValues = n % IntValues
  BY <1>1, <1>2, ModShift
<1> QED
  BY <1>1, <1>2, <1>3, <1>4

\* The first value of an option is in its range.
Within(r) == LET n == r.value
             IN /\ ~(n > r.end \/ (n = r.end /\ ~r.endIn))
                /\ ~(n < r.begin \/ (n = r.begin /\ ~r.beginIn))
Begins(r) == /\ r.type \in {"bool", "string", "int", "double"}
             /\ r.type \in {"int", "double"} => Within(r)

LEMMA IntOptions ==
  ASSUME NEW def \in Int, NEW begin \in Int, NEW end \in Int, begin <= def, def <= end
  PROVE  Begins(IntOption(def, begin, end))
BY DEF IntOption, Begins, Within

LEMMA MainOptionsBegin ==
  \A o \in DOMAIN MainOptions : Begins(MainOptions[o])
<1>1. MaxInt \in Int /\ MinInt \in Int /\ MaxInt >= 128 /\ MinInt <= 0
  BY IntValuesAssumption DEF MaxInt, MinInt
<1>2. /\ Begins(IntOption(1, MinInt, MaxInt)) /\ Begins(IntOption(128, MinInt, MaxInt))
      /\ Begins(IntOption(20, 0, 31)) /\ Begins(IntOption(18, 0, 31)) /\ Begins(IntOption(0, 0, 2))
  BY <1>1, IntOptions
<1>3. DOMAIN MainOptions =
        {"mc", "dDNNF", "print", "query", "optAnd", "rp", "rpg", "eqs", "cs", "cr", "vh", "ph",
         "pv", "wFile", "out", "drat", "fpv", "preproc", "optCache", "precision", "reduceCache",
         "freqLimitDyn", "strategyRedCache"}
  BY DEF MainOptions
<1>4. /\ MainOptions["mc"] = BoolOption(FALSE)
      /\ MainOptions["dDNNF"] = BoolOption(FALSE)
      /\ MainOptions["print"] = BoolOption(FALSE)
      /\ MainOptions["query"] = BoolOption(FALSE)
      /\ MainOptions["optAnd"] = BoolOption(TRUE)
      /\ MainOptions["rp"] = BoolOption(FALSE)
      /\ MainOptions["rpg"] = BoolOption(TRUE)
      /\ MainOptions["eqs"] = BoolOption(TRUE)
  BY DEF MainOptions
<1>5. /\ MainOptions["cs"] = StringOption("NT")
      /\ MainOptions["cr"] = StringOption("CL")
      /\ MainOptions["vh"] = StringOption("VSADS")
      /\ MainOptions["ph"] = StringOption("TRUE")
      /\ MainOptions["pv"] = StringOption("CB")
      /\ MainOptions["wFile"] = StringOption("/dev/null")
      /\ MainOptions["out"] = StringOption("/dev/null")
      /\ MainOptions["drat"] = StringOption("/dev/null")
      /\ MainOptions["fpv"] = StringOption("/dev/null")
      /\ MainOptions["preproc"] = StringOption("")
  BY DEF MainOptions
<1>6. /\ MainOptions["optCache"] = IntOption(1, MinInt, MaxInt)
      /\ MainOptions["precision"] = IntOption(128, MinInt, MaxInt)
      /\ MainOptions["reduceCache"] = IntOption(20, 0, 31)
      /\ MainOptions["freqLimitDyn"] = IntOption(18, 0, 31)
      /\ MainOptions["strategyRedCache"] = IntOption(0, 0, 2)
  BY DEF MainOptions
<1>7. /\ Begins(MainOptions["mc"]) /\ Begins(MainOptions["dDNNF"]) /\ Begins(MainOptions["print"])
      /\ Begins(MainOptions["query"]) /\ Begins(MainOptions["optAnd"]) /\ Begins(MainOptions["rp"])
      /\ Begins(MainOptions["rpg"]) /\ Begins(MainOptions["eqs"])
  BY <1>4, SMT DEF Begins, BoolOption
<1>8. ASSUME NEW def
      PROVE  Begins(StringOption(def))
  BY DEF Begins, StringOption
<1>10. /\ Begins(MainOptions["cs"]) /\ Begins(MainOptions["cr"]) /\ Begins(MainOptions["vh"])
       /\ Begins(MainOptions["ph"]) /\ Begins(MainOptions["pv"])
  BY <1>5, <1>8, Zenon
<1>11. /\ Begins(MainOptions["wFile"]) /\ Begins(MainOptions["out"]) /\ Begins(MainOptions["drat"])
       /\ Begins(MainOptions["fpv"]) /\ Begins(MainOptions["preproc"])
  BY <1>5, <1>8, Zenon
<1>9. /\ Begins(MainOptions["optCache"]) /\ Begins(MainOptions["precision"]) /\ Begins(MainOptions["reduceCache"])
      /\ Begins(MainOptions["freqLimitDyn"]) /\ Begins(MainOptions["strategyRedCache"])
  BY <1>2, <1>6, SMT
<1> QED
  BY <1>3, <1>7, <1>9, <1>10, <1>11

LEMMA SolverOptionsBegin ==
  \A o \in DOMAIN SolverOptions : Begins(SolverOptions[o])
<1>1. MaxInt \in Int /\ MaxInt >= 128
  BY IntValuesAssumption DEF MaxInt
<1>2. Begins(IntOption(2, 0, 2)) /\ Begins(IntOption(100, 1, MaxInt))
  BY <1>1, IntOptions
<1>3. HugeVal \in Int /\ HugeVal > 2000
  BY SMT DEF HugeVal
<1>9. DOMAIN SolverOptions = {"varDecay", "claDecay", "rndFreq", "ccminMode", "phaseSaving",
                              "rndInit", "luby", "rfirst", "rinc", "gcFrac"}
  BY DEF SolverOptions
<1>10. /\ SolverOptions["varDecay"] = DoubleOption(950, 0, FALSE, 1000, FALSE)
       /\ SolverOptions["claDecay"] = DoubleOption(999, 0, FALSE, 1000, FALSE)
       /\ SolverOptions["rndFreq"] = DoubleOption(0, 0, TRUE, 1000, TRUE)
       /\ SolverOptions["ccminMode"] = IntOption(2, 0, 2)
       /\ SolverOptions["phaseSaving"] = IntOption(2, 0, 2)
       /\ SolverOptions["rndInit"] = BoolOption(FALSE)
       /\ SolverOptions["luby"] = BoolOption(TRUE)
       /\ SolverOptions["rfirst"] = IntOption(100, 1, MaxInt)
       /\ SolverOptions["rinc"] = DoubleOption(2000, 1000, FALSE, HugeVal, FALSE)
       /\ SolverOptions["gcFrac"] = DoubleOption(200, 0, FALSE, HugeVal, FALSE)
  BY SMT DEF SolverOptions
<1>11. Begins(SolverOptions["varDecay"]) /\ Begins(SolverOptions["claDecay"])
  BY <1>10, SMT DEF Begins, DoubleOption, Within
<1>12. Begins(SolverOptions["rndFreq"])
  BY <1>10, SMT DEF Begins, DoubleOption, Within
<1>13. Begins(SolverOptions["rinc"]) /\ Begins(SolverOptions["gcFrac"])
  BY <1>3, <1>10, SMT DEF Begins, DoubleOption, Within
<1>14. Begins(SolverOptions["rndInit"]) /\ Begins(SolverOptions["luby"])
  BY <1>10, SMT DEF Begins, BoolOption
<1>15. Begins(SolverOptions["ccminMode"]) /\ Begins(SolverOptions["phaseSaving"])
  BY <1>2, <1>10, SMT
<1>16. Begins(SolverOptions["rfirst"])
  BY <1>2, <1>10, SMT
<1> QED
  BY <1>9, <1>11, <1>12, <1>13, <1>14, <1>15, <1>16

LEMMA OptionsBegin ==
  ASSUME NEW o \in DOMAIN OptionList
  PROVE  /\ OptionList[o].type \in {"bool", "string", "int", "double"}
         /\ InRange(o, OptionList[o].value)
<1>1. Begins(OptionList[o])
  BY MainOptionsBegin, SolverOptionsBegin DEF OptionList
<1> QED
  BY <1>1 DEF Begins, Within, InRange, TooLarge, TooSmall

\* What an option reads of an argument is what the argument says.
LEMMA ReadValueEquals ==
  ASSUME NEW o \in DOMAIN OptionList, NEW a, Parses(o, a),
         a.value # None => a.value.number \in Int
  PROVE  Equals(o, a, ReadValue(o, a))
<1>1. OptionList[o].type \in {"bool", "string", "int", "double"}
  BY OptionsBegin
<1>2. CASE OptionList[o].type = "int"
  <2>1. a.value # None
    BY <1>2 DEF Parses, ParsesBool, ParsesValue
  <2>2. ReadValue(o, a) = ToInt(a.value.number)
    BY <1>2 DEF ReadValue, ParseInt
  <2>3. ToInt(a.value.number) % IntValues = a.value.number % IntValues
    BY <2>1, ToIntFacts
  <2> QED
    BY <1>2, <2>2, <2>3 DEF Equals
<1>3. CASE OptionList[o].type = "bool"
  BY <1>3 DEF Equals, ReadValue, ParseBool
<1>4. CASE OptionList[o].type = "string"
  BY <1>4 DEF Equals, ReadValue, ParseString
<1>5. CASE OptionList[o].type = "double"
  BY <1>5 DEF Equals, ReadValue, ParseDouble
<1> QED
  BY <1>1, <1>2, <1>3, <1>4, <1>5

\* What is behind a place of a sequence.
LEMMA BehindFacts ==
  ASSUME NEW E, NEW s \in Seq(E), NEW d \in 0 .. Len(s)
  PROVE  /\ Behind(s, d) \in Seq(E)
         /\ Len(Behind(s, d)) = Len(s) - d
         /\ \A k \in 1 .. Len(s) - d : Behind(s, d)[k] = s[d + k]
         /\ Behind(s, d) = <<>> => d = Len(s)
<1>1. Len(s) \in Nat /\ \A k \in 1 .. Len(s) : s[k] \in E
  BY ElementOfSeq
<1>2. \A k \in d + 1 .. Len(s) : s[k] \in E
  BY <1>1
<1>3. d + 1 \in Nat /\ Len(s) \in Nat
  BY <1>1
<1>4. /\ Behind(s, d) \in Seq(E)
      /\ Len(Behind(s, d)) = IF d + 1 <= Len(s) THEN Len(s) - (d + 1) + 1 ELSE 0
      /\ \A k \in 1 .. Len(s) - (d + 1) + 1 : Behind(s, d)[k] = s[d + 1 + k - 1]
  BY <1>2, <1>3, SubSeqProperties DEF Behind
<1>5. \A k \in 1 .. Len(s) - d : k \in 1 .. Len(s) - (d + 1) + 1 /\ d + 1 + k - 1 = d + k
  BY <1>1
<1>6. Len(Behind(s, d)) = Len(s) - d
  BY <1>1, <1>4
<1>7. Behind(s, d) = <<>> => d = Len(s)
  BY <1>1, <1>6, EmptySeq
<1> QED
  BY <1>4, <1>5, <1>6, <1>7

\* Sequences are the same with the same places.
LEMMA SameSequences ==
  ASSUME NEW E, NEW s \in Seq(E), NEW t \in Seq(E), Len(s) = Len(t),
         \A k \in 1 .. Len(s) : s[k] = t[k]
  PROVE  s = t
<1>1. s \in [1 .. Len(s) -> E] /\ t \in [1 .. Len(s) -> E]
  OBVIOUS
<1> QED
  BY <1>1

LEMMA BehindBehind ==
  ASSUME NEW E, NEW s \in Seq(E), NEW d \in 0 .. Len(s), NEW n \in 0 .. Len(s) - d
  PROVE  Behind(Behind(s, d), n) = Behind(s, d + n)
<1>0. /\ Behind(s, d) \in Seq(E) /\ Len(Behind(s, d)) = Len(s) - d /\ Len(s) \in Nat
      /\ \A k \in 1 .. Len(s) - d : Behind(s, d)[k] = s[d + k]
  BY BehindFacts, LenProperties
<1> PICK r : r = Behind(s, d)
  OBVIOUS
<1>1. /\ r \in Seq(E) /\ Len(r) = Len(s) - d /\ Len(s) \in Nat
      /\ \A k \in 1 .. Len(s) - d : r[k] = s[d + k]
  BY <1>0
<1>2. n \in 0 .. Len(r) /\ d + n \in 0 .. Len(s)
  BY <1>1
<1>3. /\ Behind(r, n) \in Seq(E) /\ Len(Behind(r, n)) = Len(r) - n
      /\ \A k \in 1 .. Len(r) - n : Behind(r, n)[k] = r[n + k]
  BY <1>1, <1>2, BehindFacts
<1>4. /\ Behind(s, d + n) \in Seq(E) /\ Len(Behind(s, d + n)) = Len(s) - (d + n)
      /\ \A k \in 1 .. Len(s) - (d + n) : Behind(s, d + n)[k] = s[d + n + k]
  BY <1>2, BehindFacts
<1>5. \A k \in 1 .. Len(r) - n : /\ k \in 1 .. Len(s) - (d + n) /\ n + k \in 1 .. Len(s) - d
                                 /\ d + n + k = d + (n + k)
  BY <1>1, <1>2
<1>6. \A k \in 1 .. Len(r) - n : Behind(r, n)[k] = Behind(s, d + n)[k]
  BY <1>1, <1>3, <1>4, <1>5
<1>7. Len(Behind(r, n)) = Len(Behind(s, d + n))
  BY <1>1, <1>2, <1>3, <1>4
<1> QED
  BY <1>3, <1>4, <1>6, <1>7, SameSequences

LEMMA BehindNext ==
  ASSUME NEW E, NEW s \in Seq(E), NEW d \in 0 .. Len(s), Behind(s, d) # <<>>
  PROVE  /\ d + 1 \in 1 .. Len(s)
         /\ Head(Behind(s, d)) = s[d + 1]
         /\ Tail(Behind(s, d)) = Behind(s, d + 1)
<1>0. /\ Behind(s, d) \in Seq(E) /\ Len(Behind(s, d)) = Len(s) - d /\ Len(s) \in Nat
      /\ \A k \in 1 .. Len(s) - d : Behind(s, d)[k] = s[d + k]
  BY BehindFacts, LenProperties
<1> PICK r : r = Behind(s, d)
  OBVIOUS
<1>1. /\ r \in Seq(E) /\ Len(r) = Len(s) - d /\ Len(s) \in Nat
      /\ \A k \in 1 .. Len(s) - d : r[k] = s[d + k]
  BY <1>0
<1>2. Len(r) > 0
  BY <1>1, EmptySeq
<1>3. Head(r) = r[1]
  OBVIOUS
<1>4. Tail(r) = Behind(r, 1)
  BY <1>1, <1>2, TailIsSubSeq DEF Behind
<1>5. Behind(r, 1) = Behind(s, d + 1)
  BY <1>1, <1>2, BehindBehind
<1> QED
  BY <1>1, <1>2, <1>3, <1>4, <1>5

\* One more argument.
LEMMA ForNext ==
  ASSUME NEW s, NEW d \in Nat, NEW o
  PROVE  /\ Parses(o, s[d + 1]) => For(s, d + 1, o) = For(s, d, o) \cup {d + 1}
         /\ ~Parses(o, s[d + 1]) => For(s, d + 1, o) = For(s, d, o)
<1>1. 1 .. d + 1 = (1 .. d) \cup {d + 1}
  OBVIOUS
<1> QED
  BY <1>1 DEF For

\* An argument that is no flag.
LEMMA TakenByNone ==
  ASSUME NEW s, NEW d \in Nat, NEW vs, OptionsTaken(s, d, vs), s[d + 1].kind # "flag"
  PROVE  OptionsTaken(s, d + 1, vs)
<1>1. \A o : ~Parses(o, s[d + 1])
  BY DEF Parses
<1>2. \A o : For(s, d + 1, o) = For(s, d, o)
  BY <1>1, ForNext
<1>3. \A o \in DOMAIN OptionList : Asked(s, d + 1, o, vs[o])
  BY <1>2 DEF OptionsTaken, Asked
<1>4. \A n \in 1 .. d + 1 : s[n].kind = "flag" => n \in 1 .. d
  OBVIOUS
<1> QED
  BY <1>3, <1>4 DEF OptionsTaken

\* An argument that the option o takes.
LEMMA TakenByOption ==
  ASSUME NEW s, NEW d \in Nat, NEW vs, OptionsTaken(s, d, vs),
         NEW o \in ParsedBy(s[d + 1]), InRange(o, ReadValue(o, s[d + 1])),
         s[d + 1].value # None => s[d + 1].value.number \in Int
  PROVE  OptionsTaken(s, d + 1, [vs EXCEPT ![o] = ReadValue(o, s[d + 1])])
<1> DEFINE v == ReadValue(o, s[d + 1])
           us == [vs EXCEPT ![o] = v]
<1>1. o \in DOMAIN OptionList /\ Parses(o, s[d + 1])
  BY DEF ParsedBy
<1>2. Equals(o, s[d + 1], v)
  BY <1>1, ReadValueEquals
<1>3. For(s, d + 1, o) = For(s, d, o) \cup {d + 1}
  BY <1>1, ForNext
<1>4. \A p \in DOMAIN OptionList : p # o => For(s, d + 1, p) = For(s, d, p)
  <2>1. \A p : p # o => ~Parses(p, s[d + 1])
    BY <1>1 DEF Parses
  <2> QED
    BY <2>1, ForNext
<1>5. vs = [p \in DOMAIN OptionList |-> vs[p]]
  BY DEF OptionsTaken
<1>6. InRange(o, v)
  OBVIOUS
<1> HIDE DEF v
<1>7. us[o] = v /\ \A p \in DOMAIN OptionList : p # o => us[p] = vs[p]
  BY <1>1, <1>5
<1>8. us = [p \in DOMAIN OptionList |-> us[p]]
  BY <1>5
<1> HIDE DEF us
<1>9. \A p \in DOMAIN OptionList : Asked(s, d + 1, p, us[p])
  <2>1. Asked(s, d + 1, o, us[o])
    <3>1. \A m \in For(s, d, o) : m <= d + 1
      BY DEF For
    <3>2. d + 1 \in For(s, d + 1, o) /\ \A m \in For(s, d + 1, o) : m <= d + 1
      BY <1>3, <3>1
    <3> QED
      BY <1>2, <1>6, <1>7, <3>2 DEF Asked
  <2>2. ASSUME NEW p \in DOMAIN OptionList, p # o
        PROVE  Asked(s, d + 1, p, us[p])
    <3>1. Asked(s, d, p, vs[p])
      BY DEF OptionsTaken
    <3>2. For(s, d + 1, p) = For(s, d, p) /\ us[p] = vs[p]
      BY <1>4, <1>7, <2>2
    <3> QED
      BY <3>1, <3>2 DEF Asked
  <2> QED
    BY <2>1, <2>2
<1>10. \A n \in 1 .. d + 1 : s[n].kind = "flag" => \E p \in DOMAIN OptionList : Parses(p, s[n])
  <2>1. \A n \in 1 .. d + 1 : n \in 1 .. d \/ n = d + 1
    OBVIOUS
  <2> QED
    BY <1>1, <2>1 DEF OptionsTaken
<1>11. OptionsTaken(s, d + 1, us)
  BY <1>8, <1>9, <1>10 DEF OptionsTaken
<1> QED
  BY <1>11 DEF us, v

\* What has no dash is kept, and nothing else.
LEMMA PlainNext ==
  ASSUME NEW s, NEW d \in Nat, NEW E, NEW names \in Seq(E), PlainKept(s, d, names)
  PROVE  /\ s[d + 1].kind # "plain" => PlainKept(s, d + 1, names)
         /\ s[d + 1].kind = "plain" /\ s[d + 1].name \in E
              => PlainKept(s, d + 1, Append(names, s[d + 1].name))
<1>1. 1 .. d + 1 = (1 .. d) \cup {d + 1}
  OBVIOUS
<1>2. s[d + 1].kind # "plain" => Plain(s, d + 1) = Plain(s, d)
  BY <1>1 DEF Plain
<1>3. ASSUME s[d + 1].kind = "plain", s[d + 1].name \in E
      PROVE  PlainKept(s, d + 1, Append(names, s[d + 1].name))
  <2> PICK name : name = s[d + 1].name
    OBVIOUS
  <2>1. Plain(s, d + 1) = Plain(s, d) \cup {d + 1}
    BY <1>1, <1>3 DEF Plain
  <2>2. /\ Append(names, name) \in Seq(E) /\ Len(names) \in Nat
        /\ Len(Append(names, name)) = Len(names) + 1
        /\ Append(names, name)[Len(names) + 1] = name
        /\ \A k \in 1 .. Len(names) : Append(names, name)[k] = names[k]
    BY <1>3, PushFacts
  <2>3. Append(names, name) # <<>>
    <3>1. Len(<<>>) = 0 /\ Len(names) + 1 # 0
      BY <2>2
    <3> QED
      BY <2>2, <3>1
  <2>4. CASE Plain(s, d) = {}
    <3>1. names = <<>> /\ Len(names) = 0
      BY <2>4, EmptySeq DEF PlainKept
    <3>2. Append(names, name)[1] = name /\ Plain(s, d + 1) = {d + 1}
      BY <2>1, <2>2, <2>4, <3>1
    <3> QED
      BY <2>3, <3>2 DEF PlainKept
  <2>5. CASE Plain(s, d) # {}
    <3>1. PICK n \in Plain(s, d) : /\ \A m \in Plain(s, d) : n <= m
                                   /\ names # <<>> /\ names[1] = s[n].name
      BY <2>5 DEF PlainKept
    <3>2. n \in 1 .. d
      BY DEF Plain
    <3>3. Len(names) > 0
      BY <2>2, <3>1, EmptySeq
    <3>4. Append(names, name)[1] = s[n].name
      BY <2>2, <3>1, <3>3
    <3>5. n \in Plain(s, d + 1) /\ \A m \in Plain(s, d + 1) : n <= m
      BY <2>1, <3>1, <3>2
    <3> QED
      BY <2>3, <3>4, <3>5 DEF PlainKept
  <2> QED
    BY <2>4, <2>5
<1> QED
  BY <1>2, <1>3 DEF PlainKept

LEMMA ArgumentsStep ==
  ASSUME ReadTyped, ArgumentsRead, OptionsNext
  PROVE  /\ ArgumentsRead'
         /\ pc = "options" /\ pc' \in {"options", "usage", "rejected", "open"}
         /\ pc' = "open" => args' = <<>>
<1>1. PICK d \in 0 .. Len(invocation.args) :
        /\ args = Behind(invocation.args, d)
        /\ OptionsTaken(invocation.args, d, values)
        /\ PlainKept(invocation.args, d, kept)
  BY DEF ArgumentsRead
<1> PICK s : s = invocation.args
  OBVIOUS
<1>2. /\ s \in Seq(ToSet(s)) /\ d \in Nat /\ kept \in Seq(PlainNames(invocation))
      /\ \A a \in ToSet(s) : a.kind = "flag" /\ a.value # None => a.value.number \in Int
  BY ArgumentsAssumption DEF ReadTyped
<1>3. d \in 0 .. Len(s) /\ args = Behind(s, d) /\ OptionsTaken(s, d, values) /\ PlainKept(s, d, kept)
  BY <1>1
<1>4. args # <<>> => /\ d + 1 \in 0 .. Len(s) /\ Head(args) = s[d + 1] /\ Tail(args) = Behind(s, d + 1)
                     /\ s[d + 1] \in ToSet(s)
  <2> SUFFICES ASSUME args # <<>>
               PROVE  /\ d + 1 \in 0 .. Len(s) /\ Head(args) = s[d + 1] /\ Tail(args) = Behind(s, d + 1)
                      /\ s[d + 1] \in ToSet(s)
    OBVIOUS
  <2>1. d + 1 \in 1 .. Len(s) /\ Head(args) = s[d + 1] /\ Tail(args) = Behind(s, d + 1)
    BY <1>2, <1>3, BehindNext
  <2>2. s[d + 1] \in ToSet(s)
    BY <1>2, <2>1, ElementOfSeq
  <2> QED
    BY <2>1, <2>2

\* The next argument is looked at.
<1>5. ASSUME args # <<>>, args' = Tail(args), invocation' = invocation,
             OptionsTaken(s, d + 1, values'), PlainKept(s, d + 1, kept')
      PROVE  ArgumentsRead'
  BY <1>4, <1>5 DEF ArgumentsRead
<1>6. ASSUME UNCHANGED optionVars
      PROVE  ArgumentsRead'
  BY <1>6 DEF optionVars, ArgumentsRead
<1>7. CASE PrintUsageAndExit
  BY <1>6, <1>7 DEF PrintUsageAndExit, NextArgument
<1>8. CASE DropHelp
  <2>1. args # <<>> /\ s[d + 1].kind = "help"
    BY <1>4, <1>8 DEF DropHelp, NextArgument
  <2>2. OptionsTaken(s, d + 1, values)
    BY <1>2, <1>3, <2>1, TakenByNone
  <2>3. PlainKept(s, d + 1, kept)
    BY <1>2, <1>3, <2>1, PlainNext
  <2> QED
    BY <1>5, <1>8, <2>1, <2>2, <2>3 DEF DropHelp, NextArgument
<1>9. CASE ParseOption
  <2>1. args # <<>> /\ Head(args) = s[d + 1] /\ s[d + 1].kind = "flag" /\ s[d + 1] \in ToSet(s)
    BY <1>4, <1>9 DEF ParseOption, NextArgument
  <2>2. PICK o \in ParsedBy(s[d + 1]) :
          /\ InRange(o, ReadValue(o, s[d + 1]))
          /\ values' = [values EXCEPT ![o] = ReadValue(o, s[d + 1])]
    BY <1>9, <2>1 DEF ParseOption
  <2>3. s[d + 1].value # None => s[d + 1].value.number \in Int
    BY <1>2, <2>1
  <2>4. OptionsTaken(s, d + 1, values')
    BY <1>2, <1>3, <2>2, <2>3, TakenByOption
  <2>5. PlainKept(s, d + 1, kept)
    BY <1>2, <1>3, <2>1, PlainNext
  <2> QED
    BY <1>5, <1>9, <2>1, <2>4, <2>5 DEF ParseOption, NextArgument
<1>10. CASE OutOfRange
  BY <1>6, <1>10 DEF OutOfRange, NextArgument
<1>11. CASE UnknownFlag
  BY <1>6, <1>11 DEF UnknownFlag, NextArgument
<1>12. CASE KeepArgument
  <2>1. args # <<>> /\ Head(args) = s[d + 1] /\ s[d + 1].kind = "plain" /\ s[d + 1] \in ToSet(s)
    BY <1>4, <1>12 DEF KeepArgument, NextArgument
  <2>2. OptionsTaken(s, d + 1, values)
    BY <1>2, <1>3, <2>1, TakenByNone
  <2>3. s[d + 1].name \in PlainNames(invocation)
    BY <2>1 DEF PlainNames
  <2>4. PlainKept(s, d + 1, Append(kept, s[d + 1].name))
    BY <1>2, <1>3, <2>1, <2>3, PlainNext
  <2> QED
    BY <1>5, <1>12, <2>1, <2>2, <2>4 DEF KeepArgument, NextArgument
<1>13. CASE EndOfArguments
  BY <1>6, <1>13 DEF EndOfArguments, optionVars
<1> QED
  BY <1>7, <1>8, <1>9, <1>10, <1>11, <1>12, <1>13 DEF OptionsNext, NextArgument

-----------------------------------------------------------------------------
(* The formula.                                                            *)

\* A token that is no integer.
LEMMA ClosedNext ==
  ASSUME NEW E, NEW t \in Seq(E), NEW p \in Nat, Closed(t, p), t[p + 1].kind # "int"
  PROVE  Closed(t, p + 1) /\ ClausesIn(t, p + 1) = ClausesIn(t, p)
<1>1. \A k \in 1 .. p + 1 : k \in 1 .. p \/ k = p + 1
  OBVIOUS
<1>2. \A k \in 1 .. p : \A z \in k .. p : z \in k .. p + 1
  OBVIOUS
<1>3. Closed(t, p + 1)
  BY <1>1, <1>2 DEF Closed
<1>4. p + 1 \notin Zeros(t)
  BY DEF Zeros, IsZero
<1>5. \A x \in Zeros(t) : x \in Nat
  BY DEF Zeros
<1>6. {x \in Zeros(t) : x <= p + 1} = {x \in Zeros(t) : x <= p}
  BY <1>4, <1>5
<1> QED
  BY <1>3, <1>6 DEF ClausesIn

\* The integers up to the next 0.
LEMMA ClauseNext ==
  ASSUME NEW E, NEW t \in Seq(E), NEW p \in 0 .. Len(t), Closed(t, p),
         NEW n \in Ends(Behind(t, p))
  PROVE  /\ p + n \in 0 .. Len(t)
         /\ Behind(Behind(t, p), n) = Behind(t, p + n)
         /\ Closed(t, p + n)
         /\ ClausesIn(t, p + n) =
              ClausesIn(t, p) \cup {ToSet([k \in 1 .. n - 1 |-> Behind(t, p)[k].value])}
<1> DEFINE r == Behind(t, p)
<1>1. /\ r \in Seq(E) /\ Len(r) = Len(t) - p /\ Len(t) \in Nat /\ DOMAIN t = 1 .. Len(t)
      /\ \A k \in 1 .. Len(t) - p : r[k] = t[p + k]
  BY BehindFacts, LenProperties
<1> HIDE DEF r
<1>2. n \in 1 .. Len(t) - p
  BY <1>1 DEF Ends, r
<1>3. IsZero(r[n]) /\ \A m \in 1 .. n - 1 : r[m].kind = "int" /\ ~IsZero(r[m])
  BY DEF Ends, r
<1>4. /\ p + n \in DOMAIN t /\ IsZero(t[p + n])
      /\ \A m \in 1 .. n - 1 : r[m] = t[p + m] /\ t[p + m].kind = "int" /\ ~IsZero(t[p + m])
  BY <1>1, <1>2, <1>3
<1>5. \A k \in p + 1 .. (p + n) - 1 : t[k].kind = "int" /\ ~IsZero(t[k])
  <2> SUFFICES ASSUME NEW k \in p + 1 .. (p + n) - 1
               PROVE  t[k].kind = "int" /\ ~IsZero(t[k])
    OBVIOUS
  <2>1. k - p \in 1 .. n - 1 /\ p + (k - p) = k
    BY <1>2
  <2> QED
    BY <1>4, <2>1
<1>6. Behind(Behind(t, p), n) = Behind(t, p + n)
  BY <1>2, BehindBehind
<1>7. Closed(t, p + n)
  <2> SUFFICES ASSUME NEW k \in 1 .. p + n, t[k].kind = "int"
               PROVE  \E z \in k .. p + n : IsZero(t[z])
    BY DEF Closed
  <2>1. p + n \in k .. p + n
    BY <1>2
  <2> QED
    BY <1>4, <2>1
<1>8. {x \in Zeros(t) : x <= p + n} = {x \in Zeros(t) : x <= p} \cup {p + n}
  <2>1. \A x \in Zeros(t) : x \in 1 .. Len(t) /\ IsZero(t[x])
    BY <1>1 DEF Zeros
  <2>2. p + n \in Zeros(t)
    BY <1>4 DEF Zeros
  <2>3. \A x \in Zeros(t) : x <= p + n => x <= p \/ x = p + n
    BY <1>2, <1>5, <2>1
  <2> QED
    BY <1>2, <2>1, <2>2, <2>3

\* What ends at the 0 began behind the place p.
<1>9. ASSUME NEW m \in 1 .. (p + n) - 1, t[m].kind = "int", \A z \in Zeros(t) : z < p + n => z < m
      PROVE  m \in p + 1 .. (p + n) - 1
  <2> SUFFICES ASSUME m <= p
               PROVE  FALSE
    BY <1>2
  <2>1. PICK z \in m .. p : IsZero(t[z])
    BY <1>9 DEF Closed
  <2>2. z \in Zeros(t) /\ z < p + n /\ ~(z < m)
    BY <1>1, <1>2, <2>1 DEF Zeros
  <2> QED
    BY <1>9, <2>2
<1>10. ASSUME NEW m \in p + 1 .. (p + n) - 1
       PROVE  m \in 1 .. (p + n) - 1 /\ t[m].kind = "int" /\ \A z \in Zeros(t) : z < p + n => z < m
  <2>1. \A z \in Zeros(t) : z \in Nat /\ z \notin p + 1 .. (p + n) - 1
    BY <1>1, <1>5 DEF Zeros
  <2> QED
    BY <1>2, <1>5, <2>1
<1>11. PlacesUpTo(t, p + n) = p + 1 .. (p + n) - 1
  BY <1>2, <1>9, <1>10 DEF PlacesUpTo
<1>12. ClauseEndingAt(t, p + n) = {t[k].value : k \in p + 1 .. (p + n) - 1}
  BY <1>11 DEF ClauseEndingAt
<1> DEFINE c == [k \in 1 .. n - 1 |-> r[k].value]
<1>13. ToSet(c) = {r[k].value : k \in 1 .. n - 1}
  BY DEF ToSet
<1>14. {r[k].value : k \in 1 .. n - 1} = {t[k].value : k \in p + 1 .. (p + n) - 1}
  <2>1. \A k \in 1 .. n - 1 : p + k \in p + 1 .. (p + n) - 1 /\ r[k] = t[p + k]
    BY <1>2, <1>4
  <2>2. \A k \in p + 1 .. (p + n) - 1 : k - p \in 1 .. n - 1 /\ p + (k - p) = k
    BY <1>2
  <2>3. \A k \in p + 1 .. (p + n) - 1 : k - p \in 1 .. n - 1 /\ r[k - p] = t[k]
    BY <2>1, <2>2
  <2> QED
    BY <2>1, <2>3
<1>15. ClauseEndingAt(t, p + n) = ToSet(c)
  BY <1>12, <1>13, <1>14
<1> HIDE DEF c
<1>16. ClausesIn(t, p + n) = ClausesIn(t, p) \cup {ToSet(c)}
  BY <1>8, <1>15 DEF ClausesIn
<1>17. p + n \in 0 .. Len(t)
  BY <1>2
<1> QED
  BY <1>6, <1>7, <1>16, <1>17 DEF c, r

\* The list of the clauses gets one more.
LEMMA SetsNext ==
  ASSUME NEW E, NEW in \in Seq(E), NEW c \in E
  PROVE  SetsOf(Append(in, c)) = SetsOf(in) \cup {ToSet(c)}
<1>1. ToSet(Append(in, c)) = ToSet(in) \cup {c}
  BY AppendFacts
<1>2. \A s : SetsOf(s) = {ToSet(d) : d \in ToSet(s)}
  BY DEF SetsOf, ToSet
<1> QED
  BY <1>1, <1>2

-----------------------------------------------------------------------------
(* The weights.                                                            *)

\* Each literal has an index of its own.
LEMMA IndexFacts ==
  ASSUME Announced(nbVar), NEW l \in Literal
  PROVE  /\ LitIndex(l) \in 0 .. 2 * nbVar - 1
         /\ \A m \in Literal : LitIndex(m) = LitIndex(l) => m = l
<1>1. \A v \in Var : v \in 1 .. nbVar
  BY DEF Announced
<1>2. nbVar \in Nat
  BY DEF Announced
<1>3. \A k \in Literal : k \in Int /\ k # 0 /\ k <= nbVar /\ -k <= nbVar
  BY <1>1, <1>2 DEF Literal
<1>4. LitIndex(l) \in 0 .. 2 * nbVar - 1
  BY <1>2, <1>3 DEF LitIndex
<1>5. ASSUME NEW m \in Literal, LitIndex(m) = LitIndex(l)
      PROVE  m = l
  <2>1. m \in Int /\ l \in Int
    BY <1>3
  <2>2. CASE m > 0 /\ l > 0
    BY <1>5, <2>1, <2>2 DEF LitIndex
  <2>3. CASE ~(m > 0) /\ ~(l > 0)
    BY <1>5, <2>1, <2>3 DEF LitIndex
  <2>4. CASE m > 0 /\ ~(l > 0)
    BY <1>5, <2>1, <2>4 DEF LitIndex
  <2>5. CASE ~(m > 0) /\ l > 0
    BY <1>5, <2>1, <2>5 DEF LitIndex
  <2> QED
    BY <2>2, <2>3, <2>4, <2>5
<1> QED
  BY <1>4, <1>5

\* The lines for the literal l among the first k, and what they leave.
GivenAmong(e, k, l) == {n \in 1 .. k : e[n].lit = l}
WeightLeft(e, k, l, w) ==
  IF GivenAmong(e, k, l) = {} THEN w = 1
  ELSE \E n \in GivenAmong(e, k, l) : /\ \A m \in GivenAmong(e, k, l) : m <= n
                                      /\ w = e[n].weight

\* One line more.
LEMMA WeightNext ==
  ASSUME Announced(nbVar), NEW e, NEW k \in Nat \ {0}, e[k].lit \in Literal,
         NEW W, NEW f \in [0 .. 2 * nbVar - 1 -> W], e[k].weight \in W,
         \A l \in Literal : WeightLeft(e, k - 1, l, f[LitIndex(l)])
  PROVE  LET g == [f EXCEPT ![LitIndex(e[k].lit)] = e[k].weight]
         IN /\ g \in [0 .. 2 * nbVar - 1 -> W]
            /\ \A l \in Literal : WeightLeft(e, k, l, g[LitIndex(l)])
<1> DEFINE g == [f EXCEPT ![LitIndex(e[k].lit)] = e[k].weight]
           x == e[k].lit
<1>1. LitIndex(x) \in 0 .. 2 * nbVar - 1 /\ \A l \in Literal : LitIndex(l) = LitIndex(x) => l = x
  BY IndexFacts
<1>2. g \in [0 .. 2 * nbVar - 1 -> W]
  OBVIOUS
<1>3. g[LitIndex(x)] = e[k].weight
  BY <1>1
<1>4. \A l \in Literal : l # x => g[LitIndex(l)] = f[LitIndex(l)]
  <2>1. \A l \in Literal : LitIndex(l) \in 0 .. 2 * nbVar - 1
    BY IndexFacts
  <2> QED
    BY <1>1, <2>1
<1> HIDE DEF g
<1>5. 1 .. k = (1 .. k - 1) \cup {k}
  OBVIOUS
<1>6. WeightLeft(e, k, x, g[LitIndex(x)])
  <2>1. k \in GivenAmong(e, k, x) /\ \A m \in GivenAmong(e, k, x) : m <= k
    BY DEF GivenAmong
  <2> QED
    BY <1>3, <2>1 DEF WeightLeft
<1>7. ASSUME NEW l \in Literal, l # x
      PROVE  WeightLeft(e, k, l, g[LitIndex(l)])
  <2>1. GivenAmong(e, k, l) = GivenAmong(e, k - 1, l)
    BY <1>5, <1>7 DEF GivenAmong
  <2>2. g[LitIndex(l)] = f[LitIndex(l)]
    BY <1>4, <1>7
  <2>3. WeightLeft(e, k - 1, l, f[LitIndex(l)])
    OBVIOUS
  <2> QED
    BY <2>1, <2>2, <2>3 DEF WeightLeft
<1>8. \A l \in Literal : WeightLeft(e, k, l, g[LitIndex(l)])
  BY <1>6, <1>7
<1> QED
  BY <1>2, <1>8 DEF g

\* After all lines a literal has the weight of its last one.
LEMMA WeightsFacts ==
  ASSUME Announced(nbVar), NEW e, IsWeights(e), NEW l \in Literal
  PROVE  WeightLeft(e, Len(e), l, WeightsOf(e)[LitIndex(l)])
<1> DEFINE n == Len(e)
           W == {e[k].weight : k \in 1 .. n} \cup {1}
           V == [0 .. 2 * nbVar - 1 -> W]
           Turn(w, k) == [w EXCEPT ![LitIndex(e[k].lit)] = e[k].weight]
           turn == [k \in 1 .. n |-> [w \in V |-> Turn(w, k)]]
           Step(f, k) == IF k = 0 THEN AllOnes ELSE Turn(f[k - 1], k)
           g == CHOOSE f : f = [k \in 0 .. n |-> Step(f, k)]
<1>1. n \in Nat /\ DOMAIN e = 1 .. n /\ \A k \in 1 .. n : e[k].lit \in Literal
  <2>1. e \in Seq(ToSet(e)) /\ \A x \in ToSet(e) : x.lit \in Literal
    BY DEF IsWeights
  <2>2. \A k \in 1 .. Len(e) : e[k] \in ToSet(e)
    BY <2>1, ElementOfSeq
  <2> QED
    BY <2>1, <2>2
<1>2. AllOnes \in V /\ \A m \in Literal : AllOnes[LitIndex(m)] = 1
  <2>1. \A m \in Literal : LitIndex(m) \in 0 .. 2 * nbVar - 1
    BY IndexFacts
  <2> QED
    BY <2>1 DEF AllOnes
<1>3. \A k \in 1 .. n : \A w \in V : Turn(w, k) \in V
  OBVIOUS
<1>4. turn \in Turns(n, V)
  <2> HIDE DEF Turn, V
  <2> QED
    BY <1>3 DEF Turns
<1>5. \A k \in 1 .. n : \A w \in V : turn[k][w] = Turn(w, k)
  OBVIOUS
<1> HIDE DEF turn
<1>6. PICK f : f \in Loop(n, V, AllOnes, turn)
  <2> HIDE DEF V, n
  <2> QED
    BY <1>1, <1>2, <1>4, LoopExists
<1>7. f \in [0 .. n -> V] /\ f[0] = AllOnes /\ \A k \in 1 .. n : f[k] = turn[k][f[k - 1]]
  BY <1>6 DEF Loop
<1>8. \A k \in 0 .. n : f[k] = Step(f, k)
  <2> SUFFICES ASSUME NEW k \in 0 .. n
               PROVE  f[k] = Step(f, k)
    OBVIOUS
  <2>1. CASE k = 0
    BY <1>7, <2>1
  <2>2. CASE k # 0
    <3> HIDE DEF V, Turn, n
    <3>1. k \in 1 .. n /\ k - 1 \in 0 .. n
      BY <1>1, <2>2
    <3>2. f[k - 1] \in V
      BY <1>7, <3>1
    <3>3. f[k] = Turn(f[k - 1], k)
      BY <1>5, <1>7, <3>1, <3>2
    <3> QED
      BY <2>2, <3>3
  <2> QED
    BY <2>1, <2>2
<1>9. f = [k \in 0 .. n |-> Step(f, k)]
  <2> HIDE DEF Step, n, V
  <2> QED
    BY <1>7, <1>8
<1>10. g = [k \in 0 .. n |-> Step(g, k)]
  BY <1>9
<1>11. WeightsOf(e) = g[n]
  BY DEF WeightsOf
<1> HIDE DEF g
<1>12. g[0] = AllOnes /\ \A k \in 1 .. n : g[k] = Turn(g[k - 1], k)
  <2> HIDE DEF Turn, n
  <2> QED
    BY <1>1, <1>10
<1> DEFINE Exact(k) == g[k] \in V /\ \A m \in Literal : WeightLeft(e, k, m, g[k][LitIndex(m)])
           Good == {k \in 0 .. n : Exact(k)}
<1>13. 0 \in Good
  <2>1. \A m : GivenAmong(e, 0, m) = {}
    BY DEF GivenAmong
  <2>2. Exact(0)
    <3> HIDE DEF V
    <3> QED
      BY <1>2, <1>12, <2>1 DEF WeightLeft
  <2> HIDE DEF Exact
  <2> QED
    BY <1>1, <2>2
<1>14. ASSUME NEW k \in 1 .. n, k - 1 \in Good
       PROVE  k \in Good
  <2>1. g[k - 1] \in V /\ \A m \in Literal : WeightLeft(e, k - 1, m, g[k - 1][LitIndex(m)])
    BY <1>14
  <2>2. k \in Nat \ {0} /\ e[k].lit \in Literal /\ e[k].weight \in W
    BY <1>1
  <2>3. g[k] = Turn(g[k - 1], k)
    BY <1>12
  <2>4. Exact(k)
    <3> DEFINE h == g[k - 1]
    <3>1. h \in V /\ \A m \in Literal : WeightLeft(e, k - 1, m, h[LitIndex(m)])
      BY <2>1
    <3> HIDE DEF h, W
    <3>2. /\ Turn(h, k) \in V
          /\ \A m \in Literal : WeightLeft(e, k, m, Turn(h, k)[LitIndex(m)])
      BY <2>2, <3>1, WeightNext
    <3>3. g[k] = Turn(h, k)
      BY <2>3 DEF h
    <3> HIDE DEF Turn, V
    <3> QED
      BY <3>2, <3>3
  <2> HIDE DEF Exact
  <2> QED
    BY <1>1, <2>4
<1>15. Good \in SUBSET (0 .. n)
  OBVIOUS
<1>16. n \in Good
  <2> HIDE DEF Good, n
  <2>1. Good = 0 .. n
    BY <1>1, <1>13, <1>14, <1>15, Climb
  <2> QED
    BY <1>1, <2>1
<1> QED
  BY <1>11, <1>16

\* The names of the files of weights and of projected variables come from the arguments.
LEMMA NameGiven ==
  ASSUME ReadTyped, ArgumentsRead, args = <<>>, NEW o \in {"wFile", "fpv"},
         values[o] # "/dev/null"
  PROVE  values[o] \in GivenFor(invocation, o)
<1>1. PICK d \in 0 .. Len(invocation.args) :
        args = Behind(invocation.args, d) /\ OptionsTaken(invocation.args, d, values)
  BY DEF ArgumentsRead
<1>2. invocation.args \in Seq(ToSet(invocation.args))
  BY ArgumentsAssumption DEF ReadTyped
<1>3. d = Len(invocation.args)
  BY <1>1, <1>2, BehindFacts
<1>4. /\ o \in DOMAIN OptionList
      /\ OptionList[o].type = "string" /\ OptionList[o].value = "/dev/null"
  <2>1. o \in DOMAIN MainOptions /\ MainOptions[o] = StringOption("/dev/null")
    <3>1. CASE o = "wFile"
      BY <3>1 DEF MainOptions
    <3>2. CASE o = "fpv"
      BY <3>2 DEF MainOptions
    <3> QED
      BY <3>1, <3>2
  <2>2. OptionList[o] = MainOptions[o] /\ o \in DOMAIN OptionList
    BY <2>1 DEF OptionList
  <2> QED
    BY <2>1, <2>2 DEF StringOption
<1>5. Asked(invocation.args, d, o, values[o])
  BY <1>1, <1>4 DEF OptionsTaken
<1>6. PICK n \in For(invocation.args, d, o) : Equals(o, invocation.args[n], values[o])
  BY <1>4, <1>5 DEF Asked
<1>7. invocation.args[n] \in ToSet(invocation.args) /\ Parses(o, invocation.args[n])
  BY <1>2, <1>3, ElementOfSeq DEF For
<1>8. values[o] = invocation.args[n].value.text
  BY <1>4, <1>6 DEF Equals
<1> QED
  BY <1>7, <1>8 DEF GivenFor

\* A file of weights that was found is one, and a file of projected variables.
LEMMA FilesGiven ==
  ASSUME ReadTyped, ArgumentsRead, args = <<>>, FileOpened
  PROVE  /\ file.weights # None => IsWeights(file.weights)
         /\ file.projected # None => IsProjected(file.projected)
<1>1. invocation \in Invocations
  BY DEF ReadTyped
<1>2. ASSUME file.weights # None
      PROVE  IsWeights(file.weights)
  <2>1. values["wFile"] \in DOMAIN invocation.disk /\ file.weights = invocation.disk[values["wFile"]]
    BY <1>2 DEF FileOpened, Contents, OnDisk
  <2>2. values["wFile"] \in GivenFor(invocation, "wFile")
    BY <1>1, <2>1, FilesAssumption, NameGiven
  <2> QED
    BY <1>1, <2>1, <2>2, FilesAssumption
<1>3. ASSUME file.projected # None
      PROVE  IsProjected(file.projected)
  <2>1. values["fpv"] # "/dev/null" /\ file.projected = Contents(values["fpv"], <<>>)
    BY <1>3 DEF FileOpened
  <2>2. CASE values["fpv"] \notin DOMAIN invocation.disk
    BY <2>1, <2>2 DEF Contents, OnDisk, IsProjected
  <2>3. CASE values["fpv"] \in DOMAIN invocation.disk
    <3>1. file.projected = invocation.disk[values["fpv"]]
      BY <2>1, <2>3 DEF Contents, OnDisk
    <3>2. values["fpv"] \in GivenFor(invocation, "fpv")
      BY <2>1, NameGiven
    <3> QED
      BY <1>1, <2>3, <3>1, <3>2, FilesAssumption
  <2> QED
    BY <2>2, <2>3
<1> QED
  BY <1>2, <1>3

\* The whole formula is read.
LEMMA FormulaRead ==
  ASSUME ReadTyped, TokensRead, rest = <<>>
  PROVE  Announced(nbVar) /\ SetsOf(input) = ClauseSets(file)
<1>1. PICK p \in 0 .. Len(file.cnf) :
        /\ rest = Behind(file.cnf, p)
        /\ SetsOf(input) = ClausesIn(file.cnf, p)
        /\ \/ Announced(nbVar)
           \/ \E k \in p + 1 .. Len(file.cnf) : file.cnf[k].kind = "problem"
  BY DEF TokensRead
<1> PICK t : t = file.cnf
  OBVIOUS
<1>2. t \in Seq(ToSet(t)) /\ Len(t) \in Nat /\ DOMAIN t = 1 .. Len(t)
  BY LenProperties DEF ReadTyped, OverLiterals
<1>3. p = Len(t)
  BY <1>1, <1>2, BehindFacts
<1>4. Announced(nbVar)
  BY <1>1, <1>2, <1>3
<1>5. {x \in Zeros(t) : x <= Len(t)} = Zeros(t)
  BY <1>2 DEF Zeros
<1>6. ClausesIn(t, p) = ClauseSets(file)
  BY <1>3, <1>5 DEF ClausesIn, ClauseSets
<1> QED
  BY <1>1, <1>4, <1>6

LEMMA WeightsStep ==
  ASSUME ReadTyped, ArgumentsRead, args = <<>>, FileOpened, Announced(nbVar), ParseWeight
  PROVE  WeightsRead'
<1>1. file' = file /\ weightLit' = IF file.weights = None THEN AllOnes ELSE WeightsOf(file.weights)
  BY DEF ParseWeight
<1>2. SUFFICES ASSUME NEW l \in Literal
               PROVE  weightLit'[LitIndex(l)] = LastWeight(file, l)
  BY <1>1 DEF WeightsRead
<1>3. CASE file.weights = None
  <2>1. AllOnes[LitIndex(l)] = 1
    BY IndexFacts DEF AllOnes
  <2> QED
    BY <1>1, <1>3, <2>1 DEF LastWeight
<1>4. CASE file.weights # None
  <2> PICK e : e = file.weights
    OBVIOUS
  <2>1. IsWeights(e)
    BY <1>4, FilesGiven
  <2>2. WeightLeft(e, Len(e), l, WeightsOf(e)[LitIndex(l)])
    BY <2>1, WeightsFacts
  <2>3. e \in Seq(ToSet(e)) /\ DOMAIN e = 1 .. Len(e) /\ Len(e) \in Nat
    BY <2>1, LenProperties DEF IsWeights
  <2> PICK given : given = GivenAmong(e, Len(e), l)
    OBVIOUS
  <2>4. given = {n \in DOMAIN e : e[n].lit = l}
    BY <2>3 DEF GivenAmong
  <2>5. LastWeight(file, l) =
          IF given = {} THEN 1 ELSE e[CHOOSE n \in given : \A m \in given : m <= n].weight
    BY <1>4, <2>4 DEF LastWeight
  <2>6. CASE given = {}
    BY <1>1, <1>4, <2>2, <2>5, <2>6 DEF WeightLeft
  <2>7. CASE given # {}
    <3>1. PICK n \in given : (\A m \in given : m <= n) /\ WeightsOf(e)[LitIndex(l)] = e[n].weight
      BY <2>2, <2>7 DEF WeightLeft
    <3> PICK k : k = CHOOSE x \in given : \A m \in given : m <= x
      OBVIOUS
    <3>2. k \in given /\ \A m \in given : m <= k
      BY <3>1
    <3>3. given \subseteq Nat
      BY <2>3, <2>4
    <3>4. k = n
      BY <3>1, <3>2, <3>3
    <3> QED
      BY <1>1, <1>4, <2>5, <2>7, <3>1, <3>4
  <2> QED
    BY <2>6, <2>7
<1> QED
  BY <1>3, <1>4

LEMMA ProjectedStep ==
  ASSUME ReadTyped, ArgumentsRead, args = <<>>, FileOpened, Announced(nbVar),
         ParseProjectedVariable
  PROVE  ProjectedRead'
<1>1. /\ file' = file /\ nbVar' = nbVar
      /\ varProjected' = [v \in 0 .. nbVar - 1 |->
                            IF file.projected = None THEN TRUE
                            ELSE \E n \in DOMAIN file.projected : file.projected[n] - 1 = v]
  BY DEF ParseProjectedVariable
<1>2. SUFFICES ASSUME NEW v \in Var
               PROVE  varProjected'[v - 1] <=> v \in ProjectedVariables(file)
  BY <1>1 DEF ProjectedRead, ProjectedVariables
<1>3. v \in 1 .. nbVar /\ v - 1 \in 0 .. nbVar - 1
  BY DEF Announced
<1>4. CASE file.projected = None
  BY <1>1, <1>3, <1>4 DEF ProjectedVariables
<1>5. CASE file.projected # None
  <2>1. file.projected \in Seq(Int)
    BY <1>5, FilesGiven DEF IsProjected
  <2>2. \A n \in DOMAIN file.projected : file.projected[n] - 1 = v - 1 <=> file.projected[n] = v
    BY <1>3, <2>1
  <2> QED
    BY <1>1, <1>3, <1>5, <2>2 DEF ProjectedVariables
<1> QED
  BY <1>4, <1>5

-----------------------------------------------------------------------------
(* The steps of reading.                                                   *)

\* What the options, and what the file, are right about stays right while they stay.
LEMMA ArgumentsStay ==
  ASSUME UNCHANGED optionVars
  PROVE  /\ ArgumentsRead => ArgumentsRead'
         /\ file' = file /\ FileOpened => FileOpened'
         /\ KnownNames => KnownNames'
<1> USE DEF optionVars
<1>1. ArgumentsRead => ArgumentsRead'
  BY DEF ArgumentsRead
<1>2. file' = file /\ FileOpened => FileOpened'
  BY DEF FileOpened, FormulaThere, OnDisk, Contents
<1>3. KnownNames => KnownNames'
  BY DEF KnownNames, KnownVariableHeuristic, KnownPhaseHeuristic, KnownPartitioner, OptList
<1> QED
  BY <1>1, <1>2, <1>3

LEMMA ContentsStay ==
  ASSUME file' = file, nbVar' = nbVar
  PROVE  /\ rest' = rest /\ input' = input /\ TokensRead => TokensRead'
         /\ weightLit' = weightLit /\ WeightsRead => WeightsRead'
         /\ varProjected' = varProjected /\ ProjectedRead => ProjectedRead'
<1>1. rest' = rest /\ input' = input /\ TokensRead => TokensRead'
  BY DEF TokensRead
<1>2. weightLit' = weightLit /\ WeightsRead => WeightsRead'
  BY DEF WeightsRead
<1>3. varProjected' = varProjected /\ ProjectedRead => ProjectedRead'
  BY DEF ProjectedRead, ProjectedVariables
<1> QED
  BY <1>1, <1>2, <1>3

LEMMA InitReadInv ==
  ASSUME Init
  PROVE  ReadInv
<1> USE DEF Init, ParserInit, OptionsInit
<1>1. invocation.args \in Seq(ToSet(invocation.args))
  BY ArgumentsAssumption
<1> PICK s : s = invocation.args
  OBVIOUS
<1>2. s \in Seq(ToSet(s)) /\ Len(s) \in Nat
  BY <1>1, LenProperties
<1>3. args = Behind(s, 0)
  <2>1. /\ Behind(s, 0) \in Seq(ToSet(s)) /\ Len(Behind(s, 0)) = Len(s) - 0
        /\ \A k \in 1 .. Len(s) - 0 : Behind(s, 0)[k] = s[0 + k]
    BY <1>2, BehindFacts
  <2>2. Len(s) - 0 = Len(s) /\ \A k \in 1 .. Len(s) : 0 + k = k
    BY <1>2
  <2>3. Behind(s, 0) = s
    BY <1>2, <2>1, <2>2, SameSequences
  <2> QED
    BY <2>3
<1>4. OptionsTaken(s, 0, values)
  <2>1. \A o \in DOMAIN OptionList : InRange(o, OptionList[o].value)
    BY OptionsBegin
  <2>2. \A o : For(s, 0, o) = {}
    BY DEF For
  <2> QED
    BY <2>1, <2>2 DEF OptionsTaken, Asked
<1>5. PlainKept(s, 0, kept)
  BY DEF PlainKept, Plain
<1>6. ArgumentsRead
  BY <1>2, <1>3, <1>4, <1>5 DEF ArgumentsRead
<1> QED
  BY <1>6 DEF ReadInv, Reading, Adding

LEMMA OpenStep ==
  ASSUME ReadTyped, ReadInv, OpenFormula
  PROVE  ReadInv'
<1>1. pc = "open" /\ pc' = "cnf" /\ UNCHANGED <<optionVars, nbVar, input>>
  BY DEF OpenFormula
<1>2. ArgumentsRead' /\ args' = <<>>
  BY <1>1, ArgumentsStay DEF ReadInv, optionVars
<1>3. FileOpened'
  BY DEF OpenFormula, FileOpened, FormulaThere, OnDisk, Contents, optionVars
<1> PICK t : t = file'.cnf
  OBVIOUS
<1>4. t = invocation.disk[kept[1]] /\ rest' = t
  BY DEF OpenFormula
<1>5. IsFormula(t)
  <2>1. kept # <<>> /\ kept[1] \in DOMAIN invocation.disk
    BY DEF OpenFormula, FormulaThere, OnDisk
  <2>2. kept[1] \in PlainNames(invocation)
    BY <2>1, ElementOfSeq, EmptySeq DEF ReadTyped
  <2> QED
    BY <1>4, <2>1, <2>2, FilesAssumption DEF ReadTyped
<1>6. t \in Seq(ToSet(t)) /\ Len(t) \in Nat /\ DOMAIN t = 1 .. Len(t)
  BY <1>5, LenProperties DEF IsFormula
<1>7. rest' = Behind(t, 0)
  <2>1. /\ Behind(t, 0) \in Seq(ToSet(t)) /\ Len(Behind(t, 0)) = Len(t) - 0
        /\ \A k \in 1 .. Len(t) - 0 : Behind(t, 0)[k] = t[0 + k]
    BY <1>6, BehindFacts
  <2>2. Len(t) - 0 = Len(t) /\ \A k \in 1 .. Len(t) : 0 + k = k
    BY <1>6
  <2>3. Behind(t, 0) = t
    BY <1>6, <2>1, <2>2, SameSequences
  <2> QED
    BY <1>4, <2>3
<1>8. Closed(t, 0)
  BY DEF Closed
<1>9. SetsOf(input') = ClausesIn(t, 0)
  <2>1. input' = <<>>
    BY <1>1 DEF ReadInv
  <2>2. {x \in Zeros(t) : x <= 0} = {}
    BY <1>6 DEF Zeros
  <2>3. SetsOf(<<>>) = {} /\ ClausesIn(t, 0) = {}
    BY <2>2 DEF SetsOf, ClausesIn
  <2> QED
    BY <2>1, <2>3
<1>10. \E k \in 0 + 1 .. Len(t) : t[k].kind = "problem"
  <2>1. PICK token \in ToSet(t) : token.kind = "problem"
    BY <1>5 DEF IsFormula
  <2>2. PICK k \in DOMAIN t : t[k] = token
    BY DEF ToSet
  <2>3. k \in 0 + 1 .. Len(t)
    BY <1>6
  <2> QED
    BY <2>1, <2>2, <2>3
<1>11. TokensRead'
  BY <1>6, <1>7, <1>8, <1>9, <1>10 DEF TokensRead
<1> QED
  BY <1>1, <1>2, <1>3, <1>11 DEF ReadInv, Reading, Adding

\* A step behind the opening of the files that reads tokens.
LEMMA ReadingOn ==
  ASSUME ReadInv, pc = "cnf", UNCHANGED <<optionVars, file>>, TokensRead',
         pc' \in {"cnf", "error"}
  PROVE  ReadInv'
<1>1. ArgumentsRead' /\ FileOpened' /\ args' = <<>>
  BY ArgumentsStay DEF ReadInv, optionVars
<1> QED
  BY <1>1 DEF ReadInv, Reading, Adding

LEMMA TokensStep ==
  ASSUME ReadTyped, ReadInv, SkipLine \/ ReadProblemLine \/ ReadClause
  PROVE  ReadInv'
<1>1. pc = "cnf" /\ UNCHANGED <<optionVars, file>> /\ pc' \in {"cnf", "error"} /\ rest # <<>>
  BY DEF SkipLine, ReadProblemLine, ReadClause, NextIs
<1>2. PICK p \in 0 .. Len(file.cnf) :
        /\ rest = Behind(file.cnf, p)
        /\ Closed(file.cnf, p)
        /\ SetsOf(input) = ClausesIn(file.cnf, p)
        /\ \/ Announced(nbVar)
           \/ \E k \in p + 1 .. Len(file.cnf) : file.cnf[k].kind = "problem"
  BY <1>1 DEF ReadInv, TokensRead
<1> PICK t : t = file.cnf
  OBVIOUS
<1>3. t \in Seq(ToSet(t)) /\ Len(t) \in Nat /\ p \in 0 .. Len(t) /\ p \in Nat
  BY <1>2, LenProperties DEF ReadTyped, OverLiterals
<1>4. rest = Behind(t, p) /\ Closed(t, p) /\ SetsOf(input) = ClausesIn(t, p)
  BY <1>2
<1>5. /\ p + 1 \in 1 .. Len(t) /\ Head(rest) = t[p + 1] /\ Tail(rest) = Behind(t, p + 1)
      /\ t[p + 1] \in ToSet(t)
  <2>1. p + 1 \in 1 .. Len(t) /\ Head(rest) = t[p + 1] /\ Tail(rest) = Behind(t, p + 1)
    BY <1>1, <1>3, <1>4, BehindNext
  <2> QED
    BY <1>3, <2>1, ElementOfSeq
<1>6. CASE SkipLine
  <2>1. rest' = Behind(t, p + 1) /\ t[p + 1].kind = "skipped" /\ input' = input /\ nbVar' = nbVar
    BY <1>5, <1>6 DEF SkipLine, NextIs
  <2>2. Closed(t, p + 1) /\ ClausesIn(t, p + 1) = ClausesIn(t, p)
    BY <1>3, <1>4, <2>1, ClosedNext
  <2>3. \/ Announced(nbVar')
        \/ \E k \in p + 1 + 1 .. Len(t) : t[k].kind = "problem"
    <3>1. \/ Announced(nbVar)
          \/ \E k \in p + 1 .. Len(t) : t[k].kind = "problem"
      BY <1>2
    <3>2. \A k \in p + 1 .. Len(t) : k = p + 1 \/ k \in p + 1 + 1 .. Len(t)
      BY <1>3
    <3> QED
      BY <2>1, <3>1, <3>2
  <2>4. p + 1 \in 0 .. Len(t) /\ file' = file
    BY <1>1, <1>5
  <2>5. TokensRead'
    BY <1>4, <2>1, <2>2, <2>3, <2>4 DEF TokensRead
  <2> QED
    BY <1>1, <2>5, ReadingOn
<1>7. CASE ReadProblemLine
  <2>1. /\ rest' = Behind(t, p + 1) /\ t[p + 1].kind = "problem" /\ input' = input
        /\ nbVar' = t[p + 1].vars
    BY <1>5, <1>7 DEF ReadProblemLine, NextIs
  <2>2. Closed(t, p + 1) /\ ClausesIn(t, p + 1) = ClausesIn(t, p)
    BY <1>3, <1>4, <2>1, ClosedNext
  <2>3. Announced(nbVar')
    <3>1. IsFormula(t)
      <4>1. FormulaThere /\ t = invocation.disk[kept[1]]
        BY <1>1 DEF ReadInv, FileOpened
      <4>2. kept # <<>> /\ kept[1] \in DOMAIN invocation.disk
        BY <4>1 DEF FormulaThere, OnDisk
      <4>3. kept[1] \in PlainNames(invocation)
        BY <4>2, ElementOfSeq, EmptySeq DEF ReadTyped
      <4> QED
        BY <4>1, <4>2, <4>3, FilesAssumption DEF ReadTyped
    <3> QED
      BY <1>5, <2>1, <3>1 DEF IsFormula, Announced
  <2>4. p + 1 \in 0 .. Len(t) /\ file' = file
    BY <1>1, <1>5
  <2>5. TokensRead'
    BY <1>4, <2>1, <2>2, <2>3, <2>4 DEF TokensRead
  <2> QED
    BY <1>1, <2>5, ReadingOn
<1>8. CASE ReadClause
  <2> DEFINE n == EndOfClause(rest)
             c == [k \in 1 .. n - 1 |-> rest[k].value]
  <2>1. n \in Ends(rest)
    BY <1>8 DEF ReadClause, EndOfClause
  <2>2. input' = Append(input, c) /\ rest' = Behind(rest, n) /\ nbVar' = nbVar
    BY <1>8 DEF ReadClause, Behind
  <2>3. c \in Seq(Literal)
    <3> HIDE DEF n
    <3> QED
      BY <2>1, ClauseRead DEF ReadTyped
  <2>4. /\ p + n \in 0 .. Len(t) /\ Behind(Behind(t, p), n) = Behind(t, p + n)
        /\ Closed(t, p + n)
        /\ ClausesIn(t, p + n) = ClausesIn(t, p) \cup {ToSet(c)}
    <3>1. n \in Ends(Behind(t, p))
      BY <1>4, <2>1
    <3> HIDE DEF n
    <3>2. /\ p + n \in 0 .. Len(t) /\ Behind(Behind(t, p), n) = Behind(t, p + n)
          /\ Closed(t, p + n)
          /\ ClausesIn(t, p + n) =
               ClausesIn(t, p) \cup {ToSet([k \in 1 .. n - 1 |-> Behind(t, p)[k].value])}
      <4>1. t \in Seq(ToSet(t)) /\ p \in 0 .. Len(t) /\ Closed(t, p) /\ n \in Ends(Behind(t, p))
        BY <1>3, <1>4, <3>1
      <4> QED
        BY <4>1, ClauseNext
    <3> QED
      BY <1>4, <3>2
  <2> HIDE DEF c
  <2>5. SetsOf(input') = SetsOf(input) \cup {ToSet(c)}
    BY <2>2, <2>3, SetsNext DEF ReadTyped
  <2>6. \/ Announced(nbVar')
        \/ \E k \in p + n + 1 .. Len(t) : t[k].kind = "problem"
    <3>1. \/ Announced(nbVar)
          \/ \E k \in p + 1 .. Len(t) : t[k].kind = "problem"
      BY <1>2
    <3>2. \A k \in p + 1 .. Len(t) : t[k].kind = "problem" => k \in p + n + 1 .. Len(t)
      <4> SUFFICES ASSUME NEW k \in p + 1 .. Len(t), t[k].kind = "problem", k <= p + n
                   PROVE  FALSE
        BY <1>3, <2>4
      <4>1. n \in Nat /\ \A m \in 1 .. n : rest[m].kind = "int"
        <5>1. rest[n].kind = "int" /\ \A m \in 1 .. n - 1 : rest[m].kind = "int"
          BY <2>1 DEF Ends, IsZero
        <5>2. n \in DOMAIN rest /\ n \in Nat
          BY <2>1 DEF Ends, ReadTyped
        <5> HIDE DEF n
        <5>3. \A m \in 1 .. n : m = n \/ m \in 1 .. n - 1
          BY <5>2
        <5> QED
          BY <5>1, <5>2, <5>3
      <4>2. \A m \in 1 .. Len(t) - p : rest[m] = t[p + m]
        BY <1>3, <1>4, BehindFacts
      <4> HIDE DEF n
      <4>3. k - p \in 1 .. n /\ k - p \in 1 .. Len(t) - p /\ p + (k - p) = k
        BY <1>3, <2>4, <4>1
      <4> QED
        BY <4>1, <4>2, <4>3
    <3> QED
      BY <2>2, <3>1, <3>2
  <2>7. file' = file
    BY <1>1
  <2> HIDE DEF n
  <2>8. rest' = Behind(t, p + n)
    BY <1>4, <2>2, <2>4
  <2>9. TokensRead'
    BY <1>4, <2>4, <2>5, <2>6, <2>7, <2>8 DEF TokensRead
  <2> QED
    BY <1>1, <2>9, ReadingOn
<1> QED
  BY <1>6, <1>7, <1>8

\* The options, the end of the formula, the weights and the projected variables.
LEMMA ReadInvStep ==
  ASSUME ReadTyped, ReadInv, ParserNext
  PROVE  ReadInv'
<1> USE DEF Reading, Adding
<1>1. CASE OptionsNext /\ UNCHANGED readVars
  <2>1. ArgumentsRead
    BY DEF ReadInv
  <2>2. /\ ArgumentsRead' /\ pc = "options" /\ pc' \in {"options", "usage", "rejected", "open"}
        /\ pc' = "open" => args' = <<>>
    BY <1>1, <2>1, ArgumentsStep
  <2>3. input' = input
    BY <1>1 DEF readVars
  <2> QED
    BY <2>2, <2>3 DEF ReadInv
<1>2. CASE OpenFormula
  BY <1>2, OpenStep
<1>3. CASE SkipLine \/ ReadProblemLine \/ ReadClause
  BY <1>3, TokensStep
<1>4. CASE CannotOpen \/ WeightsMissing
  <2>1. UNCHANGED optionVars /\ pc' = "error"
    BY <1>4 DEF CannotOpen, WeightsMissing
  <2>2. ArgumentsRead'
    BY <2>1, ArgumentsStay DEF ReadInv
  <2> QED
    BY <2>1, <2>2 DEF ReadInv
<1>5. CASE ParseError
  <2>1. UNCHANGED optionVars /\ pc' = "error"
    BY <1>5 DEF ParseError
  <2>2. ArgumentsRead'
    BY <2>1, ArgumentsStay DEF ReadInv
  <2> QED
    BY <2>1, <2>2 DEF ReadInv
<1>6. CASE EndOfFile
  <2>1. /\ pc = "cnf" /\ pc' = "weights" /\ rest = <<>>
        /\ UNCHANGED <<optionVars, file, rest, nbVar, input>>
    BY <1>6 DEF EndOfFile
  <2>2. ArgumentsRead' /\ FileOpened' /\ TokensRead' /\ args' = <<>>
    BY <2>1, ArgumentsStay, ContentsStay DEF ReadInv, optionVars
  <2> QED
    BY <2>1, <2>2 DEF ReadInv
<1>7. CASE ParseWeight
  <2>1. /\ pc = "weights" /\ pc' = "projected"
        /\ UNCHANGED <<optionVars, file, rest, nbVar, input>>
    BY <1>7 DEF ParseWeight
  <2>2. ArgumentsRead /\ args = <<>> /\ FileOpened /\ TokensRead /\ rest = <<>>
    BY <2>1 DEF ReadInv
  <2>3. Announced(nbVar)
    BY <2>2, FormulaRead
  <2>4. WeightsRead'
    BY <1>7, <2>2, <2>3, WeightsStep
  <2>5. ArgumentsRead' /\ FileOpened' /\ TokensRead' /\ args' = <<>>
    BY <2>1, <2>2, ArgumentsStay, ContentsStay DEF optionVars
  <2> QED
    BY <2>1, <2>2, <2>4, <2>5 DEF ReadInv
<1>8. CASE ParseProjectedVariable
  <2>1. /\ pc = "projected" /\ pc' = "parsed"
        /\ UNCHANGED <<optionVars, file, rest, nbVar, input, weightLit>>
    BY <1>8 DEF ParseProjectedVariable
  <2>2. ArgumentsRead /\ args = <<>> /\ FileOpened /\ TokensRead /\ rest = <<>> /\ WeightsRead
    BY <2>1 DEF ReadInv
  <2>3. Announced(nbVar)
    BY <2>2, FormulaRead
  <2>4. ProjectedRead'
    BY <1>8, <2>2, <2>3, ProjectedStep
  <2>5. ArgumentsRead' /\ FileOpened' /\ TokensRead' /\ args' = <<>> /\ WeightsRead'
    BY <2>1, <2>2, ArgumentsStay, ContentsStay DEF optionVars
  <2> QED
    BY <2>1, <2>2, <2>4, <2>5 DEF ReadInv
<1> QED
  BY <1>1, <1>2, <1>3, <1>4, <1>5, <1>6, <1>7, <1>8 DEF ParserNext

\* Behind the parser the problem stays as it is, and the names are known where clauses are copied.
LEMMA ProblemKeeps ==
  ASSUME ReadInv, UNCHANGED problem,
         \/ pc' = pc
         \/ pc \in Adding /\ pc' \in {"add", "unsat", "rejected", "done"}
         \/ pc \in Adding /\ pc' \in {"copy", "ready"} /\ KnownNames
  PROVE  ReadInv'
<1>1. UNCHANGED <<optionVars, file, rest, nbVar, input, weightLit, varProjected, args>>
  BY DEF problem, readVars, optionVars
<1>2. /\ ArgumentsRead => ArgumentsRead'
      /\ FileOpened => FileOpened'
      /\ KnownNames => KnownNames'
      /\ TokensRead => TokensRead'
      /\ WeightsRead => WeightsRead'
      /\ ProjectedRead => ProjectedRead'
  BY <1>1, ArgumentsStay, ContentsStay
<1> USE DEF Reading, Adding
<1>3. ArgumentsRead'
  BY <1>2 DEF ReadInv
<1>4. CASE pc' = pc
  BY <1>1, <1>2, <1>3, <1>4 DEF ReadInv
<1>5. ASSUME pc \in Adding
      PROVE  /\ args' = <<>> /\ rest' = <<>>
             /\ FileOpened' /\ TokensRead' /\ WeightsRead' /\ ProjectedRead'
  <2>1. /\ args = <<>> /\ rest = <<>>
        /\ FileOpened /\ TokensRead /\ WeightsRead /\ ProjectedRead
    BY <1>5 DEF ReadInv
  <2> QED
    BY <1>1, <1>2, <2>1
<1>6. CASE pc \in Adding /\ pc' \in {"add", "unsat", "rejected", "done"}
  BY <1>3, <1>5, <1>6 DEF ReadInv
<1>7. CASE pc \in Adding /\ pc' \in {"copy", "ready"} /\ KnownNames
  BY <1>2, <1>3, <1>5, <1>7 DEF ReadInv
<1> QED
  BY <1>4, <1>6, <1>7

\* The options, the formula, its weights and its projected variables are those asked for at
\* every stage: see the parts of ReadInv.
THEOREM ReadCorrect == Spec => [](IInv /\ ReadInv)
<1>1. Init => IInv /\ ReadInv
  BY InitIInv, InitReadInv
<1>2. IInv /\ ReadInv /\ IInv' /\ [Next]_vars => ReadInv'
  <2> SUFFICES ASSUME IInv, ReadInv, [Next]_vars
               PROVE  ReadInv'
    OBVIOUS
  <2>1. CASE ParserNext
    BY <2>1, ReadInvStep DEF IInv
  <2>2. CASE Load
    BY <2>2, ProblemKeeps DEF Load, Adding
  <2>3. CASE AddTautologie
    BY <2>3, ProblemKeeps DEF AddTautologie
  <2>4. CASE AddUnit
    BY <2>4, ProblemKeeps DEF AddUnit, Adding
  <2>5. CASE Attach
    BY <2>5, ProblemKeeps DEF Attach
  <2>6. CASE SolveUnsat
    BY <2>6, ProblemKeeps DEF SolveUnsat, Adding
  <2>7. CASE SolveSat
    BY <2>7, ProblemKeeps DEF SolveSat, Adding
  <2>8. CASE LeaveOut
    BY <2>8, ProblemKeeps DEF LeaveOut
  <2>9. CASE Copy
    BY <2>9, ProblemKeeps DEF Copy
  <2>10. CASE InitFormula
    BY <2>10, ProblemKeeps DEF InitFormula, Adding, ReadInv
  <2>11. CASE UNCHANGED vars
    <3>1. UNCHANGED problem /\ pc' = pc
      BY <2>11 DEF vars, parserVars, problem
    <3> QED
      BY <3>1, ProblemKeeps
  <2> QED
    BY <2>1, <2>2, <2>3, <2>4, <2>5, <2>6, <2>7, <2>8, <2>9, <2>10, <2>11 DEF Next
<1> QED
  BY <1>1, <1>2, IntakeCorrect, PTL DEF Spec

\* The clauses that were read have the models of the file.
LEMMA SameFormula ==
  ASSUME SetsOf(input) = ClauseSets(file)
  PROVE  ModelsOf({}, input) = ModelsOfFile
<1>1. \A A : Satisfies(A, input) <=> \A c \in SetsOf(input) : c \cap A # {}
  BY DEF Satisfies, SetsOf
<1>2. ModelsOf({}, input) = {A \in Total : Satisfies(A, input)}
  BY DEF ModelsOf, Satisfies
<1> QED
  BY <1>1, <1>2 DEF ModelsOfFile

\* All arguments are looked at: the values and the file are those asked for.
LEMMA AskedFor ==
  ASSUME ReadTyped, ArgumentsRead, args = <<>>, kept # <<>>
  PROVE  ValuesAsked /\ FileAsked = invocation.disk[kept[1]]
<1>1. PICK d \in 0 .. Len(invocation.args) :
        /\ args = Behind(invocation.args, d)
        /\ OptionsTaken(invocation.args, d, values)
        /\ PlainKept(invocation.args, d, kept)
  BY DEF ArgumentsRead
<1> PICK s : s = invocation.args
  OBVIOUS
<1>2. s \in Seq(ToSet(s)) /\ Len(s) \in Nat /\ DOMAIN s = 1 .. Len(s)
  BY ArgumentsAssumption, LenProperties DEF ReadTyped
<1>3. d = Len(s)
  BY <1>1, <1>2, BehindFacts
<1>4. /\ \A o : ArgumentsFor(o) = For(s, d, o)
      /\ \A o : ArgumentsFor(o) \subseteq Nat
  BY <1>2, <1>3 DEF ArgumentsFor, For
<1>5. ASSUME NEW o \in DOMAIN OptionList
      PROVE  /\ IF ArgumentsFor(o) = {} THEN values[o] = OptionList[o].value
                ELSE Equals(o, invocation.args[LastFor(o)], values[o])
             /\ InRange(o, values[o])
  <2>1. Asked(s, d, o, values[o])
    BY <1>1 DEF OptionsTaken
  <2>2. CASE ArgumentsFor(o) = {}
    BY <1>4, <2>1, <2>2 DEF Asked
  <2>3. CASE ArgumentsFor(o) # {}
    <3>1. PICK n \in ArgumentsFor(o) : (\A m \in ArgumentsFor(o) : m <= n) /\ Equals(o, s[n], values[o])
      BY <1>4, <2>1, <2>3 DEF Asked
    <3>2. LastFor(o) \in ArgumentsFor(o) /\ \A m \in ArgumentsFor(o) : m <= LastFor(o)
      BY <3>1 DEF LastFor
    <3>3. LastFor(o) = n
      BY <1>4, <3>1, <3>2
    <3> QED
      BY <2>1, <2>3, <3>1, <3>3 DEF Asked
  <2> QED
    BY <2>2, <2>3
<1>6. ValuesAsked
  <2>1. \A n \in DOMAIN s : s[n].kind = "flag" => \E o \in DOMAIN OptionList : n \in ArgumentsFor(o)
    BY <1>1, <1>2, <1>3 DEF OptionsTaken, ArgumentsFor
  <2> QED
    BY <1>5, <2>1 DEF ValuesAsked
<1>7. PlainArguments = Plain(s, d) /\ PlainArguments \subseteq Nat
  BY <1>2, <1>3 DEF PlainArguments, Plain
<1>8. PICK n \in PlainArguments : (\A m \in PlainArguments : n <= m) /\ kept[1] = s[n].name
  BY <1>1, <1>7 DEF PlainKept
<1>9. FirstPlain \in PlainArguments /\ \A m \in PlainArguments : FirstPlain <= m
  BY <1>8 DEF FirstPlain
<1>10. FirstPlain = n
  BY <1>7, <1>8, <1>9
<1> QED
  BY <1>6, <1>8, <1>10 DEF FileAsked

\* What the search is given is the problem that the command line asks for, whatever the
\* arguments and the files: the values of the options, the models of the formula, its weights
\* and its projected variables; and 0 is answered at once only if there are no models.
THEOREM ProblemKeptCorrect == Spec => []ProblemKept
<1>1. IInv /\ ReadInv /\ ModelsOfInput => ProblemKept
  <2> SUFFICES ASSUME IInv, ReadInv, ModelsOfInput, pc \in {"ready", "unsat"}
               PROVE  ProblemKept
    BY DEF ProblemKept
  <2>1. /\ ReadTyped /\ ArgumentsRead /\ args = <<>> /\ FileOpened /\ TokensRead /\ rest = <<>>
        /\ WeightsRead /\ ProjectedRead
    BY DEF IInv, ReadInv, Reading, Adding
  <2>2. kept # <<>> /\ file.cnf = invocation.disk[kept[1]]
    BY <2>1 DEF FileOpened, FormulaThere
  <2>3. ValuesAsked /\ file.cnf = FileAsked
    BY <2>1, <2>2, AskedFor
  <2>4. ModelsOf({}, input) = ModelsOfFile
    BY <2>1, FormulaRead, SameFormula
  <2>5. pc = "ready" => KnownNames
    BY DEF ReadInv
  <2> QED
    BY <2>1, <2>3, <2>4, <2>5 DEF ProblemKept, ModelsOfInput, WeightsRead, ProjectedRead
<1> QED
  BY <1>1, ReadCorrect, ModelsOfInputCorrect, PTL
=============================================================================
