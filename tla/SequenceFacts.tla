---------------------------- MODULE SequenceFacts ----------------------------
(***************************************************************************)
(* What the operations on sequences do: pushing and popping at the end (the *)
(* trails, frame stacks and pending searches of the other modules), and    *)
(* keeping what passes a test; and what a fold over a finite set does.     *)
(* With the inductions, over the positions of a sequence and over the      *)
(* subsets of a set, that facts about a recursive function rest on.        *)
(***************************************************************************)
EXTENDS Integers, Sequences, Subsequence, SequenceTheorems, FiniteSetTheorems,
        WellFoundedInduction, TLAPS

\* A function on 1..n is a sequence of length n.
LEMMA FunctionIsSeq ==
  ASSUME NEW S, NEW n \in Nat, NEW s \in [1 .. n -> S]
  PROVE  s \in Seq(S) /\ Len(s) = n
OBVIOUS

\* Popping drops the last entry (vec::pop, std::vector::pop_back).
LEMMA PopFacts ==
  ASSUME NEW S, NEW s \in Seq(S), s # <<>>
  PROVE  /\ Len(s) \in Nat \ {0}
         /\ s[Len(s)] \in S
         /\ SubSeq(s, 1, Len(s) - 1) \in Seq(S)
         /\ Len(SubSeq(s, 1, Len(s) - 1)) = Len(s) - 1
         /\ \A k \in 1 .. Len(s) - 1 : SubSeq(s, 1, Len(s) - 1)[k] = s[k]
<1>1. Len(s) \in Nat \ {0}
  BY EmptySeq
<1>2. \A k \in 1 .. Len(s) : s[k] \in S
  BY ElementOfSeq
<1>3. \A k \in 1 .. Len(s) - 1 : s[k] \in S
  BY <1>1, <1>2
<1>4. /\ SubSeq(s, 1, Len(s) - 1) \in Seq(S)
      /\ Len(SubSeq(s, 1, Len(s) - 1)) = Len(s) - 1
      /\ \A k \in 1 .. Len(s) - 1 : SubSeq(s, 1, Len(s) - 1)[k] = s[k]
  <2>1. Len(s) - 1 \in Nat
    BY <1>1
  <2> DEFINE n == Len(s) - 1
  <2>2. n \in Nat /\ \A k \in 1 .. n : s[k] \in S
    BY <2>1, <1>3
  <2> HIDE DEF n
  <2>3. /\ SubSeq(s, 1, n) \in Seq(S)
        /\ Len(SubSeq(s, 1, n)) = IF 1 <= n THEN n - 1 + 1 ELSE 0
        /\ \A k \in 1 .. n - 1 + 1 : SubSeq(s, 1, n)[k] = s[1 + k - 1]
    BY <2>2, SubSeqProperties
  <2>4. /\ SubSeq(s, 1, n) \in Seq(S)
        /\ Len(SubSeq(s, 1, n)) = n
        /\ \A k \in 1 .. n : SubSeq(s, 1, n)[k] = s[k]
    BY <2>2, <2>3
  <2> QED
    BY <2>4 DEF n
<1> QED
  BY <1>1, <1>2, <1>4

\* Pushing appends an entry and leaves the others (vec::push, std::vector::push_back).
LEMMA PushFacts ==
  ASSUME NEW S, NEW s \in Seq(S), NEW e \in S
  PROVE  /\ Append(s, e) \in Seq(S)
         /\ Len(s) \in Nat
         /\ Len(Append(s, e)) = Len(s) + 1
         /\ Append(s, e)[Len(s) + 1] = e
         /\ \A k \in 1 .. Len(s) : Append(s, e)[k] = s[k]
         /\ DOMAIN Append(s, e) = 1 .. Len(s) + 1
BY AppendProperties, LenProperties

-----------------------------------------------------------------------------
(* Induction.                                                              *)

\* A set of numbers has a smallest one.
LEMMA LeastNumber ==
  ASSUME NEW T, T \subseteq Nat, T # {}
  PROVE  \E x \in T : \A y \in T : x <= y
<1> DEFINE R == {p \in Nat \X Nat : p[1] < p[2]}
<1>1. IsWellFoundedOn(R, Nat)
  BY NatLessThanWellFounded DEF OpToRel
<1>2. PICK x \in T : \A y \in T : ~ (<<y, x>> \in R)
  BY <1>1, WFMin
<1>3. \A y \in T : ~(y < x)
  BY <1>2
<1> QED
  BY <1>3

\* Induction over the positions of a sequence: a set of positions that holds 0,
\* and with every position the next one, holds all.
LEMMA Climb ==
  ASSUME NEW n \in Nat, NEW G \in SUBSET (0 .. n), 0 \in G,
         \A k \in 1 .. n : k - 1 \in G => k \in G
  PROVE  G = 0 .. n
<1> SUFFICES ASSUME (0 .. n) \ G # {}
             PROVE  FALSE
  OBVIOUS
<1>1. (0 .. n) \ G \subseteq Nat
  OBVIOUS
<1>2. PICK k \in (0 .. n) \ G : \A j \in (0 .. n) \ G : k <= j
  BY <1>1, LeastNumber
<1>3. k \in 1 .. n /\ k - 1 \in 0 .. n /\ k - 1 < k
  BY <1>2
<1>4. k - 1 \in G
  BY <1>2, <1>3
<1> QED
  BY <1>2, <1>3, <1>4

\* A loop that carries a value of V: its turns, one for each position, and its results.
Turns(n, V) == [1 .. n -> [V -> V]]
Loop(n, V, start, turn) ==
  {f \in [0 .. n -> V] : f[0] = start /\ \A k \in 1 .. n : f[k] = turn[k][f[k - 1]]}

\* It has a result at every turn: the recursive function that stands for the loop exists.
LEMMA LoopExists ==
  ASSUME NEW V, NEW n \in Nat, NEW start \in V, NEW turn \in Turns(n, V)
  PROVE  \E f : f \in Loop(n, V, start, turn)
<1> USE DEF Turns, Loop
<1> DEFINE Works(m) == \E f \in [0 .. m -> V] : /\ f[0] = start
                                                /\ \A k \in 1 .. m : f[k] = turn[k][f[k - 1]]
           Good == {m \in 0 .. n : Works(m)}
<1>1. 0 \in Good
  <2> DEFINE g == [x \in 0 .. 0 |-> start]
  <2>1. g \in [0 .. 0 -> V] /\ g[0] = start /\ 1 .. 0 = {}
    OBVIOUS
  <2> HIDE DEF g
  <2>2. Works(0)
    BY <2>1
  <2> QED
    BY <2>2
<1>2. ASSUME NEW k \in 1 .. n, k - 1 \in Good
      PROVE  k \in Good
  <2>1. PICK f \in [0 .. k - 1 -> V] : /\ f[0] = start
                                       /\ \A j \in 1 .. k - 1 : f[j] = turn[j][f[j - 1]]
    BY <1>2
  <2> DEFINE g == [j \in 0 .. k |-> IF j = k THEN turn[k][f[k - 1]] ELSE f[j]]
  <2>2. f[k - 1] \in V
    BY <2>1
  <2>3. turn[k][f[k - 1]] \in V
    BY <2>2
  <2>4. g \in [0 .. k -> V]
    BY <2>1, <2>3
  <2>5. g[0] = start
    BY <2>1
  <2>6. ASSUME NEW j \in 1 .. k
        PROVE  g[j] = turn[j][g[j - 1]]
    <3>1. j - 1 \in 0 .. k - 1 /\ j - 1 \in 0 .. k /\ j - 1 # k /\ g[j - 1] = f[j - 1]
      OBVIOUS
    <3>2. CASE j = k
      BY <3>1, <3>2
    <3>3. CASE j # k
      <4>1. j \in 1 .. k - 1 /\ g[j] = f[j]
        BY <3>3
      <4> QED
        BY <2>1, <3>1, <4>1
    <3> QED
      BY <3>2, <3>3
  <2> HIDE DEF g
  <2>7. Works(k)
    BY <2>4, <2>5, <2>6
  <2> HIDE DEF Works
  <2> QED
    BY <2>7
<1>3. Good \in SUBSET (0 .. n)
  OBVIOUS
<1> HIDE DEF Good
<1>4. Good = 0 .. n
  BY <1>1, <1>2, <1>3, Climb
<1>5. n \in Good
  BY <1>4
<1> QED
  BY <1>5 DEF Good

-----------------------------------------------------------------------------
(* Kept.                                                                   *)

\* One turn of the loop of Kept.
KeptStep(s, S, f, n) ==
  IF n = 0 THEN <<>> ELSE IF s[n] \in S THEN Append(f[n - 1], s[n]) ELSE f[n - 1]

\* The function that Kept is defined with exists, up to every position.
LEMMA KeptExists ==
  ASSUME NEW E, NEW s \in Seq(E), NEW S
  PROVE  \E f : f = [n \in 0 .. Len(s) |-> KeptStep(s, S, f, n)]
<1> DEFINE Works(m) == \E f : f = [n \in 0 .. m |-> KeptStep(s, S, f, n)]
           Good == {m \in 0 .. Len(s) : Works(m)}
<1>1. Len(s) \in Nat
  OBVIOUS
<1>2. 0 \in Good
  <2>1. [n \in 0 .. 0 |-> <<>>] = [n \in 0 .. 0 |-> KeptStep(s, S, [x \in 0 .. 0 |-> <<>>], n)]
    BY DEF KeptStep
  <2>2. Works(0)
    BY <2>1
  <2> QED
    BY <1>1, <2>2
<1>3. ASSUME NEW k \in 1 .. Len(s), k - 1 \in Good
      PROVE  k \in Good
  <2>1. PICK f : f = [n \in 0 .. k - 1 |-> KeptStep(s, S, f, n)]
    BY <1>3
  <2> DEFINE g == [n \in 0 .. k |-> KeptStep(s, S, f, n)]
  <2>2. \A n \in 0 .. k - 1 : g[n] = f[n]
    BY <1>1, <2>1
  <2>3. ASSUME NEW n \in 0 .. k
        PROVE  KeptStep(s, S, f, n) = KeptStep(s, S, g, n)
    <3>1. CASE n = 0
      BY <3>1 DEF KeptStep
    <3>2. CASE n # 0
      <4>1. n - 1 \in 0 .. k - 1
        BY <1>1, <3>2
      <4>2. g[n - 1] = f[n - 1]
        BY <2>2, <4>1
      <4> HIDE DEF g
      <4> QED
        BY <4>2 DEF KeptStep
    <3> QED
      BY <3>1, <3>2
  <2>4. g = [n \in 0 .. k |-> KeptStep(s, S, g, n)]
    BY <2>3
  <2>5. Works(k)
    BY <2>4
  <2> QED
    BY <1>1, <2>5
<1>4. Good \in SUBSET (0 .. Len(s))
  OBVIOUS
<1> HIDE DEF Good
<1>5. Good = 0 .. Len(s)
  BY <1>1, <1>2, <1>3, <1>4, Climb
<1>6. Len(s) \in Good
  BY <1>1, <1>5
<1> QED
  BY <1>6 DEF Good

\* Kept, by its turns.
LEMMA KeptTurns ==
  ASSUME NEW E, NEW s \in Seq(E), NEW S
  PROVE  \E f : /\ f[0] = <<>>
                /\ \A n \in 1 .. Len(s) :
                     f[n] = IF s[n] \in S THEN Append(f[n - 1], s[n]) ELSE f[n - 1]
                /\ Kept(s, S) = f[Len(s)]
<1> DEFINE f == CHOOSE f : f = [n \in 0 .. Len(s) |-> KeptStep(s, S, f, n)]
<1>1. \E g : g = [n \in 0 .. Len(s) |-> KeptStep(s, S, g, n)]
  BY KeptExists
<1>2. f = [n \in 0 .. Len(s) |-> KeptStep(s, S, f, n)]
  BY <1>1
<1>3. Kept(s, S) = f[Len(s)]
  BY DEF Kept, KeptStep
<1> HIDE DEF f
<1>4. f[0] = <<>>
  BY <1>2 DEF KeptStep
<1>5. ASSUME NEW n \in 1 .. Len(s)
      PROVE  f[n] = IF s[n] \in S THEN Append(f[n - 1], s[n]) ELSE f[n - 1]
  <2>1. n \in 0 .. Len(s) /\ n # 0
    OBVIOUS
  <2>2. f[n] = KeptStep(s, S, f, n)
    BY <1>2, <2>1
  <2> QED
    BY <2>1, <2>2 DEF KeptStep
<1> QED
  BY <1>3, <1>4, <1>5

\* Kept makes a sequence of what s lists and S holds.
LEMMA KeptFacts ==
  ASSUME NEW E, NEW s \in Seq(E), NEW S
  PROVE  /\ Kept(s, S) \in Seq(E)
         /\ {Kept(s, S)[n] : n \in DOMAIN Kept(s, S)} = {s[n] : n \in DOMAIN s} \cap S
<1>1. PICK f : /\ f[0] = <<>>
               /\ \A n \in 1 .. Len(s) :
                    f[n] = IF s[n] \in S THEN Append(f[n - 1], s[n]) ELSE f[n - 1]
               /\ Kept(s, S) = f[Len(s)]
  BY KeptTurns
<1> DEFINE Members(q) == {q[j] : j \in DOMAIN q}
           Exact(n) == f[n] \in Seq(E) /\ Members(f[n]) = {s[j] : j \in 1 .. n} \cap S
           Good == {n \in 0 .. Len(s) : Exact(n)}
<1>2. Len(s) \in Nat
  OBVIOUS
<1>3. 0 \in Good
  <2>1. f[0] = <<>> /\ <<>> \in Seq(E) /\ DOMAIN <<>> = {}
    BY <1>1
  <2>2. Members(<<>>) = {} /\ {s[j] : j \in 1 .. 0} = {}
    BY <2>1
  <2>3. Exact(0)
    BY <2>1, <2>2
  <2> HIDE DEF Exact
  <2> QED
    BY <1>2, <2>3
<1>4. ASSUME NEW k \in 1 .. Len(s), k - 1 \in Good
      PROVE  k \in Good
  <2>1. f[k] = IF s[k] \in S THEN Append(f[k - 1], s[k]) ELSE f[k - 1]
    BY <1>1
  <2>2. f[k - 1] \in Seq(E) /\ Members(f[k - 1]) = {s[j] : j \in 1 .. k - 1} \cap S
    BY <1>4
  <2>3. {s[j] : j \in 1 .. k} = {s[j] : j \in 1 .. k - 1} \cup {s[k]} /\ s[k] \in E
    BY <1>2
  <2>4. CASE s[k] \in S
    <3> DEFINE q == f[k - 1]
               e == s[k]
    <3>1. f[k] = Append(q, e) /\ q \in Seq(E) /\ e \in E
      BY <2>1, <2>2, <2>3, <2>4
    <3> HIDE DEF q, e
    <3>2. /\ Append(q, e) \in Seq(E) /\ DOMAIN Append(q, e) = 1 .. Len(q) + 1
          /\ DOMAIN q = 1 .. Len(q) /\ Len(q) \in Nat
          /\ Append(q, e)[Len(q) + 1] = e
          /\ \A j \in 1 .. Len(q) : Append(q, e)[j] = q[j]
      BY <3>1, AppendProperties
    <3>3. Members(Append(q, e)) = Members(q) \cup {e}
      BY <3>2
    <3>4. Exact(k)
      <4> HIDE DEF Members
      <4>1. f[k] \in Seq(E) /\ Members(f[k]) = Members(q) \cup {e}
        BY <3>1, <3>2, <3>3
      <4>2. {s[j] : j \in 1 .. k} \cap S = ({s[j] : j \in 1 .. k - 1} \cap S) \cup {e}
        BY <2>3, <2>4 DEF e
      <4> QED
        BY <2>2, <4>1, <4>2 DEF q
    <3> HIDE DEF Exact
    <3> QED
      BY <1>2, <3>4
  <2>5. CASE s[k] \notin S
    <3>1. f[k] = f[k - 1]
      BY <2>1, <2>5
    <3>2. {s[j] : j \in 1 .. k} \cap S = {s[j] : j \in 1 .. k - 1} \cap S
      BY <2>3, <2>5
    <3>3. Exact(k)
      <4> HIDE DEF Members
      <4> QED
        BY <2>2, <3>1, <3>2
    <3> HIDE DEF Exact
    <3> QED
      BY <1>2, <3>3
  <2> QED
    BY <2>4, <2>5
<1>5. Good \in SUBSET (0 .. Len(s))
  OBVIOUS
<1>6. Len(s) \in Good
  <2> HIDE DEF Good
  <2>1. Good = 0 .. Len(s)
    BY <1>2, <1>3, <1>4, <1>5, Climb
  <2> QED
    BY <1>2, <2>1
<1> QED
  BY <1>1, <1>6

\* Kept asks only about what s lists.
LEMMA KeptSame ==
  ASSUME NEW s, NEW S, NEW T, \A n \in 1 .. Len(s) : s[n] \in S <=> s[n] \in T
  PROVE  Kept(s, S) = Kept(s, T)
<1>1. ASSUME NEW f, NEW n \in 0 .. Len(s)
      PROVE  KeptStep(s, S, f, n) = KeptStep(s, T, f, n)
  BY DEF KeptStep
<1>2. \A f : (f = [n \in 0 .. Len(s) |-> KeptStep(s, S, f, n)])
               <=> (f = [n \in 0 .. Len(s) |-> KeptStep(s, T, f, n)])
  BY <1>1
<1>3. (CHOOSE f : f = [n \in 0 .. Len(s) |-> KeptStep(s, S, f, n)])
      = (CHOOSE f : f = [n \in 0 .. Len(s) |-> KeptStep(s, T, f, n)])
  BY <1>2
<1> QED
  BY <1>3 DEF Kept, KeptStep

\* One more turn: what comes last is kept last.
LEMMA KeptAppend ==
  ASSUME NEW E, NEW s \in Seq(E), NEW e \in E, NEW S
  PROVE  Kept(Append(s, e), S) = IF e \in S THEN Append(Kept(s, S), e) ELSE Kept(s, S)
<1> DEFINE t == Append(s, e)
<1>1. /\ Len(s) \in Nat /\ t \in Seq(E) /\ Len(t) = Len(s) + 1 /\ t[Len(s) + 1] = e
      /\ \A k \in 1 .. Len(s) : t[k] = s[k]
  BY PushFacts
<1>2. PICK f : /\ f[0] = <<>>
               /\ \A n \in 1 .. Len(s) :
                    f[n] = IF s[n] \in S THEN Append(f[n - 1], s[n]) ELSE f[n - 1]
               /\ Kept(s, S) = f[Len(s)]
  BY KeptTurns
<1>3. PICK g : /\ g[0] = <<>>
               /\ \A n \in 1 .. Len(t) :
                    g[n] = IF t[n] \in S THEN Append(g[n - 1], t[n]) ELSE g[n - 1]
               /\ Kept(t, S) = g[Len(t)]
  BY <1>1, KeptTurns
<1> HIDE DEF t
<1> DEFINE Same == {n \in 0 .. Len(s) : f[n] = g[n]}
<1>4. 0 \in Same
  BY <1>1, <1>2, <1>3
<1>5. ASSUME NEW k \in 1 .. Len(s), k - 1 \in Same
      PROVE  k \in Same
  BY <1>1, <1>2, <1>3, <1>5
<1>6. Same \in SUBSET (0 .. Len(s))
  OBVIOUS
<1>7. Len(s) \in Same
  <2> HIDE DEF Same
  <2>1. Same = 0 .. Len(s)
    BY <1>1, <1>4, <1>5, <1>6, Climb
  <2> QED
    BY <1>1, <2>1
<1>8. Kept(t, S) = IF e \in S THEN Append(g[Len(s)], e) ELSE g[Len(s)]
  BY <1>1, <1>3
<1> QED
  BY <1>2, <1>7, <1>8 DEF t

\* Of nothing, nothing.
LEMMA KeptEmpty ==
  ASSUME NEW S
  PROVE  Kept(<<>>, S) = <<>>
<1>1. PICK f : f[0] = <<>> /\ Kept(<<>>, S) = f[Len(<<>>)]
  BY KeptTurns, EmptySeq
<1> QED
  BY <1>1

\* What is kept stays in its order.
LEMMA KeptOrder ==
  ASSUME NEW E, NEW s \in Seq(E), NEW S
  PROVE  \A i, j \in DOMAIN Kept(s, S) : i < j =>
           \E m, n \in DOMAIN s : m < n /\ Kept(s, S)[i] = s[m] /\ Kept(s, S)[j] = s[n]
<1>1. PICK f : /\ f[0] = <<>>
               /\ \A n \in 1 .. Len(s) :
                    f[n] = IF s[n] \in S THEN Append(f[n - 1], s[n]) ELSE f[n - 1]
               /\ Kept(s, S) = f[Len(s)]
  BY KeptTurns
<1> DEFINE From(q, n) == \A i \in DOMAIN q : \E m \in 1 .. n : q[i] = s[m]
           Paired(q, n) == \A i, j \in DOMAIN q : i < j =>
                             \E m, p \in 1 .. n : m < p /\ q[i] = s[m] /\ q[j] = s[p]
           Right(n) == f[n] \in Seq(E) /\ From(f[n], n) /\ Paired(f[n], n)
           Good == {n \in 0 .. Len(s) : Right(n)}
<1>2. Len(s) \in Nat
  OBVIOUS
<1>3. 0 \in Good
  <2>1. f[0] = <<>> /\ <<>> \in Seq(E) /\ DOMAIN <<>> = {}
    BY <1>1
  <2>2. Right(0)
    BY <2>1
  <2> HIDE DEF Right
  <2> QED
    BY <1>2, <2>2
<1>4. ASSUME NEW k \in 1 .. Len(s), k - 1 \in Good
      PROVE  k \in Good
  <2>1. f[k] = IF s[k] \in S THEN Append(f[k - 1], s[k]) ELSE f[k - 1]
    BY <1>1
  <2>2. f[k - 1] \in Seq(E) /\ From(f[k - 1], k - 1) /\ Paired(f[k - 1], k - 1)
    BY <1>4
  <2>3. s[k] \in E /\ k \in Nat /\ k \in 1 .. k /\ \A m \in 1 .. k - 1 : m \in 1 .. k /\ m < k
    BY <1>2
  <2> DEFINE q == f[k - 1]
             e == s[k]
  <2>4. From(q, k) /\ Paired(q, k)
    <3> HIDE DEF q
    <3>1. q \in Seq(E) /\ From(q, k - 1) /\ Paired(q, k - 1)
      BY <2>2 DEF q
    <3> QED
      BY <2>3, <3>1
  <2>5. CASE s[k] \in S
    <3>1. f[k] = Append(q, e) /\ q \in Seq(E) /\ e \in E /\ e = s[k] /\ From(q, k - 1)
      BY <2>1, <2>2, <2>3, <2>5
    <3> HIDE DEF q, e
    <3>2. /\ Append(q, e) \in Seq(E) /\ DOMAIN Append(q, e) = 1 .. Len(q) + 1
          /\ DOMAIN q = 1 .. Len(q) /\ Len(q) \in Nat
          /\ Append(q, e)[Len(q) + 1] = e
          /\ \A j \in 1 .. Len(q) : Append(q, e)[j] = q[j]
      BY <3>1, AppendProperties
    <3> PICK t : t = Append(q, e)
      OBVIOUS
    <3>3. \A i \in DOMAIN t : (i \in DOMAIN q /\ t[i] = q[i]) \/ (i = Len(q) + 1 /\ t[i] = s[k])
      <4>1. \A i \in 1 .. Len(q) + 1 : i \in 1 .. Len(q) \/ i = Len(q) + 1
        BY <3>2
      <4> QED
        BY <3>1, <3>2, <4>1
    <3>4. From(t, k)
      BY <2>3, <2>4, <3>3
    <3>5. Paired(t, k)
      <4> SUFFICES ASSUME NEW i \in DOMAIN t, NEW j \in DOMAIN t, i < j
                   PROVE  \E m, p \in 1 .. k : m < p /\ t[i] = s[m] /\ t[j] = s[p]
        OBVIOUS
      <4>1. i \in DOMAIN q /\ t[i] = q[i]
        BY <3>2, <3>3
      <4>2. CASE j \in DOMAIN q /\ t[j] = q[j]
        <5>1. Paired(q, k)
          BY <2>4
        <5>2. \E m, p \in 1 .. k : m < p /\ q[i] = s[m] /\ q[j] = s[p]
          BY <4>1, <4>2, <5>1
        <5> QED
          BY <4>1, <4>2, <5>2
      <4>3. CASE t[j] = s[k]
        <5>1. PICK m \in 1 .. k - 1 : q[i] = s[m]
          BY <3>1, <4>1
        <5> QED
          BY <2>3, <4>1, <4>3, <5>1
      <4> QED
        BY <3>3, <4>2, <4>3
    <3>6. Right(k)
      <4> HIDE DEF From, Paired
      <4> QED
        BY <3>1, <3>2, <3>4, <3>5
    <3> HIDE DEF Right
    <3> QED
      BY <1>2, <3>6
  <2>6. CASE s[k] \notin S
    <3>1. f[k] = q /\ q \in Seq(E)
      BY <2>1, <2>2, <2>6
    <3>2. Right(k)
      <4> HIDE DEF From, Paired, q
      <4> QED
        BY <2>4, <3>1
    <3> HIDE DEF Right
    <3> QED
      BY <1>2, <3>2
  <2> QED
    BY <2>5, <2>6
<1>5. Good \in SUBSET (0 .. Len(s))
  OBVIOUS
<1>6. Len(s) \in Good
  <2> HIDE DEF Good
  <2>1. Good = 0 .. Len(s)
    BY <1>2, <1>3, <1>4, <1>5, Climb
  <2> QED
    BY <1>2, <2>1
<1>7. Paired(f[Len(s)], Len(s))
  BY <1>6
<1>8. DOMAIN s = 1 .. Len(s)
  OBVIOUS
<1> QED
  BY <1>1, <1>7, <1>8

\* What a single member is kept of.
LEMMA KeptOne ==
  ASSUME NEW E, NEW s \in Seq(E), NEW S, NEW e, Kept(s, S) = <<e>>
  PROVE  Kept(s, {e}) = <<e>>
<1>1. {Kept(s, S)[n] : n \in DOMAIN Kept(s, S)} = {s[n] : n \in DOMAIN s} \cap S
  BY KeptFacts
<1> PICK k : k = Kept(s, S)
  OBVIOUS
<1>2. {k[n] : n \in DOMAIN k} = {e}
  <2>1. k = <<e>>
    OBVIOUS
  <2>2. DOMAIN k = {1} /\ k[1] = e
    BY <2>1
  <2> QED
    BY <2>2
<1>3. \A n \in 1 .. Len(s) : s[n] \in S <=> s[n] \in {e}
  <2>1. DOMAIN s = 1 .. Len(s)
    OBVIOUS
  <2> QED
    BY <1>1, <1>2, <2>1
<1> QED
  BY <1>3, KeptSame

\* A list of positions that rise is no longer than there are positions.
LEMMA RisingPlaces ==
  ASSUME NEW n \in Nat, NEW q \in Seq(1 .. n), \A i, j \in DOMAIN q : i < j => q[i] < q[j]
  PROVE  Len(q) <= n
<1> DEFINE Good == {k \in 0 .. Len(q) : k = 0 \/ k <= q[k]}
<1>1. Len(q) \in Nat /\ DOMAIN q = 1 .. Len(q) /\ \A k \in 1 .. Len(q) : q[k] \in 1 .. n
  BY ElementOfSeq
<1>2. 0 \in Good
  BY <1>1
<1>3. ASSUME NEW k \in 1 .. Len(q), k - 1 \in Good
      PROVE  k \in Good
  <2>1. CASE k = 1
    BY <1>1, <2>1
  <2>2. CASE k # 1
    <3>1. k - 1 \in DOMAIN q /\ k \in DOMAIN q /\ k - 1 < k
      BY <1>1, <2>2
    <3>2. q[k - 1] < q[k] /\ k - 1 <= q[k - 1] /\ q[k - 1] \in Int /\ q[k] \in Int
      BY <1>1, <1>3, <3>1, <2>2
    <3> QED
      BY <3>2
  <2> QED
    BY <2>1, <2>2
<1>4. Good \in SUBSET (0 .. Len(q))
  OBVIOUS
<1> HIDE DEF Good
<1>5. Good = 0 .. Len(q)
  BY <1>1, <1>2, <1>3, <1>4, Climb
<1>6. Len(q) \in Good
  BY <1>1, <1>5
<1> QED
  BY <1>1, <1>6 DEF Good

-----------------------------------------------------------------------------
(* Folds over a finite set.                                                *)

\* Induction over the subsets of a finite set: a claim that holds of a set when it holds
\* of the set without any one of its members.
LEMMA SetInduction ==
  ASSUME NEW S, IsFiniteSet(S), NEW Good,
         \A T \in SUBSET S : (\A x \in T : T \ {x} \in Good) => T \in Good
  PROVE  \A T \in SUBSET S : T \in Good
<1> DEFINE n == Cardinality(S)
           G == {k \in 0 .. n : \A T \in SUBSET S : Cardinality(T) = k => T \in Good}
<1>1. n \in Nat /\ \A T \in SUBSET S : IsFiniteSet(T) /\ Cardinality(T) \in 0 .. n
  BY FS_Subset, FS_CardinalityType
<1>2. 0 \in G
  BY <1>1, FS_EmptySet
<1>3. ASSUME NEW k \in 1 .. n, k - 1 \in G
      PROVE  k \in G
  <2>1. ASSUME NEW T \in SUBSET S, Cardinality(T) = k
        PROVE  T \in Good
    <3>1. \A x \in T : T \ {x} \in SUBSET S /\ Cardinality(T \ {x}) = k - 1
      BY <1>1, <2>1, FS_RemoveElement
    <3> QED
      BY <1>3, <3>1
  <2> QED
    BY <2>1
<1> HIDE DEF n
<1>4. G = 0 .. n
  BY <1>1, <1>2, <1>3, Climb
<1> QED
  BY <1>1, <1>4

\* Sums and products.
Neutral(op) == IF op = "sum" THEN 0 ELSE 1
Combine(op, a, b) == IF op = "sum" THEN a + b ELSE a * b
FoldStep(op, g, s, f) ==
  IF s = {} THEN Neutral(op)
  ELSE Combine(op, g[CHOOSE x \in s : TRUE], f[s \ {CHOOSE x \in s : TRUE}])
IsFold(op, g, S, f) == f = [s \in SUBSET S |-> FoldStep(op, g, s, f)]
Fold(op, g, S) == (CHOOSE f : IsFold(op, g, S, f))[S]

LEMMA CombineFacts ==
  ASSUME NEW op, NEW a \in Int, NEW b \in Int, NEW c \in Int
  PROVE  /\ Combine(op, a, b) \in Int /\ Neutral(op) \in Int
         /\ Combine(op, a, Combine(op, b, c)) = Combine(op, b, Combine(op, a, c))
         /\ Combine(op, Combine(op, a, b), c) = Combine(op, a, Combine(op, b, c))
         /\ Combine(op, Neutral(op), a) = a /\ Combine(op, a, Neutral(op)) = a
<1>1. CASE op = "sum"
  BY <1>1 DEF Combine, Neutral
<1>2. CASE op # "sum"
  <2>1. \A x, y : Combine(op, x, y) = x * y
    BY <1>2 DEF Combine
  <2>2. Neutral(op) = 1
    BY <1>2 DEF Neutral
  <2>3. a * b \in Int /\ a * (b * c) = b * (a * c) /\ (a * b) * c = a * (b * c) /\ 1 * a = a /\ a * 1 = a
    OBVIOUS
  <2> QED
    BY <2>1, <2>2, <2>3
<1> QED
  BY <1>1, <1>2

\* A function that obeys the recursion on the sets of at most k members.
Folds(op, g, S, f, k) ==
  /\ f \in [SUBSET S -> Int]
  /\ \A s \in SUBSET S : Cardinality(s) <= k => f[s] = FoldStep(op, g, s, f)

\* Its next value is a number.
LEMMA StepNumber ==
  ASSUME NEW op, NEW g, NEW S, \A x \in S : g[x] \in Int, NEW f \in [SUBSET S -> Int], NEW s \in SUBSET S
  PROVE  FoldStep(op, g, s, f) \in Int
<1>1. CASE s = {}
  BY <1>1 DEF FoldStep, Neutral
<1>2. CASE s # {}
  <2> DEFINE x == CHOOSE y \in s : TRUE
  <2>1. x \in s
    BY <1>2
  <2>2. g[x] \in Int /\ f[s \ {x}] \in Int
    BY <2>1
  <2>3. FoldStep(op, g, s, f) = Combine(op, g[x], f[s \ {x}])
    BY <1>2 DEF FoldStep
  <2> HIDE DEF x
  <2> QED
    BY <2>2, <2>3, CombineFacts
<1> QED
  BY <1>1, <1>2

\* The recursive function a fold is defined with exists.
LEMMA FoldExists ==
  ASSUME NEW op, NEW g, NEW S, IsFiniteSet(S), \A x \in S : g[x] \in Int
  PROVE  \E f : IsFold(op, g, S, f)
<1> DEFINE n == Cardinality(S)
           G == {k \in 0 .. n : \E f : Folds(op, g, S, f, k)}
<1>1. n \in Nat /\ \A T \in SUBSET S : IsFiniteSet(T) /\ Cardinality(T) \in 0 .. n
  BY FS_Subset, FS_CardinalityType
<1>2. 0 \in G
  <2> DEFINE f == [s \in SUBSET S |-> Neutral(op)]
  <2>1. \A s \in SUBSET S : Cardinality(s) <= 0 => s = {}
    BY <1>1, FS_EmptySet
  <2>2. f \in [SUBSET S -> Int] /\ f[{}] = FoldStep(op, g, {}, f)
    BY DEF FoldStep, Neutral
  <2> HIDE DEF f
  <2>3. Folds(op, g, S, f, 0)
    BY <2>1, <2>2 DEF Folds
  <2> QED
    BY <1>1, <2>3
<1>3. ASSUME NEW k \in 1 .. n, k - 1 \in G
      PROVE  k \in G
  <2>1. PICK f : Folds(op, g, S, f, k - 1)
    BY <1>3
  <2> DEFINE h == [s \in SUBSET S |-> FoldStep(op, g, s, f)]
  <2>2. h \in [SUBSET S -> Int] /\ \A s \in SUBSET S : h[s] = FoldStep(op, g, s, f)
    BY <2>1, StepNumber DEF Folds
  <2> HIDE DEF h
  <2>3. ASSUME NEW s \in SUBSET S, Cardinality(s) <= k
        PROVE  h[s] = FoldStep(op, g, s, h)
    <3>1. CASE s = {}
      BY <2>2, <3>1 DEF FoldStep
    <3>2. CASE s # {}
      <4> DEFINE x == CHOOSE y \in s : TRUE
      <4>1. x \in s
        BY <3>2
      <4>2. FoldStep(op, g, s, h) = Combine(op, g[x], h[s \ {x}])
            /\ FoldStep(op, g, s, f) = Combine(op, g[x], f[s \ {x}])
        BY <3>2 DEF FoldStep
      <4> HIDE DEF x
      <4>3. IsFiniteSet(s) /\ Cardinality(s) \in Nat /\ s \ {x} \in SUBSET S
        BY <1>1
      <4>4. Cardinality(s \ {x}) = Cardinality(s) - 1
        BY <4>1, <4>3, FS_RemoveElement
      <4> HIDE DEF n
      <4>5. Cardinality(s \ {x}) <= k - 1
        BY <1>1, <2>3, <4>3, <4>4
      <4>6. f[s \ {x}] = FoldStep(op, g, s \ {x}, f)
        BY <2>1, <4>3, <4>5 DEF Folds
      <4> QED
        BY <2>2, <4>2, <4>3, <4>6
    <3> QED
      BY <3>1, <3>2
  <2>4. Folds(op, g, S, h, k)
    BY <2>2, <2>3 DEF Folds
  <2> QED
    BY <1>1, <2>4
<1> HIDE DEF n
<1>4. G = 0 .. n
  <2>1. G \in SUBSET (0 .. n)
    OBVIOUS
  <2> HIDE DEF G
  <2> QED
    BY <1>1, <1>2, <1>3, <2>1, Climb
<1>5. n \in 0 .. n
  BY <1>1
<1>6. PICK f : Folds(op, g, S, f, n)
  BY <1>4, <1>5
<1>7. f \in [SUBSET S -> Int] /\ \A s \in SUBSET S : f[s] = FoldStep(op, g, s, f)
  BY <1>1, <1>6 DEF Folds
<1>8. IsFold(op, g, S, f)
  BY <1>7 DEF IsFold
<1> QED
  BY <1>8

\* On a part of the set it gives the fold of the part.
LEMMA FoldPart ==
  ASSUME NEW op, NEW g, NEW S, IsFiniteSet(S), \A x \in S : g[x] \in Int, NEW T \in SUBSET S,
         NEW f, IsFold(op, g, S, f)
  PROVE  Fold(op, g, T) = f[T]
<1> DEFINE h == CHOOSE h : IsFold(op, g, T, h)
<1>1. IsFiniteSet(T) /\ \A x \in T : g[x] \in Int
  BY FS_Subset
<1>2. \E e : IsFold(op, g, T, e)
  BY <1>1, FoldExists
<1>3. IsFold(op, g, T, h)
  BY <1>2, Zenon
<1>4. Fold(op, g, T) = h[T]
  BY DEF Fold
<1> HIDE DEF h
<1> DEFINE Good == {s \in SUBSET T : h[s] = f[s]}
<1>5. \A s \in SUBSET T : h[s] = FoldStep(op, g, s, h)
  BY <1>3 DEF IsFold
<1>6. \A s \in SUBSET T : f[s] = FoldStep(op, g, s, f)
  BY DEF IsFold
<1>7. ASSUME NEW s \in SUBSET T, \A x \in s : s \ {x} \in Good
      PROVE  s \in Good
  <2> DEFINE x == CHOOSE y \in s : TRUE
  <2>1. CASE s = {}
    BY <1>5, <1>6, <2>1 DEF FoldStep
  <2>2. CASE s # {}
    <3>1. x \in s
      BY <2>2
    <3>2. h[s \ {x}] = f[s \ {x}]
      BY <1>7, <3>1
    <3>3. /\ FoldStep(op, g, s, h) = Combine(op, g[x], h[s \ {x}])
          /\ FoldStep(op, g, s, f) = Combine(op, g[x], f[s \ {x}])
      BY <2>2 DEF FoldStep
    <3> HIDE DEF x
    <3> QED
      BY <1>5, <1>6, <3>2, <3>3
  <2> QED
    BY <2>1, <2>2
<1> HIDE DEF Good
<1>8. \A s \in SUBSET T : s \in Good
  BY <1>1, <1>7, SetInduction
<1> QED
  BY <1>4, <1>8 DEF Good

\* The recursion, for the fold itself.
LEMMA FoldIs ==
  ASSUME NEW op, NEW g, NEW S, IsFiniteSet(S), \A x \in S : g[x] \in Int
  PROVE  /\ S = {} => Fold(op, g, S) = Neutral(op)
         /\ S # {} => \E x \in S : Fold(op, g, S) = Combine(op, g[x], Fold(op, g, S \ {x}))
<1>1. PICK f : IsFold(op, g, S, f)
  BY FoldExists
<1>2. \A T \in SUBSET S : Fold(op, g, T) = f[T]
  BY <1>1, FoldPart
<1>3. Fold(op, g, S) = FoldStep(op, g, S, f)
  BY <1>1, <1>2 DEF IsFold
<1>4. ASSUME S # {}
      PROVE  \E x \in S : Fold(op, g, S) = Combine(op, g[x], Fold(op, g, S \ {x}))
  <2> DEFINE x == CHOOSE y \in S : TRUE
  <2>1. x \in S
    BY <1>4
  <2>2. FoldStep(op, g, S, f) = Combine(op, g[x], f[S \ {x}])
    BY <1>4 DEF FoldStep
  <2>3. Fold(op, g, S \ {x}) = f[S \ {x}]
    BY <1>2
  <2> QED
    BY <1>3, <2>1, <2>2, <2>3
<1> QED
  BY <1>3, <1>4 DEF FoldStep

\* It is a number.
LEMMA FoldNumber ==
  ASSUME NEW op, NEW S, IsFiniteSet(S), NEW g, \A x \in S : g[x] \in Int
  PROVE  \A T \in SUBSET S : Fold(op, g, T) \in Int
<1> DEFINE Good == {T \in SUBSET S : Fold(op, g, T) \in Int}
<1>1. ASSUME NEW T \in SUBSET S, \A x \in T : T \ {x} \in Good
      PROVE  T \in Good
  <2>1. IsFiniteSet(T)
    BY FS_Subset
  <2>2. CASE T = {}
    BY <2>1, <2>2, FoldIs, CombineFacts
  <2>3. CASE T # {}
    <3>1. PICK y \in T : Fold(op, g, T) = Combine(op, g[y], Fold(op, g, T \ {y}))
      BY <2>1, <2>3, FoldIs
    <3>2. g[y] \in Int /\ Fold(op, g, T \ {y}) \in Int
      BY <1>1
    <3> QED
      BY <3>1, <3>2, CombineFacts
  <2> QED
    BY <2>2, <2>3
<1> HIDE DEF Good
<1>2. \A T \in SUBSET S : T \in Good
  BY <1>1, SetInduction
<1> QED
  BY <1>2 DEF Good

\* Any member may be taken first.
LEMMA FoldTake ==
  ASSUME NEW op, NEW S, IsFiniteSet(S), NEW g, \A x \in S : g[x] \in Int
  PROVE  \A x \in S : Fold(op, g, S) = Combine(op, g[x], Fold(op, g, S \ {x}))
<1> DEFINE Takes(T) == \A x \in T : Fold(op, g, T) = Combine(op, g[x], Fold(op, g, T \ {x}))
           Good == {T \in SUBSET S : Takes(T)}
<1>1. ASSUME NEW T \in SUBSET S, \A x \in T : T \ {x} \in Good, NEW x \in T
      PROVE  Fold(op, g, T) = Combine(op, g[x], Fold(op, g, T \ {x}))
  <2>1. PICK y \in T : Fold(op, g, T) = Combine(op, g[y], Fold(op, g, T \ {y}))
    BY FoldIs, FS_Subset
  <2>2. CASE x # y
    <3> DEFINE rest == (T \ {x}) \ {y}
    <3>1. x \in T \ {y} /\ y \in T \ {x} /\ (T \ {y}) \ {x} = rest /\ rest \in SUBSET S
      BY <2>2
    <3>2. Fold(op, g, T \ {y}) = Combine(op, g[x], Fold(op, g, rest))
      BY <1>1, <3>1
    <3>3. Fold(op, g, T \ {x}) = Combine(op, g[y], Fold(op, g, rest))
      BY <1>1, <3>1
    <3>4. Fold(op, g, rest) \in Int /\ g[x] \in Int /\ g[y] \in Int
      BY <3>1, FoldNumber
    <3> HIDE DEF rest
    <3> QED
      BY <2>1, <3>2, <3>3, <3>4, CombineFacts
  <2> QED
    BY <2>1, <2>2
<1>2. \A T \in SUBSET S : (\A x \in T : T \ {x} \in Good) => T \in Good
  BY <1>1
<1> HIDE DEF Good
<1>3. \A T \in SUBSET S : T \in Good
  BY <1>2, SetInduction
<1> QED
  BY <1>3 DEF Good

\* What is folded over equal values is equal.
LEMMA FoldSame ==
  ASSUME NEW op, NEW S, IsFiniteSet(S), NEW g, NEW h,
         \A x \in S : g[x] \in Int /\ g[x] = h[x]
  PROVE  Fold(op, g, S) = Fold(op, h, S)
<1> DEFINE Good == {T \in SUBSET S : Fold(op, g, T) = Fold(op, h, T)}
<1>1. ASSUME NEW T \in SUBSET S, \A x \in T : T \ {x} \in Good
      PROVE  T \in Good
  <2>1. IsFiniteSet(T)
    BY FS_Subset
  <2>2. CASE T = {}
    BY <2>1, <2>2, FoldIs
  <2>3. CASE T # {}
    <3>0. \A x \in T : g[x] \in Int /\ h[x] \in Int
      OBVIOUS
    <3>1. PICK x \in T : Fold(op, g, T) = Combine(op, g[x], Fold(op, g, T \ {x}))
      BY <2>1, <2>3, <3>0, FoldIs
    <3>2. Fold(op, h, T) = Combine(op, h[x], Fold(op, h, T \ {x}))
      BY <2>1, <3>0, FoldTake
    <3> QED
      BY <1>1, <3>1, <3>2
  <2> QED
    BY <2>2, <2>3
<1>2. \A T \in SUBSET S : (\A x \in T : T \ {x} \in Good) => T \in Good
  BY <1>1
<1> HIDE DEF Good
<1>3. \A T \in SUBSET S : T \in Good
  BY <1>2, SetInduction
<1> QED
  BY <1>3 DEF Good

\* Two sets without a common member fold to what their folds combine to.
LEMMA FoldUnion ==
  ASSUME NEW op, NEW S, IsFiniteSet(S), NEW T, IsFiniteSet(T), S \cap T = {},
         NEW g, \A x \in S \cup T : g[x] \in Int
  PROVE  Fold(op, g, S \cup T) = Combine(op, Fold(op, g, S), Fold(op, g, T))
<1> DEFINE Good == {A \in SUBSET S : Fold(op, g, A \cup T) = Combine(op, Fold(op, g, A), Fold(op, g, T))}
<1>0. IsFiniteSet(S \cup T) /\ Fold(op, g, T) \in Int /\ \A A \in SUBSET S : Fold(op, g, A) \in Int
  <2>1. IsFiniteSet(S \cup T)
    BY FS_Union
  <2>2. \A A \in SUBSET (S \cup T) : Fold(op, g, A) \in Int
    BY <2>1, FoldNumber
  <2> QED
    BY <2>1, <2>2
<1>1. ASSUME NEW A \in SUBSET S, \A x \in A : A \ {x} \in Good
      PROVE  Fold(op, g, A \cup T) = Combine(op, Fold(op, g, A), Fold(op, g, T))
  <2>1. IsFiniteSet(A) /\ IsFiniteSet(A \cup T)
    BY FS_Subset, FS_Union
  <2>2. CASE A = {}
    <3>1. A \cup T = T /\ Fold(op, g, A) = Neutral(op)
      BY <2>1, <2>2, FoldIs
    <3> QED
      BY <1>0, <3>1, CombineFacts
  <2>3. CASE A # {}
    <3>1. PICK x \in A : TRUE
      BY <2>3
    <3>2. (A \cup T) \ {x} = (A \ {x}) \cup T
      BY <3>1
    <3>3. Fold(op, g, A \cup T) = Combine(op, g[x], Fold(op, g, (A \ {x}) \cup T))
      BY <2>1, <3>1, <3>2, FoldTake
    <3>4. Fold(op, g, A) = Combine(op, g[x], Fold(op, g, A \ {x}))
      BY <2>1, <3>1, FoldTake
    <3>5. Fold(op, g, (A \ {x}) \cup T) = Combine(op, Fold(op, g, A \ {x}), Fold(op, g, T))
      BY <1>1, <3>1
    <3>6. g[x] \in Int /\ Fold(op, g, A \ {x}) \in Int
      BY <1>0, <3>1
    <3> QED
      BY <1>0, <3>3, <3>4, <3>5, <3>6, CombineFacts
  <2> QED
    BY <2>2, <2>3
<1>2. \A A \in SUBSET S : (\A x \in A : A \ {x} \in Good) => A \in Good
  BY <1>1
<1> HIDE DEF Good
<1>3. \A A \in SUBSET S : A \in Good
  BY <1>2, SetInduction
<1> QED
  BY <1>3 DEF Good
=============================================================================
