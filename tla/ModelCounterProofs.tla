-------------------------- MODULE ModelCounterProofs --------------------------
(***************************************************************************)
(* The search of ModelCounter: what a call gives to the occurrence manager *)
(* it takes back, and nothing else, for every formula, every trail of the  *)
(* solver, every cut and every order of decisions.                         *)
(*                                                                         *)
(* The argument: the calls on the stack are nested.  What a call may still *)
(* count, its component and the components to come, shares no variable     *)
(* with the units of the call or of a call around it; the call of a branch *)
(* is on the component of the node that made it, and its units are over    *)
(* it.  So the units of two calls are apart, and undoing one call's leaves *)
(* the others'.                                                            *)
(*                                                                         *)
(* The second half is about what a call knows.  Its component is closed:   *)
(* a clause that is not satisfied lies within it or outside; what lies     *)
(* outside was satisfiable when the calls around were solved, and nothing  *)
(* has been assigned there since.  So the solver, which decides on the     *)
(* variables of the component alone, answers for the whole formula; and    *)
(* when it has answered, what it holds on the component is closed under    *)
(* propagation, so that no clause left there is a unit.                    *)
(***************************************************************************)
EXTENDS ModelCounter, SequenceFacts, FiniteSetTheorems

-----------------------------------------------------------------------------
(* The inductive invariant.                                                *)

\* A level; its products hold whatever the weights give.
Level(V) ==
  [set : SUBSET Var, priority : SUBSET Var, units : SUBSET Literal, free : SUBSET Var,
   todo : SUBSET (SUBSET Var), ret : V, connected : SUBSET Var, cut : SUBSET Var,
   lit : Int, pos : V]

Typed ==
  /\ fixed \in SUBSET Literal /\ occ \in SUBSET Literal
  /\ assumptions \in Seq(Literal)
  /\ \E V : stack \in Seq(Level(V))
  /\ pc \in {"solve", "components", "partition", "select", "return", "done"}
  /\ Len(stack) = Len(assumptions) + 1

\* What the call in place k of the calls s has: it depends on the calls around
\* it and on the decisions as they were made with.
LevelRight(s, as, k) ==
  /\ VarsOf(s[k].units) \subseteq s[k].set
  /\ s[k].cut \subseteq s[k].connected
  /\ {} \notin s[k].todo
  /\ \A j \in 1 .. k : \A C \in s[k].todo \cup {s[k].connected} : C \cap VarsOf(s[j].units) = {}
  /\ k = 1 => s[k].set = Var
  /\ k > 1 => /\ s[k].set = s[k - 1].connected
              /\ VarOf(as[k - 1]) \in s[k].set
              /\ s[k].units # {} => as[k - 1] \in s[k].units

Nested == \A k \in 1 .. Len(stack) : LevelRight(stack, assumptions, k)

\* The units of the first m calls; all calls but one that has returned have
\* theirs assigned.
UnitsOf(s, m) == UNION {s[k].units : k \in 1 .. m}
Active == IF pc \in {"return", "done"} THEN Len(stack) - 1 ELSE Len(stack)
OccExact == occ = UnitsOf(stack, Active)

\* A call that has not been solved has done nothing.
FreshExact == pc = "solve" => Top.units = {} /\ Top.connected = {}

IInv == Typed /\ Nested /\ OccExact /\ FreshExact

-----------------------------------------------------------------------------
(* Repeating a function: propagation and reachability.                     *)

\* One turn of repeating F.
Turn(F, x, f, n) == IF n = 0 THEN x ELSE F[f[n - 1]]

\* F repeated N times from x.
Repeated(F, x, N) == (CHOOSE f : f = [n \in 0 .. N |-> Turn(F, x, f, n)])[N]

\* The values of repeating F exist, up to every number of turns.
LEMMA TurnsExist ==
  ASSUME NEW F, NEW x, NEW N \in Nat
  PROVE  \E f : f = [n \in 0 .. N |-> Turn(F, x, f, n)]
<1> DEFINE Works(m) == \E f : f = [n \in 0 .. m |-> Turn(F, x, f, n)]
           Good == {m \in 0 .. N : Works(m)}
<1>1. 0 \in Good
  <2>1. [n \in 0 .. 0 |-> x] = [n \in 0 .. 0 |-> Turn(F, x, [m \in 0 .. 0 |-> x], n)]
    BY DEF Turn
  <2>2. Works(0)
    BY <2>1
  <2> QED
    BY <2>2
<1>2. ASSUME NEW k \in 1 .. N, k - 1 \in Good
      PROVE  k \in Good
  <2>1. PICK f : f = [n \in 0 .. k - 1 |-> Turn(F, x, f, n)]
    BY <1>2
  <2> DEFINE g == [n \in 0 .. k |-> Turn(F, x, f, n)]
  <2>2. \A n \in 0 .. k - 1 : g[n] = f[n]
    BY <2>1
  <2>3. ASSUME NEW n \in 0 .. k
        PROVE  Turn(F, x, f, n) = Turn(F, x, g, n)
    <3>1. n # 0 => n - 1 \in 0 .. k - 1
      OBVIOUS
    <3>2. n # 0 => g[n - 1] = f[n - 1]
      BY <2>2, <3>1
    <3> HIDE DEF g
    <3> QED
      BY <3>2 DEF Turn
  <2>4. g = [n \in 0 .. k |-> Turn(F, x, g, n)]
    BY <2>3
  <2>5. Works(k)
    BY <2>4
  <2> QED
    BY <2>5
<1>3. Good \in SUBSET (0 .. N)
  OBVIOUS
<1> HIDE DEF Good
<1>4. N \in Good
  BY <1>1, <1>2, <1>3, Climb
<1> QED
  BY <1>4 DEF Good

\* Repeating F stays in a set that F does not leave.
LEMMA TurnsStay ==
  ASSUME NEW F, NEW P, NEW x \in P, NEW N \in Nat, \A y \in P : F[y] \in P
  PROVE  Repeated(F, x, N) \in P
<1> DEFINE f == CHOOSE f : f = [n \in 0 .. N |-> Turn(F, x, f, n)]
<1>1. \E g : g = [n \in 0 .. N |-> Turn(F, x, g, n)]
  BY TurnsExist
<1>2. f = [n \in 0 .. N |-> Turn(F, x, f, n)]
  BY <1>1
<1> HIDE DEF f
<1> DEFINE G == {n \in 0 .. N : f[n] \in P}
<1>3. 0 \in G
  BY <1>2 DEF Turn
<1>4. ASSUME NEW k \in 1 .. N, k - 1 \in G
      PROVE  k \in G
  <2>1. k \in 0 .. N /\ k # 0
    OBVIOUS
  <2>2. f[k] = Turn(F, x, f, k)
    BY <1>2, <2>1
  <2> QED
    BY <1>4, <2>1, <2>2 DEF Turn
<1>5. G \in SUBSET (0 .. N)
  OBVIOUS
<1>6. N \in G
  <2> HIDE DEF G
  <2> QED
    BY <1>3, <1>4, <1>5, Climb
<1> QED
  BY <1>6 DEF f, Repeated

\* Repeating a function that only adds elements of U, as many times as U has
\* elements, leaves nothing to add.
LEMMA TurnsClose ==
  ASSUME NEW U, IsFiniteSet(U), NEW N \in Nat, Cardinality(U) <= N,
         NEW F, \A T \in SUBSET U : T \subseteq F[T] /\ F[T] \subseteq U,
         NEW x \in SUBSET U
  PROVE  Repeated(F, x, N) \in {T \in SUBSET U : F[T] = T}
<1> DEFINE f == CHOOSE f : f = [n \in 0 .. N |-> Turn(F, x, f, n)]
<1>1. \E g : g = [n \in 0 .. N |-> Turn(F, x, g, n)]
  BY TurnsExist
<1>2. f = [n \in 0 .. N |-> Turn(F, x, f, n)]
  BY <1>1
<1> HIDE DEF f
<1>3. f[0] = x /\ \A k \in 1 .. N : f[k] = F[f[k - 1]]
  BY <1>2 DEF Turn
<1> DEFINE G == {n \in 0 .. N : /\ f[n] \in SUBSET U
                                /\ F[f[n]] = f[n] \/ Cardinality(f[n]) >= n}
<1>4. \A T \in SUBSET U : IsFiniteSet(T) /\ Cardinality(T) \in Nat
  BY FS_Subset, FS_CardinalityType
<1>5. 0 \in G
  <2>1. Cardinality(f[0]) >= 0
    BY <1>3, <1>4
  <2> QED
    BY <1>3, <2>1
<1>6. ASSUME NEW k \in 1 .. N, k - 1 \in G
      PROVE  k \in G
  <2> DEFINE a == f[k - 1]
             b == F[a]
  <2>1. f[k] = b /\ a \in SUBSET U /\ a \subseteq b /\ b \in SUBSET U
    BY <1>3, <1>6
  <2>2. b = a \/ Cardinality(a) >= k - 1
    BY <1>6
  <2> HIDE DEF a, b
  <2>3. CASE b = a
    <3>1. F[f[k]] = f[k]
      BY <2>1, <2>3 DEF a, b
    <3> QED
      BY <2>1, <3>1
  <2>4. CASE b # a
    <3>1. Cardinality(a) <= Cardinality(b) /\ Cardinality(a) # Cardinality(b)
      BY <1>4, <2>1, <2>4, FS_Subset
    <3>2. Cardinality(a) \in Nat /\ Cardinality(b) \in Nat /\ Cardinality(a) >= k - 1
      BY <1>4, <2>1, <2>2, <2>4
    <3>3. Cardinality(b) >= k
      BY <3>1, <3>2
    <3> QED
      BY <2>1, <3>3
  <2> QED
    BY <2>3, <2>4
<1>7. G \in SUBSET (0 .. N)
  OBVIOUS
<1>8. N \in G
  <2> HIDE DEF G
  <2> QED
    BY <1>5, <1>6, <1>7, Climb
<1>9. f[N] \in SUBSET U /\ F[f[N]] = f[N]
  <2>1. f[N] \in SUBSET U /\ (F[f[N]] = f[N] \/ Cardinality(f[N]) >= N)
    BY <1>8
  <2>2. CASE Cardinality(f[N]) >= N
    <3>1. Cardinality(f[N]) <= Cardinality(U)
      BY <2>1, FS_Subset
    <3>2. Cardinality(f[N]) = Cardinality(U)
      BY <1>4, <2>1, <2>2, <3>1, FS_CardinalityType
    <3>3. f[N] = U
      BY <2>1, <3>2, FS_Subset
    <3> QED
      BY <2>1, <3>3
  <2> QED
    BY <2>1, <2>2
<1> QED
  BY <1>9 DEF f, Repeated

\* Repeating it at least once adds what one turn adds.
LEMMA TurnsHold ==
  ASSUME NEW F, NEW P, NEW N \in Nat \ {0}, NEW x, F[x] \in P, \A T \in P : F[T] \in P
  PROVE  Repeated(F, x, N) \in P
<1> DEFINE f == CHOOSE f : f = [n \in 0 .. N |-> Turn(F, x, f, n)]
<1>1. \E g : g = [n \in 0 .. N |-> Turn(F, x, g, n)]
  BY TurnsExist
<1>2. f = [n \in 0 .. N |-> Turn(F, x, f, n)]
  BY <1>1
<1> HIDE DEF f
<1>3. f[0] = x /\ \A k \in 1 .. N : f[k] = F[f[k - 1]]
  BY <1>2 DEF Turn
<1> DEFINE G == {n \in 0 .. N : n = 0 \/ f[n] \in P}
<1>4. 0 \in G
  OBVIOUS
<1>5. ASSUME NEW k \in 1 .. N, k - 1 \in G
      PROVE  k \in G
  <2>1. f[k] = F[f[k - 1]] /\ (k - 1 = 0 \/ f[k - 1] \in P)
    BY <1>3, <1>5
  <2>2. f[k] \in P
    BY <1>3, <2>1
  <2> QED
    BY <2>2
<1>6. G \in SUBSET (0 .. N)
  OBVIOUS
<1>7. N \in G
  <2> HIDE DEF G
  <2> QED
    BY <1>4, <1>5, <1>6, Climb
<1>8. f[N] \in P
  BY <1>7
<1> QED
  BY <1>8 DEF f, Repeated

LEMMA VarFacts ==
  /\ Var \subseteq Nat \ {0} /\ Cardinality(Var) \in Nat
  /\ Literal \subseteq Int
  /\ \A l \in Literal : VarOf(l) \in Var /\ -l \in Literal /\ VarOf(-l) = VarOf(l)
  /\ \A v \in Var : v \in Literal /\ -v \in Literal /\ VarOf(v) = v /\ VarOf(-v) = v
<1>1. Var \subseteq Nat \ {0} /\ Cardinality(Var) \in Nat
  BY VarAssumption, FS_CardinalityType
<1>2. ASSUME NEW v \in Var
      PROVE  v \in Literal /\ -v \in Literal /\ VarOf(v) = v /\ VarOf(-v) = v
  BY <1>1 DEF Literal, VarOf
<1>3. ASSUME NEW l \in Literal
      PROVE  l \in Int /\ VarOf(l) \in Var /\ -l \in Literal /\ VarOf(-l) = VarOf(l)
  <2>1. PICK v \in Var : l = v \/ l = -v
    BY DEF Literal
  <2>2. v \in Nat /\ v > 0 /\ -(-v) = v
    BY <1>1
  <2> QED
    BY <1>2, <2>1, <2>2 DEF Literal, VarOf
<1> QED
  BY <1>1, <1>2, <1>3

\* Propagation adds literals to what it is given.
LEMMA PropagateFacts ==
  ASSUME NEW S \in SUBSET Literal
  PROVE  Propagate[S] \in SUBSET Literal /\ S \subseteq Propagate[S]
<1> DEFINE P == {T \in SUBSET Literal : S \subseteq T}
<1>1. /\ Consequences \in [SUBSET Literal -> SUBSET Literal]
      /\ \A T \in SUBSET Literal : T \subseteq Consequences[T]
  BY DEF Consequences
<1>2. P \in SUBSET (SUBSET Literal) /\ S \in P /\ \A T \in P : Consequences[T] \in P
  BY <1>1
<1> DEFINE F == Consequences
           N == Cardinality(Var)
<1>3. Repeated(F, S, N) \in P
  <2>1. N \in Nat
    BY VarFacts
  <2> HIDE DEF P, F, N
  <2>2. S \in P /\ \A T \in P : F[T] \in P
    BY <1>2 DEF F
  <2> QED
    BY <2>1, <2>2, TurnsStay
<1>4. Propagate[S] \in P
  BY <1>3 DEF Propagate, Repeated, Turn
<1> QED
  BY <1>4

\* What the solver has assigned holds the assumptions.
LEMMA TrailFacts ==
  ASSUME NEW known \in SUBSET Literal, NEW S \in SUBSET Literal, NEW K \in TrailsFrom(known, S)
  PROVE  K \in SUBSET Literal /\ S \subseteq K
<1> DEFINE least == Propagate[S \cup known]
<1>1. least \in SUBSET Literal /\ S \subseteq least
  BY PropagateFacts
<1>2. K = least \/ \E E \in SUBSET (Implied[S] \ least) : K = Propagate[least \cup E]
  BY DEF TrailsFrom
<1>3. Implied[S] \subseteq Literal
  BY DEF Implied
<1> HIDE DEF least
<1>4. ASSUME NEW E \in SUBSET (Implied[S] \ least)
      PROVE  /\ Propagate[least \cup E] \in SUBSET Literal
             /\ least \cup E \subseteq Propagate[least \cup E]
  BY <1>1, <1>3, PropagateFacts
<1> QED
  BY <1>1, <1>2, <1>4

-----------------------------------------------------------------------------
(* The components.                                                         *)

LEMMA OccClausesFacts == OccClauses \in SUBSET (SUBSET Literal)
BY ClausesAssumption DEF OccClauses

\* A component has its variable and no assigned one.
LEMMA ComponentFacts ==
  ASSUME NEW cls \in SUBSET (SUBSET Literal), NEW o, NEW v \in Var \ VarsOf(o)
  PROVE  /\ v \in ComponentOf(cls, v, o)
         /\ ComponentOf(cls, v, o) \subseteq Var \ VarsOf(o)
<1> DEFINE left == {Left(c, o) : c \in Unsatisfied(cls, o)}
           step == [S \in SUBSET Var |-> S \cup UNION {VarsOf(c) : c \in {d \in left : Touches(d, S)}}]
           P == {T \in SUBSET Var : v \in T /\ T \cap VarsOf(o) = {}}
<1>1. \A c \in left : VarsOf(c) \subseteq Var \ VarsOf(o)
  <2>1. ASSUME NEW c \in cls
        PROVE  VarsOf(Left(c, o)) \subseteq Var \ VarsOf(o)
    BY VarFacts DEF Left, VarsOf
  <2> QED
    BY <2>1 DEF Unsatisfied
<1>2. /\ step \in [SUBSET Var -> SUBSET Var]
      /\ \A T \in P : step[T] \in P
  <2> HIDE DEF left
  <2> QED
    BY <1>1
<1>3. P \in SUBSET (SUBSET Var) /\ {v} \in P
  OBVIOUS
<1> DEFINE N == Cardinality(Var)
           x == {v}
<1>4. Repeated(step, x, N) \in P
  <2>1. N \in Nat /\ x \in P
    BY <1>3, VarFacts
  <2> HIDE DEF P, step, N, x
  <2> QED
    BY <1>2, <2>1, TurnsStay
<1>5. ComponentOf(cls, v, o) \in P
  BY <1>4 DEF ComponentOf, Repeated, Turn
<1> QED
  BY <1>5

\* The components share no variable with what is assigned, and none is empty.
LEMMA ComponentsFacts ==
  ASSUME NEW C \in SUBSET Var, NEW o
  PROVE  /\ Components(OccClauses, C, o) \in SUBSET (SUBSET Var)
         /\ {} \notin Components(OccClauses, C, o)
         /\ \A D \in Components(OccClauses, C, o) : D \cap VarsOf(o) = {}
         /\ FreeVariables(OccClauses, C, o) \in SUBSET Var
<1>1. ASSUME NEW v \in C \ VarsOf(o)
      PROVE  LET D == ComponentOf(OccClauses, v, o) \cap C IN
             v \in D /\ D \in SUBSET Var /\ D \cap VarsOf(o) = {}
  BY ComponentFacts, OccClausesFacts
<1>2. \A D \in Components(OccClauses, C, o) :
        D # {} /\ D \in SUBSET Var /\ D \cap VarsOf(o) = {}
  BY <1>1, Zenon DEF Components
<1> QED
  BY <1>2 DEF FreeVariables

\* The next component is one of the components.
LEMMA NextFacts ==
  ASSUME Top.todo \in SUBSET (SUBSET Var), {} \notin Top.todo, Top.todo # {}
  PROVE  NextConnected \in Top.todo
<1>1. ASSUME NEW C \in Top.todo
      PROVE  Min(C) \in Nat
  <2>1. C \subseteq Nat /\ C # {}
    BY VarFacts
  <2>2. \E x \in C : \A y \in C : x <= y
    BY <2>1, LeastNumber
  <2> QED
    BY <2>1, <2>2 DEF Min
<1> DEFINE M == {Min(C) : C \in Top.todo}
<1>2. M \subseteq Nat /\ M # {}
  BY <1>1
<1>3. \E m \in M : \A y \in M : m <= y
  BY <1>2, LeastNumber
<1>4. \E C \in Top.todo : \A D \in Top.todo : Min(C) <= Min(D)
  BY <1>3
<1> QED
  BY <1>4 DEF NextConnected

-----------------------------------------------------------------------------
(* The stack.                                                              *)

LEMMA LevelGrows ==
  ASSUME NEW V, NEW W, V \subseteq W
  PROVE  Level(V) \subseteq Level(W) /\ Seq(Level(V)) \subseteq Seq(Level(W))
<1>1. Level(V) \subseteq Level(W)
  BY DEF Level
<1> QED
  BY <1>1

\* Changing the last entry.
LEMMA LastFacts ==
  ASSUME NEW S, NEW s \in Seq(S), s # <<>>, NEW e \in S
  PROVE  /\ Append(SubSeq(s, 1, Len(s) - 1), e) \in Seq(S)
         /\ Append(SubSeq(s, 1, Len(s) - 1), e) = [s EXCEPT ![Len(s)] = e]
         /\ [s EXCEPT ![Len(s)] = e] \in Seq(S)
         /\ Len([s EXCEPT ![Len(s)] = e]) = Len(s)
         /\ [s EXCEPT ![Len(s)] = e][Len(s)] = e
         /\ \A k \in 1 .. Len(s) - 1 : [s EXCEPT ![Len(s)] = e][k] = s[k]
<1> DEFINE b == SubSeq(s, 1, Len(s) - 1)
           u == Append(b, e)
           w == [s EXCEPT ![Len(s)] = e]
<1>1. /\ Len(s) \in Nat \ {0} /\ b \in Seq(S) /\ Len(b) = Len(s) - 1
      /\ \A k \in 1 .. Len(s) - 1 : b[k] = s[k]
  BY PopFacts
<1> HIDE DEF b
<1>2. /\ u \in Seq(S) /\ Len(u) = Len(b) + 1 /\ u[Len(b) + 1] = e
      /\ \A k \in 1 .. Len(b) : u[k] = b[k]
  BY <1>1, PushFacts
<1>3. /\ w \in Seq(S) /\ Len(w) = Len(s) /\ w[Len(s)] = e
      /\ \A k \in 1 .. Len(s) - 1 : w[k] = s[k]
  BY <1>1
<1> HIDE DEF u, w
<1>4. Len(u) = Len(w) /\ \A k \in 1 .. Len(u) : u[k] = w[k]
  BY <1>1, <1>2, <1>3
<1>5. u = w
  BY <1>2, <1>3, <1>4, SeqEqual
<1> QED
  BY <1>2, <1>3, <1>5 DEF u, w, b

\* Dropping the last two entries.
LEMMA DropTwoFacts ==
  ASSUME NEW S, NEW s \in Seq(S), Len(s) > 1, NEW b, b = SubSeq(s, 1, Len(s) - 2)
  PROVE  /\ Len(s) - 2 \in Nat /\ b \in Seq(S) /\ Len(b) = Len(s) - 2
         /\ \A k \in 1 .. Len(s) - 2 : b[k] = s[k]
<1> DEFINE m == Len(s) - 2
<1>1. m \in Nat /\ \A k \in 1 .. m : s[k] \in S
  BY ElementOfSeq
<1>2. b \in Seq(S) /\ Len(b) = m /\ \A k \in 1 .. m : b[k] = s[k]
  <2>1. b = SubSeq(s, 1, m)
    OBVIOUS
  <2> HIDE DEF m
  <2>2. /\ SubSeq(s, 1, m) \in Seq(S)
        /\ Len(SubSeq(s, 1, m)) = IF 1 <= m THEN m - 1 + 1 ELSE 0
        /\ \A k \in 1 .. m - 1 + 1 : SubSeq(s, 1, m)[k] = s[1 + k - 1]
    BY <1>1, SubSeqProperties
  <2> QED
    BY <1>1, <2>1, <2>2
<1> QED
  BY <1>1, <1>2

\* Adding two entries.
LEMMA PushTwoFacts ==
  ASSUME NEW S, NEW b \in Seq(S), NEW e \in S, NEW d \in S, NEW u, u = b \o <<e, d>>
  PROVE  /\ u \in Seq(S) /\ Len(u) = Len(b) + 2 /\ u[Len(b) + 1] = e /\ u[Len(b) + 2] = d
         /\ \A k \in 1 .. Len(b) : u[k] = b[k]
<1> DEFINE q == <<e, d>>
           m == Len(b)
<1>1. q \in Seq(S) /\ Len(q) = 2 /\ q[1] = e /\ q[2] = d /\ m \in Nat /\ u = b \o q
  OBVIOUS
<1>2. m = Len(b)
  OBVIOUS
<1> HIDE DEF m, q
<1>3. /\ b \o q \in Seq(S) /\ Len(b \o q) = Len(b) + Len(q)
      /\ \A i \in 1 .. Len(b) + Len(q) :
           (b \o q)[i] = IF i <= Len(b) THEN b[i] ELSE q[i - Len(b)]
  BY <1>1, ConcatProperties
<1>4. /\ m + 1 \in 1 .. m + 2 /\ ~(m + 1 <= m) /\ m + 1 - m = 1
      /\ m + 2 \in 1 .. m + 2 /\ ~(m + 2 <= m) /\ m + 2 - m = 2
      /\ \A k \in 1 .. m : k \in 1 .. m + 2 /\ k <= m
  BY <1>1
<1>5. /\ u \in Seq(S) /\ Len(u) = m + 2 /\ u[m + 1] = e /\ u[m + 2] = d
      /\ \A k \in 1 .. m : u[k] = b[k]
  BY <1>1, <1>2, <1>3, <1>4
<1> QED
  BY <1>2, <1>5

\* Levels that agree on what LevelRight reads.
Alike(a, b) ==
  a.set = b.set /\ a.units = b.units /\ a.todo = b.todo /\ a.connected = b.connected /\ a.cut = b.cut

LEMMA LevelSame ==
  ASSUME NEW s, NEW as, NEW k \in Nat \ {0}, LevelRight(s, as, k),
         NEW t, NEW bs,
         \A j \in 1 .. k : Alike(t[j], s[j]),
         \A j \in 1 .. k - 1 : bs[j] = as[j]
  PROVE  LevelRight(t, bs, k)
<1>1. Alike(t[k], s[k]) /\ (k > 1 => Alike(t[k - 1], s[k - 1]) /\ bs[k - 1] = as[k - 1])
  <2>1. k \in 1 .. k /\ (k > 1 => k - 1 \in 1 .. k /\ k - 1 \in 1 .. k - 1)
    OBVIOUS
  <2> QED
    BY <2>1
<1>2. \A j \in 1 .. k : t[j].units = s[j].units
  BY DEF Alike
<1> QED
  BY <1>1, <1>2 DEF LevelRight, Alike

-----------------------------------------------------------------------------
(* What the invariant says of the innermost calls.                         *)

LEMMA StateFacts ==
  ASSUME IInv
  PROVE  /\ Len(stack) \in Nat \ {0} /\ stack # <<>>
         /\ Len(assumptions) = Len(stack) - 1
         /\ \E V : stack \in Seq(Level(V)) /\ \A k \in 1 .. Len(stack) : stack[k] \in Level(V)
         /\ Assumed \in SUBSET Literal
<1>1. PICK V : stack \in Seq(Level(V))
  BY DEF IInv, Typed
<1>2. Len(assumptions) \in Nat /\ Len(stack) = Len(assumptions) + 1
  BY DEF IInv, Typed
<1>3. stack # <<>>
  BY <1>2, EmptySeq
<1>4. \A k \in 1 .. Len(stack) : stack[k] \in Level(V)
  BY <1>1, ElementOfSeq
<1>5. Assumed \in SUBSET Literal
  BY ElementOfSeq DEF IInv, Typed, Assumed
<1> QED
  BY <1>1, <1>2, <1>3, <1>4, <1>5

\* The units of two calls are over different variables.
LEMMA UnitsApart ==
  ASSUME IInv, NEW k \in 1 .. Len(stack), NEW j \in 1 .. k - 1
  PROVE  VarsOf(stack[j].units) \cap VarsOf(stack[k].units) = {}
<1>1. Len(stack) \in Nat /\ k - 1 \in 1 .. Len(stack) /\ k > 1
  BY StateFacts
<1>2. /\ VarsOf(stack[k].units) \subseteq stack[k].set
      /\ stack[k].set = stack[k - 1].connected
  BY <1>1 DEF IInv, Nested, LevelRight
<1>3. stack[k - 1].connected \cap VarsOf(stack[j].units) = {}
  BY <1>1 DEF IInv, Nested, LevelRight
<1> QED
  BY <1>2, <1>3

\* Literals with no variable in common are different ones.
LEMMA VarsApart ==
  ASSUME NEW A, NEW B, VarsOf(A) \cap VarsOf(B) = {}
  PROVE  A \cap B = {}
BY DEF VarsOf

-----------------------------------------------------------------------------
(* The first state and each step.                                          *)

LEMMA InitRight ==
  ASSUME Init
  PROVE  IInv
<1> DEFINE V == {0, 1}
           l == NewLevel(Var, {})
<1>1. l \in Level(V)
  BY DEF NewLevel, Level
<1>2. l.set = Var /\ l.units = {} /\ l.todo = {} /\ l.connected = {} /\ l.cut = {}
  BY DEF NewLevel
<1>3. stack = <<l>> /\ assumptions = <<>> /\ occ = {} /\ pc = "solve" /\ fixed \in TrailsFrom({}, {})
  BY DEF Init, InitSearch
<1> HIDE DEF l
<1>4. stack \in Seq(Level(V)) /\ Len(stack) = 1 /\ stack[1] = l /\ Len(assumptions) = 0
  BY <1>1, <1>3
<1>5. Typed
  <2>1. fixed \in SUBSET Literal
    BY <1>3, TrailFacts
  <2> HIDE DEF V
  <2> QED
    BY <1>3, <1>4, <2>1 DEF Typed
<1>6. Nested
  <2>1. LevelRight(stack, assumptions, 1)
    BY <1>2, <1>4 DEF LevelRight, VarsOf
  <2> QED
    BY <1>4, <2>1 DEF Nested
<1>7. OccExact
  <2>1. Active = 1
    BY <1>3, <1>4 DEF Active
  <2>2. UnitsOf(stack, 1) = {}
    BY <1>2, <1>4 DEF UnitsOf
  <2> QED
    BY <1>3, <2>1, <2>2 DEF OccExact
<1>8. FreshExact
  BY <1>2, <1>4 DEF FreshExact, Top
<1> QED
  BY <1>5, <1>6, <1>7, <1>8 DEF IInv

\* The steps that leave the calls and their units alone.
LEMMA SameStackStep ==
  ASSUME IInv, SolveUnsat \/ SkipPartition \/ Finish \/ UNCHANGED vars
  PROVE  IInv'
<1>1. UNCHANGED <<fixed, assumptions, occ, stack>>
  BY DEF SolveUnsat, SkipPartition, Finish, vars
<1>2. Typed'
  BY <1>1 DEF IInv, Typed, SolveUnsat, SkipPartition, Finish, vars
<1>3. Nested'
  BY <1>1 DEF IInv, Nested
<1>4. OccExact'
  <2>1. CASE SolveUnsat
    <3>1. Len(stack) \in Nat \ {0} /\ stack[Len(stack)].units = {}
      BY <2>1, StateFacts DEF IInv, FreshExact, SolveUnsat, Top
    <3>2. Active = Len(stack) /\ Active' = Len(stack) - 1
      BY <1>1, <2>1 DEF SolveUnsat, Active
    <3>3. UnitsOf(stack, Len(stack)) = UnitsOf(stack, Len(stack) - 1)
      BY <3>1 DEF UnitsOf
    <3> QED
      BY <1>1, <3>2, <3>3 DEF IInv, OccExact
  <2>2. CASE ~SolveUnsat
    <3>1. Active' = Active
      BY <1>1, <2>2 DEF SkipPartition, Finish, vars, Active
    <3> QED
      BY <1>1, <3>1 DEF IInv, OccExact
  <2> QED
    BY <2>1, <2>2
<1>5. FreshExact'
  BY <1>1 DEF IInv, FreshExact, Top, SolveUnsat, SkipPartition, Finish, vars
<1> QED
  BY <1>2, <1>3, <1>4, <1>5 DEF IInv

\* postUpdate takes back what the call gave.
LEMMA EndComponentsStep ==
  ASSUME IInv, EndComponents
  PROVE  IInv'
<1> DEFINE n == Len(stack)
<1>1. /\ UNCHANGED <<fixed, assumptions, stack>> /\ pc = "components" /\ pc' = "return"
      /\ occ' = occ \ stack[n].units
  BY DEF EndComponents, PostUpdate, Top
<1>2. n \in Nat \ {0}
  BY StateFacts
<1>3. Typed'
  BY <1>1 DEF IInv, Typed
<1>4. Nested'
  BY <1>1 DEF IInv, Nested
<1>5. OccExact'
  <2>1. occ = UnitsOf(stack, n)
    BY <1>1 DEF IInv, OccExact, Active
  <2>2. ASSUME NEW k \in 1 .. n - 1
        PROVE  stack[k].units \cap stack[n].units = {}
    <3>1. n \in 1 .. Len(stack) /\ k \in 1 .. n - 1
      BY <1>2
    <3> HIDE DEF n
    <3>2. VarsOf(stack[k].units) \cap VarsOf(stack[n].units) = {}
      BY <3>1, UnitsApart
    <3> QED
      BY <3>2, VarsApart
  <2>3. occ' = UnitsOf(stack, n - 1)
    BY <1>1, <1>2, <2>1, <2>2 DEF UnitsOf
  <2> QED
    BY <1>1, <2>3 DEF OccExact, Active
<1>6. FreshExact'
  BY <1>1 DEF FreshExact
<1> QED
  BY <1>3, <1>4, <1>5, <1>6 DEF IInv

\* What is right below the last places of a stack stays right when those places
\* change.
LEMMA BelowSame ==
  ASSUME NEW s, NEW as, NEW m \in Nat, \A k \in 1 .. m : LevelRight(s, as, k),
         NEW t, NEW bs, \A k \in 1 .. m : Alike(t[k], s[k]), \A k \in 1 .. m - 1 : bs[k] = as[k]
  PROVE  \A k \in 1 .. m : LevelRight(t, bs, k)
<1> SUFFICES ASSUME NEW k \in 1 .. m
             PROVE  LevelRight(t, bs, k)
  OBVIOUS
<1>1. k \in Nat \ {0} /\ LevelRight(s, as, k)
  <2>1. LevelRight(s, as, k)
    BY Zenon
  <2> QED
    BY <2>1
<1>2. ASSUME NEW j \in 1 .. k
      PROVE  Alike(t[j], s[j])
  <2>1. j \in 1 .. m
    OBVIOUS
  <2> QED
    BY <2>1
<1>3. ASSUME NEW j \in 1 .. k - 1
      PROVE  bs[j] = as[j]
  <2>1. j \in 1 .. m - 1
    OBVIOUS
  <2> QED
    BY <2>1
<1> QED
  BY <1>1, <1>2, <1>3, LevelSame

\* What a level that takes the innermost place must be.
Fits(t) ==
  /\ VarsOf(t.units) \subseteq t.set /\ t.cut \subseteq t.connected /\ {} \notin t.todo
  /\ t.set = Top.set
  /\ \A C \in t.todo \cup {t.connected} : C \cap VarsOf(t.units) = {}
  /\ \A j \in 1 .. Len(stack) - 1 : \A C \in t.todo \cup {t.connected} :
       C \cap VarsOf(stack[j].units) = {}
  /\ Len(stack) > 1 /\ t.units # {} => assumptions[Len(stack) - 1] \in t.units

LEMMA TopFits ==
  ASSUME IInv, NEW t, Fits(t), NEW u, Len(u) = Len(stack), u[Len(stack)] = t,
         \A k \in 1 .. Len(stack) - 1 : u[k] = stack[k]
  PROVE  /\ \A k \in 1 .. Len(u) : LevelRight(u, assumptions, k)
         /\ UnitsOf(u, Len(u)) = UnitsOf(stack, Len(stack) - 1) \cup t.units
<1> DEFINE n == Len(stack)
<1>1. n \in Nat \ {0} /\ n = Len(stack)
  BY StateFacts
<1> HIDE DEF n
<1>2. \A k \in 1 .. n - 1 : LevelRight(u, assumptions, k)
  <2>1. n - 1 \in Nat /\ \A k \in 1 .. n - 1 : LevelRight(stack, assumptions, k)
    BY <1>1 DEF IInv, Nested
  <2>2. \A k \in 1 .. n - 1 : Alike(u[k], stack[k])
    BY <1>1 DEF Alike
  <2> QED
    BY <2>1, <2>2, BelowSame
<1>3. LevelRight(u, assumptions, n)
  <2>1. LevelRight(stack, assumptions, n) /\ Top = stack[n]
    BY <1>1 DEF IInv, Nested, Top
  <2>2. n > 1 => u[n - 1] = stack[n - 1]
    BY <1>1
  <2>3. ASSUME NEW j \in 1 .. n
        PROVE  \A C \in t.todo \cup {t.connected} : C \cap VarsOf(u[j].units) = {}
    <3>1. CASE j = n
      BY <1>1, <3>1 DEF Fits
    <3>2. CASE j # n
      <4>1. j \in 1 .. n - 1
        BY <1>1, <3>2
      <4> QED
        BY <1>1, <4>1 DEF Fits
    <3> QED
      BY <3>1, <3>2
  <2>4. n > 1 => /\ t.set = stack[n - 1].connected
                 /\ VarOf(assumptions[n - 1]) \in t.set
                 /\ t.units # {} => assumptions[n - 1] \in t.units
    BY <1>1, <2>1 DEF LevelRight, Fits
  <2>5. /\ u[n] = t /\ VarsOf(t.units) \subseteq t.set /\ t.cut \subseteq t.connected
        /\ {} \notin t.todo
    BY <1>1 DEF Fits
  <2>6. n = 1 => t.set = Var
    BY <2>1 DEF LevelRight, Fits
  <2> QED
    BY <2>2, <2>3, <2>4, <2>5, <2>6 DEF LevelRight
<1>4. \A k \in 1 .. n : k \in 1 .. n - 1 \/ k = n
  BY <1>1
<1>5. UnitsOf(u, n) = UnitsOf(stack, n - 1) \cup t.units
  <2>1. {u[k].units : k \in 1 .. n} = {stack[k].units : k \in 1 .. n - 1} \cup {t.units}
    BY <1>1, <1>4
  <2> QED
    BY <2>1 DEF UnitsOf
<1>6. \A k \in 1 .. n : LevelRight(u, assumptions, k)
  BY <1>2, <1>3, <1>4, Zenon
<1>7. n = Len(u)
  BY <1>1
<1> QED
  BY <1>1, <1>5, <1>6, <1>7

\* The steps that change the innermost call alone.
LEMMA TopStep ==
  ASSUME IInv, NEW W, stack \in Seq(Level(W)), NEW t \in Level(W), Fits(t),
         stack' = [stack EXCEPT ![Len(stack)] = t] \/ stack' = Append(SubSeq(stack, 1, Len(stack) - 1), t),
         UNCHANGED <<fixed, assumptions>>, occ' \in SUBSET Literal,
         pc' \in {"components", "partition", "select"},
         occ' = UnitsOf(stack, Len(stack) - 1) \cup t.units
  PROVE  IInv'
<1>1. PICK u : u = stack'
  OBVIOUS
<1>2. /\ u \in Seq(Level(W)) /\ Len(u) = Len(stack) /\ u[Len(stack)] = t
      /\ \A k \in 1 .. Len(stack) - 1 : u[k] = stack[k]
  <2> DEFINE S == Level(W)
  <2>1. stack \in Seq(S) /\ stack # <<>> /\ t \in S
    BY StateFacts
  <2> HIDE DEF S
  <2>2. u = [stack EXCEPT ![Len(stack)] = t]
    <3>1. Append(SubSeq(stack, 1, Len(stack) - 1), t) = [stack EXCEPT ![Len(stack)] = t]
      BY <2>1, LastFacts
    <3> QED
      BY <1>1, <3>1, Zenon
  <2>3. u \in Seq(S) /\ Len(u) = Len(stack) /\ u[Len(stack)] = t
        /\ \A k \in 1 .. Len(stack) - 1 : u[k] = stack[k]
    BY <2>1, <2>2, LastFacts
  <2> QED
    BY <2>3 DEF S
<1>3. /\ \A k \in 1 .. Len(u) : LevelRight(u, assumptions, k)
      /\ UnitsOf(u, Len(u)) = UnitsOf(stack, Len(stack) - 1) \cup t.units
  BY <1>2, TopFits
<1>4. Typed'
  BY <1>1, <1>2 DEF IInv, Typed
<1>5. Nested'
  BY <1>1, <1>3 DEF Nested
<1>6. OccExact'
  BY <1>1, <1>3 DEF OccExact, Active
<1>7. FreshExact'
  BY DEF FreshExact
<1> QED
  BY <1>4, <1>5, <1>6, <1>7 DEF IInv

\* The innermost call fits, and what is assigned is its units and those below.
LEMMA TopFacts ==
  ASSUME IInv
  PROVE  /\ Fits(Top)
         /\ \E V : stack \in Seq(Level(V)) /\ Top \in Level(V)
         /\ pc \notin {"return", "done"} =>
              occ = UnitsOf(stack, Len(stack) - 1) \cup Top.units
<1> DEFINE n == Len(stack)
<1>1. n \in Nat \ {0} /\ n = Len(stack) /\ Top = stack[n] /\ \A k \in 1 .. n - 1 : k \in 1 .. n
  BY StateFacts DEF Top
<1>2. \E V : stack \in Seq(Level(V)) /\ Top \in Level(V)
  BY <1>1, StateFacts
<1> HIDE DEF n
<1>3. LevelRight(stack, assumptions, n)
  BY <1>1 DEF IInv, Nested
<1>4. Fits(Top)
  <2>1. /\ VarsOf(Top.units) \subseteq Top.set /\ Top.cut \subseteq Top.connected /\ {} \notin Top.todo
        /\ n > 1 /\ Top.units # {} => assumptions[n - 1] \in Top.units
    BY <1>1, <1>3 DEF LevelRight
  <2>2. \A j \in 1 .. n : \A C \in Top.todo \cup {Top.connected} : C \cap VarsOf(stack[j].units) = {}
    BY <1>1, <1>3 DEF LevelRight
  <2>3. n \in 1 .. n
    BY <1>1
  <2>4. /\ \A C \in Top.todo \cup {Top.connected} : C \cap VarsOf(Top.units) = {}
        /\ \A j \in 1 .. n - 1 : \A C \in Top.todo \cup {Top.connected} :
             C \cap VarsOf(stack[j].units) = {}
    BY <1>1, <2>2, <2>3
  <2> QED
    BY <1>1, <2>1, <2>4 DEF Fits
<1>5. ASSUME pc \notin {"return", "done"}
      PROVE  occ = UnitsOf(stack, n - 1) \cup Top.units
  <2>1. occ = UnitsOf(stack, n)
    BY <1>1, <1>5 DEF IInv, OccExact, Active
  <2>2. {stack[k].units : k \in 1 .. n} = {stack[k].units : k \in 1 .. n - 1} \cup {Top.units}
    BY <1>1
  <2> QED
    BY <2>1, <2>2 DEF UnitsOf
<1> QED
  BY <1>1, <1>2, <1>4, <1>5

\* The units are over the call's variables and hold its decision; the
\* components are of what they leave.
LEMMA SolveSatStep ==
  ASSUME IInv, SolveSat
  PROVE  IInv'
<1> DEFINE n == Len(stack)
           units == Over(trail', Top.set)
           free == FreeVariables(OccClauses, Top.set, occ')
           todo == Components(OccClauses, Top.set, occ')
           t == [Top EXCEPT !.units = units, !.free = free, !.todo = todo]
<1>1. /\ pc = "solve" /\ trail' \in Trails /\ occ' = occ \cup units
      /\ stack' = [stack EXCEPT ![n] = t]
      /\ pc' = "components" /\ UNCHANGED <<fixed, assumptions>>
  BY DEF SolveSat, SetTop
<1>2. PICK V : stack \in Seq(Level(V)) /\ Top \in Level(V)
  BY TopFacts
<1>3. /\ n \in Nat \ {0} /\ fixed \in SUBSET Literal /\ occ \in SUBSET Literal
      /\ Assumed \in SUBSET Literal /\ Len(assumptions) = n - 1
  BY StateFacts DEF IInv, Typed
<1>4. trail' \in SUBSET Literal /\ Assumed \subseteq trail'
  BY <1>1, <1>3, TrailFacts DEF Trails
<1>5. units \in SUBSET Literal /\ VarsOf(units) \subseteq Top.set
  BY <1>4 DEF Over, VarsOf
<1>6. occ' \in SUBSET Literal /\ Top.set \in SUBSET Var
  BY <1>1, <1>2, <1>3, <1>5 DEF Level
<1>7. /\ todo \in SUBSET (SUBSET Var) /\ {} \notin todo /\ free \in SUBSET Var
      /\ \A D \in todo : D \cap VarsOf(occ') = {}
  BY <1>6, ComponentsFacts
<1>8. n > 1 => assumptions[n - 1] \in units
  <2>1. ASSUME n > 1
        PROVE  assumptions[n - 1] \in Assumed /\ VarOf(assumptions[n - 1]) \in Top.set
    <3>1. n - 1 \in DOMAIN assumptions
      BY <1>3, <2>1 DEF IInv, Typed
    <3>2. LevelRight(stack, assumptions, n)
      BY <1>3 DEF IInv, Nested
    <3> QED
      BY <2>1, <3>1, <3>2 DEF Assumed, LevelRight, Top
  <2> QED
    BY <1>4, <2>1 DEF Over
<1>9. Top.units = {} /\ Top.connected = {}
  BY <1>1 DEF IInv, FreshExact
<1> HIDE DEF units, todo, free
<1>10. /\ t \in Level(V) /\ t.set = Top.set /\ t.units = units /\ t.todo = todo
       /\ t.connected = Top.connected /\ t.cut = Top.cut
  BY <1>2, <1>5, <1>7 DEF Level
<1> HIDE DEF t
<1>11. occ' = UnitsOf(stack, n - 1) \cup t.units
  BY <1>1, <1>9, <1>10, TopFacts
<1>12. Fits(t)
  <2>1. Fits(Top)
    BY TopFacts
  <2>2. \A S \in SUBSET occ' : \A C \in todo \cup {{}} : C \cap VarsOf(S) = {}
    BY <1>7 DEF VarsOf
  <2>3. ASSUME NEW j \in 1 .. n - 1
        PROVE  stack[j].units \in SUBSET occ'
    BY <1>11 DEF UnitsOf
  <2>4. units \in SUBSET occ'
    BY <1>1
  <2>5. \A C \in t.todo \cup {t.connected} : C \cap VarsOf(t.units) = {}
    BY <1>9, <1>10, <2>2, <2>4
  <2>6. \A j \in 1 .. n - 1 : \A C \in t.todo \cup {t.connected} : C \cap VarsOf(stack[j].units) = {}
    BY <1>9, <1>10, <2>2, <2>3
  <2>7. VarsOf(t.units) \subseteq t.set /\ t.cut \subseteq t.connected /\ {} \notin t.todo
    BY <1>5, <1>7, <1>10, <2>1 DEF Fits
  <2> QED
    BY <1>8, <1>10, <2>5, <2>6, <2>7 DEF Fits
<1> QED
  BY <1>1, <1>2, <1>6, <1>10, <1>11, <1>12, TopStep

\* A component found in the cache is taken off.
LEMMA PositiveHitStep ==
  ASSUME IInv, PositiveHit
  PROVE  IInv'
<1> DEFINE C == NextConnected
           r == Top.ret * cache[Key(OccClauses, C, occ)]
           t == [Top EXCEPT !.todo = @ \ {C}, !.ret = r]
<1>1. /\ pc = "components" /\ stack' = [stack EXCEPT ![Len(stack)] = t]
      /\ UNCHANGED <<fixed, assumptions, occ, pc>>
  BY DEF PositiveHit, SetTop
<1>2. PICK V : stack \in Seq(Level(V)) /\ Top \in Level(V)
  BY TopFacts
<1> DEFINE W == V \cup {r}
<1> HIDE DEF C, r
<1>3. stack \in Seq(Level(W)) /\ Top \in Level(W)
  BY <1>2, LevelGrows
<1>4. /\ t \in Level(W) /\ t.set = Top.set /\ t.units = Top.units /\ t.todo \subseteq Top.todo
      /\ t.connected = Top.connected /\ t.cut = Top.cut
  BY <1>3 DEF Level
<1> HIDE DEF t, W
<1>5. Fits(t)
  BY <1>4, TopFacts DEF Fits
<1>6. occ' = UnitsOf(stack, Len(stack) - 1) \cup t.units
  BY <1>1, <1>4, TopFacts
<1>7. occ' \in SUBSET Literal
  BY <1>1 DEF IInv, Typed
<1> QED
  BY <1>1, <1>3, <1>4, <1>5, <1>6, <1>7, TopStep

\* Otherwise the call counts it, within the priority variables first.
LEMMA NegativeHitStep ==
  ASSUME IInv, NegativeHit
  PROVE  IInv'
<1> DEFINE C == NextConnected
           t == [Top EXCEPT !.todo = @ \ {C}, !.connected = C, !.cut = PrioritySubSet(C)]
<1>1. /\ pc = "components" /\ Top.todo # {} /\ stack' = [stack EXCEPT ![Len(stack)] = t]
      /\ pc' = "partition" /\ UNCHANGED <<fixed, assumptions, occ>>
  BY DEF NegativeHit, SetTop
<1>2. PICK V : stack \in Seq(Level(V)) /\ Top \in Level(V)
  BY TopFacts
<1>3. C \in Top.todo
  BY <1>1, <1>2, NextFacts, TopFacts DEF Level, Fits
<1>4. PrioritySubSet(C) \subseteq C
  BY DEF PrioritySubSet
<1> HIDE DEF C
<1>5. /\ t \in Level(V) /\ t.set = Top.set /\ t.units = Top.units /\ t.todo = Top.todo \ {C}
      /\ t.connected = C /\ t.cut \subseteq C
  BY <1>2, <1>3, <1>4 DEF Level
<1> HIDE DEF t
<1>6. Fits(t)
  BY <1>3, <1>5, TopFacts DEF Fits
<1>7. occ' = UnitsOf(stack, Len(stack) - 1) \cup t.units
  BY <1>1, <1>5, TopFacts
<1>8. occ' \in SUBSET Literal
  BY <1>1 DEF IInv, Typed
<1> QED
  BY <1>1, <1>2, <1>5, <1>6, <1>7, <1>8, TopStep

\* The cut is of the component.
LEMMA ComputePartitionStep ==
  ASSUME IInv, ComputePartition
  PROVE  IInv'
<1>1. PICK cut \in SUBSET Top.connected : stack' = SetTop([Top EXCEPT !.cut = cut])
  BY DEF ComputePartition
<1> DEFINE t == [Top EXCEPT !.cut = cut]
<1>2. /\ pc = "partition" /\ stack' = [stack EXCEPT ![Len(stack)] = t]
      /\ pc' = "select" /\ UNCHANGED <<fixed, assumptions, occ>>
  BY <1>1 DEF ComputePartition, SetTop
<1>3. PICK V : stack \in Seq(Level(V)) /\ Top \in Level(V)
  BY TopFacts
<1>4. /\ t \in Level(V) /\ t.set = Top.set /\ t.units = Top.units /\ t.todo = Top.todo
      /\ t.connected = Top.connected /\ t.cut \subseteq Top.connected
  BY <1>3 DEF Level
<1> HIDE DEF t
<1>5. Fits(t)
  BY <1>4, TopFacts DEF Fits
<1>6. occ' = UnitsOf(stack, Len(stack) - 1) \cup t.units
  BY <1>2, <1>4, TopFacts
<1>7. occ' \in SUBSET Literal
  BY <1>2 DEF IInv, Typed
<1> QED
  BY <1>2, <1>3, <1>4, <1>5, <1>6, <1>7, TopStep

\* A level whose decision node has ended.
LEMMA EndedFacts ==
  ASSUME NEW W, 0 \in W, NEW a \in Level(W), NEW r \in W
  PROVE  LET t == [a EXCEPT !.ret = r, !.connected = {}, !.cut = {}, !.lit = 0, !.pos = 0] IN
         /\ t \in Level(W) /\ t.set = a.set /\ t.units = a.units /\ t.todo = a.todo
         /\ t.connected = {} /\ t.cut = {}
<1> DEFINE b == [a EXCEPT !.ret = r]
           c == [b EXCEPT !.connected = {}]
           d == [c EXCEPT !.cut = {}]
           e == [d EXCEPT !.lit = 0]
           t == [e EXCEPT !.pos = 0]
<1>1. /\ b \in Level(W) /\ b.set = a.set /\ b.units = a.units /\ b.todo = a.todo
  BY DEF Level
<1> HIDE DEF b
<1>2. /\ c \in Level(W) /\ c.set = a.set /\ c.units = a.units /\ c.todo = a.todo
      /\ c.connected = {}
  BY <1>1 DEF Level
<1> HIDE DEF c
<1>3. /\ d \in Level(W) /\ d.set = a.set /\ d.units = a.units /\ d.todo = a.todo
      /\ d.connected = {} /\ d.cut = {}
  BY <1>2 DEF Level
<1> HIDE DEF d
<1>4. /\ e \in Level(W) /\ e.set = a.set /\ e.units = a.units /\ e.todo = a.todo
      /\ e.connected = {} /\ e.cut = {}
  BY <1>3 DEF Level
<1> HIDE DEF e
<1>5. /\ t \in Level(W) /\ t.set = a.set /\ t.units = a.units /\ t.todo = a.todo
      /\ t.connected = {} /\ t.cut = {}
  BY <1>4 DEF Level
<1> QED
  BY <1>5, Zenon DEF b, c, d, e, t

\* With nothing to decide the component counts one.
LEMMA NothingToDecideStep ==
  ASSUME IInv, NothingToDecide
  PROVE  IInv'
<1> DEFINE r == Top.ret * 1
           t == [Top EXCEPT !.ret = r, !.connected = {}, !.cut = {}, !.lit = 0, !.pos = 0]
<1>1. /\ pc = "select" /\ stack' = Append(SubSeq(stack, 1, Len(stack) - 1), t)
      /\ pc' = "components" /\ UNCHANGED <<fixed, assumptions, occ>>
  BY DEF NothingToDecide, EndDecisionNode
<1>2. PICK V : stack \in Seq(Level(V)) /\ Top \in Level(V)
  BY TopFacts
<1> DEFINE W == V \cup {r, 0}
<1> HIDE DEF r
<1>3. stack \in Seq(Level(W)) /\ Top \in Level(W)
  BY <1>2, LevelGrows
<1>4. /\ t \in Level(W) /\ t.set = Top.set /\ t.units = Top.units /\ t.todo = Top.todo
      /\ t.connected = {} /\ t.cut = {}
  <2>1. r \in W /\ 0 \in W
    OBVIOUS
  <2> HIDE DEF W
  <2> QED
    BY <1>3, <2>1, EndedFacts
<1> HIDE DEF t, W
<1>5. Fits(t)
  BY <1>4, TopFacts DEF Fits
<1>6. occ' = UnitsOf(stack, Len(stack) - 1) \cup t.units
  BY <1>1, <1>4, TopFacts
<1>7. occ' \in SUBSET Literal
  BY <1>1 DEF IInv, Typed
<1> QED
  BY <1>1, <1>3, <1>4, <1>5, <1>6, <1>7, TopStep

\* A level just called.
LEMMA BranchFacts ==
  ASSUME NEW V, NEW a \in Level(V), 0 \in V, 1 \in V
  PROVE  /\ Branch(a) \in Level(V)
         /\ Branch(a).set = a.connected /\ Branch(a).units = {} /\ Branch(a).todo = {}
         /\ Branch(a).connected = {} /\ Branch(a).cut = {}
BY DEF Branch, NewLevel, Level

\* The call in place m of s, right as it was, calls the one in place m + 1 of u
\* with the decision bs[m].
Calls(s, as, m, u, bs) ==
  /\ m \in Nat \ {0}
  /\ \A k \in 1 .. m : LevelRight(s, as, k)
  /\ \A k \in 1 .. m : Alike(u[k], s[k])
  /\ \A k \in 1 .. m - 1 : bs[k] = as[k]
  /\ VarOf(bs[m]) \in s[m].connected
  /\ u[m + 1].set = s[m].connected
  /\ u[m + 1].units = {} /\ u[m + 1].todo = {} /\ u[m + 1].connected = {} /\ u[m + 1].cut = {}

LEMMA CallRight ==
  ASSUME NEW s, NEW as, NEW m, NEW u, NEW bs, Calls(s, as, m, u, bs)
  PROVE  /\ \A k \in 1 .. m + 1 : LevelRight(u, bs, k)
         /\ UnitsOf(u, m + 1) = UnitsOf(s, m)
<1> USE DEF Calls
<1>1. \A k \in 1 .. m : LevelRight(u, bs, k)
  BY BelowSame
<1>2. LevelRight(u, bs, m + 1)
  <2>1. u[m].connected = s[m].connected
    BY DEF Alike
  <2>2. m + 1 - 1 = m /\ VarsOf({}) = {}
    BY DEF VarsOf
  <2> QED
    BY <2>1, <2>2 DEF LevelRight
<1>3. /\ \A k \in 1 .. m + 1 : k \in 1 .. m \/ k = m + 1
      /\ \A k \in 1 .. m : k \in 1 .. m + 1
      /\ m + 1 \in 1 .. m + 1
  OBVIOUS
<1>4. UnitsOf(u, m + 1) = UnitsOf(s, m)
  <2>1. \A k \in 1 .. m : u[k].units = s[k].units
    BY DEF Alike
  <2>2. {u[k].units : k \in 1 .. m + 1} = {s[k].units : k \in 1 .. m} \cup {{}}
    BY <1>3, <2>1
  <2> QED
    BY <2>2 DEF UnitsOf
<1> QED
  BY <1>1, <1>2, <1>3, <1>4

\* A decision is of the component: the call that assumes it is on that.
LEMMA SelectVariableStep ==
  ASSUME IInv, SelectVariable
  PROVE  IInv'
<1> DEFINE n == Len(stack)
<1>0. PICK v \in Candidates, phase \in Phases :
        LET l == IF phase THEN v ELSE -v IN
        /\ assumptions' = Append(assumptions, l)
        /\ stack' = Append(SetTop([Top EXCEPT !.lit = l]), Branch(Top))
  BY DEF SelectVariable
<1>1. PICK l \in {v, -v} :
        /\ assumptions' = Append(assumptions, l)
        /\ stack' = Append(SetTop([Top EXCEPT !.lit = l]), Branch(Top))
        /\ pc = "select" /\ pc' = "solve" /\ UNCHANGED <<fixed, occ>>
  BY <1>0 DEF SelectVariable
<1>2. PICK V : stack \in Seq(Level(V)) /\ Top \in Level(V)
  BY TopFacts
<1> DEFINE W == V \cup {0, 1}
           S == Level(W)
           c == [Top EXCEPT !.lit = l]
           b == Branch(Top)
           s == SetTop(c)
           u == Append(s, b)
<1>3. stack \in Seq(S) /\ Top \in S /\ n \in Nat \ {0} /\ stack # <<>> /\ Top = stack[n]
  BY <1>2, LevelGrows, StateFacts DEF Top
<1>4. /\ v \in Top.connected /\ v \in Var
  <2>1. Top.cut \subseteq Top.connected /\ Top.connected \subseteq Var
    BY <1>2, TopFacts DEF Fits, Level
  <2> QED
    BY <2>1 DEF Candidates
<1>5. l \in Literal /\ l \in Int /\ VarOf(l) = v
  BY <1>4, VarFacts
<1>6. c \in S /\ Alike(c, Top)
  BY <1>3, <1>5 DEF Level, Alike
<1>7. /\ b \in S /\ b.set = Top.connected /\ b.units = {} /\ b.todo = {}
      /\ b.connected = {} /\ b.cut = {}
  <2>1. 0 \in W /\ 1 \in W
    OBVIOUS
  <2> HIDE DEF W
  <2> QED
    BY <1>3, <2>1, BranchFacts
<1> HIDE DEF b, c, S
<1>8. s \in Seq(S) /\ Len(s) = n /\ s[n] = c /\ \A k \in 1 .. n - 1 : s[k] = stack[k]
  BY <1>3, <1>6, LastFacts DEF SetTop
<1> HIDE DEF s
<1>9. u \in Seq(S) /\ Len(u) = n + 1 /\ u[n + 1] = b /\ \A k \in 1 .. n : u[k] = s[k]
  BY <1>7, <1>8, PushFacts
<1> DEFINE bs == Append(assumptions, l)
<1>10. /\ Len(assumptions) = n - 1 /\ bs \in Seq(Literal) /\ Len(bs) = n /\ bs[n] = l
       /\ \A k \in 1 .. n - 1 : bs[k] = assumptions[k]
  <2>1. Len(assumptions) = n - 1 /\ assumptions \in Seq(Literal)
    BY StateFacts DEF IInv, Typed
  <2>2. n - 1 + 1 = n
    BY <1>3
  <2> QED
    BY <1>5, <2>1, <2>2, PushFacts
<1>11. stack' = u /\ assumptions' = bs
  BY <1>1 DEF u, s, c, b, bs
<1> HIDE DEF u, bs
<1>12. \A k \in 1 .. n : Alike(u[k], stack[k])
  <2>1. \A k \in 1 .. n : k = n \/ k \in 1 .. n - 1
    BY <1>3
  <2> QED
    BY <1>3, <1>6, <1>8, <1>9, <2>1 DEF Alike
<1>c. Calls(stack, assumptions, n, u, bs)
  <2>1. \A k \in 1 .. n : LevelRight(stack, assumptions, k)
    BY DEF IInv, Nested
  <2>2. VarOf(bs[n]) \in stack[n].connected
    BY <1>3, <1>4, <1>5, <1>10
  <2> HIDE DEF n
  <2> QED
    <3>1. /\ n \in Nat \ {0}
          /\ u[n + 1].set = stack[n].connected /\ u[n + 1].units = {} /\ u[n + 1].todo = {}
          /\ u[n + 1].connected = {} /\ u[n + 1].cut = {}
      BY <1>3, <1>7, <1>9
    <3> QED
      <4>1. \A k \in 1 .. n : Alike(u[k], stack[k])
        BY <1>12
      <4>2. \A k \in 1 .. n - 1 : bs[k] = assumptions[k]
        BY <1>10
      <4>3. \A k \in 1 .. n : LevelRight(stack, assumptions, k)
        BY <2>1
      <4>4. VarOf(bs[n]) \in stack[n].connected
        BY <2>2
      <4> QED
        BY <3>1, <4>1, <4>2, <4>3, <4>4 DEF Calls
<1>13. /\ \A k \in 1 .. n + 1 : LevelRight(u, bs, k)
       /\ UnitsOf(u, n + 1) = UnitsOf(stack, n)
  <2> HIDE DEF n
  <2>1. PICK m, w, ds : m = n /\ w = u /\ ds = bs
    OBVIOUS
  <2>2. Calls(stack, assumptions, m, w, ds)
    BY <1>c, <2>1
  <2>3. /\ \A k \in 1 .. m + 1 : LevelRight(w, ds, k)
        /\ UnitsOf(w, m + 1) = UnitsOf(stack, m)
    BY <2>2, CallRight
  <2> QED
    BY <2>1, <2>3
<1>14. Typed'
  <2>1. \E U : stack' \in Seq(Level(U))
    BY <1>9, <1>11 DEF S
  <2> QED
    BY <1>1, <1>3, <1>9, <1>10, <1>11, <2>1 DEF IInv, Typed
<1>15. Nested'
  BY <1>9, <1>11, <1>13 DEF Nested
<1>16. OccExact'
  BY <1>1, <1>9, <1>11, <1>13 DEF IInv, OccExact, Active
<1>17. FreshExact'
  BY <1>7, <1>9, <1>11 DEF FreshExact, Top
<1> QED
  BY <1>14, <1>15, <1>16, <1>17 DEF IInv

\* What the calls below the innermost one are, when there are some.
LEMMA CallerFacts ==
  ASSUME IInv, Len(stack) > 1
  PROVE  LET m == Len(stack) - 1 IN
         /\ m \in Nat \ {0} /\ m + 1 = Len(stack) /\ Len(assumptions) = m
         /\ Caller = stack[m]
         /\ \A k \in 1 .. m : LevelRight(stack, assumptions, k)
         /\ assumptions[m] \in Literal /\ VarOf(assumptions[m]) \in Caller.connected
         /\ pc = "return" => occ = UnitsOf(stack, m)
<1> DEFINE m == Len(stack) - 1
<1>1. m \in Nat \ {0} /\ m + 1 = Len(stack) /\ Len(assumptions) = m /\ Caller = stack[m]
  BY StateFacts DEF Caller
<1>2. \A k \in 1 .. m + 1 : LevelRight(stack, assumptions, k)
  BY <1>1 DEF IInv, Nested
<1>3. assumptions[m] \in Literal
  BY <1>1 DEF IInv, Typed
<1>4. pc = "return" => occ = UnitsOf(stack, m)
  BY DEF IInv, OccExact, Active
<1> HIDE DEF m
<1>5. LevelRight(stack, assumptions, m + 1) /\ m + 1 > 1 /\ m + 1 - 1 = m
  BY <1>1, <1>2
<1>6. VarOf(assumptions[m]) \in Caller.connected
  BY <1>1, <1>5 DEF LevelRight
<1>7. \A k \in 1 .. m : LevelRight(stack, assumptions, k)
  BY <1>1, <1>2
<1> QED
  BY <1>1, <1>3, <1>4, <1>6, <1>7 DEF m

\* The second branch is called on the same component, with the opposite of the
\* first one's decision.
LEMMA FirstBranchStep ==
  ASSUME IInv, FirstBranchReturns
  PROVE  IInv'
<1> DEFINE m == Len(stack) - 1
           c == [Caller EXCEPT !.pos = value]
           b == Branch(Caller)
           u == CallsBelow \o <<c, b>>
           bs == OtherBranch(assumptions)
<1>1. /\ Len(stack) > 1 /\ pc = "return" /\ pc' = "solve" /\ UNCHANGED <<fixed, occ>>
      /\ assumptions' = bs /\ stack' = u
  BY DEF FirstBranchReturns
<1>2. /\ m \in Nat \ {0} /\ m + 1 = Len(stack) /\ Len(assumptions) = m
      /\ Caller = stack[m]
      /\ \A k \in 1 .. m : LevelRight(stack, assumptions, k)
      /\ assumptions[m] \in Literal /\ VarOf(assumptions[m]) \in Caller.connected
      /\ occ = UnitsOf(stack, m)
  BY <1>1, CallerFacts
<1>3. PICK V : stack \in Seq(Level(V)) /\ \A k \in 1 .. Len(stack) : stack[k] \in Level(V)
  BY StateFacts
<1> DEFINE W == V \cup {0, 1, value}
           S == Level(W)
<1>4. stack \in Seq(S) /\ Caller \in S
  <2>1. m \in 1 .. Len(stack)
    BY <1>2
  <2>2. Caller \in Level(V)
    BY <1>2, <1>3, <2>1
  <2> QED
    BY <1>3, <2>2, LevelGrows
<1>5. c \in S /\ Alike(c, Caller)
  <2>1. value \in W
    OBVIOUS
  <2> HIDE DEF W
  <2> QED
    BY <1>4, <2>1 DEF Level, Alike
<1>6. /\ b \in S /\ b.set = Caller.connected /\ b.units = {} /\ b.todo = {}
      /\ b.connected = {} /\ b.cut = {}
  <2>1. 0 \in W /\ 1 \in W
    OBVIOUS
  <2> HIDE DEF W
  <2> QED
    BY <1>4, <2>1, BranchFacts
<1> HIDE DEF b, c, S
<1>7. /\ u \in Seq(S) /\ Len(u) = m + 1 /\ u[m] = c /\ u[m + 1] = b
      /\ \A k \in 1 .. m - 1 : u[k] = stack[k]
  <2>1. PICK below : below = SubSeq(stack, 1, Len(stack) - 2)
    OBVIOUS
  <2>2. /\ below \in Seq(S) /\ Len(below) = m - 1
        /\ \A k \in 1 .. m - 1 : below[k] = stack[k]
    <3>1. Len(stack) - 2 = m - 1
      BY <1>2
    <3>2. /\ below \in Seq(S) /\ Len(below) = Len(stack) - 2
          /\ \A k \in 1 .. Len(stack) - 2 : below[k] = stack[k]
      BY <1>1, <1>4, <2>1, DropTwoFacts
    <3> HIDE DEF m
    <3> QED
      BY <3>1, <3>2
  <2>3. u = below \o <<c, b>>
    BY <2>1 DEF CallsBelow
  <2>4. m - 1 + 1 = m /\ m - 1 + 2 = m + 1
    BY <1>2
  <2> HIDE DEF u, m
  <2>5. PICK w : w = u
    OBVIOUS
  <2>6. /\ w \in Seq(S) /\ Len(w) = Len(below) + 2
        /\ w[Len(below) + 1] = c /\ w[Len(below) + 2] = b
        /\ \A k \in 1 .. Len(below) : w[k] = below[k]
    BY <1>5, <1>6, <2>2, <2>3, <2>5, PushTwoFacts
  <2> QED
    BY <2>2, <2>4, <2>5, <2>6
<1>8. /\ bs \in Seq(Literal) /\ Len(bs) = m /\ bs[m] = -assumptions[m]
      /\ \A k \in 1 .. m - 1 : bs[k] = assumptions[k]
  <2>1. assumptions \in Seq(Literal) /\ -assumptions[m] \in Literal
    BY <1>2, VarFacts DEF IInv, Typed
  <2>2. bs = [assumptions EXCEPT ![m] = -assumptions[m]]
    BY <1>2 DEF OtherBranch
  <2> HIDE DEF m, bs
  <2> QED
    BY <1>2, <2>1, <2>2
<1>9. PICK n, w, ds : n = m /\ w = u /\ ds = bs
  OBVIOUS
<1> HIDE DEF u, bs, m
<1>10. Calls(stack, assumptions, n, w, ds)
  <2>1. \A k \in 1 .. m : Alike(u[k], stack[k])
    <3>1. \A k \in 1 .. m : k = m \/ k \in 1 .. m - 1
      BY <1>2
    <3> QED
      BY <1>2, <1>5, <1>7, <3>1 DEF Alike
  <2>2. VarOf(bs[m]) \in stack[m].connected
    BY <1>2, <1>8, VarFacts
  <2> QED
    BY <1>2, <1>6, <1>7, <1>8, <1>9, <2>1, <2>2 DEF Calls
<1>11. /\ \A k \in 1 .. n + 1 : LevelRight(w, ds, k)
       /\ UnitsOf(w, n + 1) = UnitsOf(stack, n)
  BY <1>10, CallRight
<1>12. stack' = w /\ assumptions' = ds /\ Len(w) = n + 1
  BY <1>1, <1>7, <1>9
<1>13. Typed'
  <2>1. \E U : stack' \in Seq(Level(U))
    BY <1>1, <1>7 DEF S
  <2> QED
    BY <1>1, <1>2, <1>7, <1>8, <2>1 DEF IInv, Typed
<1>14. Nested'
  BY <1>11, <1>12 DEF Nested
<1>15. OccExact'
  <2>1. UnitsOf(w, n + 1) = occ
    BY <1>2, <1>9, <1>11
  <2>2. Active' = n + 1
    BY <1>1, <1>12 DEF Active
  <2> QED
    BY <1>1, <1>12, <2>1, <2>2 DEF OccExact
<1>16. FreshExact'
  BY <1>1, <1>6, <1>7 DEF FreshExact, Top
<1> QED
  BY <1>13, <1>14, <1>15, <1>16 DEF IInv

\* The call in place m of s, right as it was, has no decision node any more in u.
Ended(s, as, m, u) ==
  /\ m \in Nat \ {0}
  /\ \A k \in 1 .. m : LevelRight(s, as, k)
  /\ \A k \in 1 .. m - 1 : u[k] = s[k]
  /\ u[m].set = s[m].set /\ u[m].units = s[m].units /\ u[m].todo = s[m].todo
  /\ u[m].connected = {} /\ u[m].cut = {}

LEMMA EndRight ==
  ASSUME NEW s, NEW as, NEW m, NEW u, Ended(s, as, m, u)
  PROVE  /\ \A k \in 1 .. m : LevelRight(u, as, k)
         /\ UnitsOf(u, m) = UnitsOf(s, m)
<1> USE DEF Ended
<1>1. /\ \A k \in 1 .. m : k = m \/ k \in 1 .. m - 1
      /\ \A k \in 1 .. m - 1 : k \in 1 .. m
      /\ m \in 1 .. m /\ m - 1 \in Nat
  OBVIOUS
<1>2. \A k \in 1 .. m : u[k].units = s[k].units
  BY <1>1
<1>3. LevelRight(u, as, m)
  <2>1. LevelRight(s, as, m)
    BY <1>1, Zenon
  <2>2. m > 1 => u[m - 1] = s[m - 1]
    OBVIOUS
  <2>3. \A j \in 1 .. m : \A C \in u[m].todo \cup {u[m].connected} : C \cap VarsOf(u[j].units) = {}
    BY <1>2, <2>1 DEF LevelRight
  <2> QED
    BY <2>1, <2>2, <2>3 DEF LevelRight
<1>4. \A k \in 1 .. m - 1 : LevelRight(u, as, k)
  <2>1. m - 1 \in Nat /\ \A k \in 1 .. m - 1 : LevelRight(s, as, k)
    BY <1>1, Zenon
  <2>2. \A k \in 1 .. m - 1 : Alike(u[k], s[k])
    BY DEF Alike
  <2> QED
    BY <2>1, <2>2, BelowSame
<1>5. \A k \in 1 .. m : LevelRight(u, as, k)
  BY <1>1, <1>3, <1>4, Zenon
<1>6. UnitsOf(u, m) = UnitsOf(s, m)
  BY <1>2 DEF UnitsOf
<1> QED
  BY <1>5, <1>6

\* The decision node ends; its units, the call's, stay.
LEMMA SecondBranchStep ==
  ASSUME IInv, SecondBranchReturns
  PROVE  IInv'
<1> DEFINE m == Len(stack) - 1
           r == Caller.ret * (value + Caller.pos)
           t == [Caller EXCEPT !.ret = r, !.connected = {}, !.cut = {}, !.lit = 0, !.pos = 0]
<1>1. /\ Len(stack) > 1 /\ pc = "return" /\ pc' = "components" /\ UNCHANGED <<fixed, occ>>
      /\ assumptions' = SubSeq(assumptions, 1, Len(assumptions) - 1)
      /\ stack' = Append(SubSeq(stack, 1, Len(stack) - 2), t)
  BY DEF SecondBranchReturns, EndDecisionNode, CallsBelow
<1>2. /\ m \in Nat \ {0} /\ m + 1 = Len(stack) /\ Len(assumptions) = m
      /\ Caller = stack[m]
      /\ \A k \in 1 .. m : LevelRight(stack, assumptions, k)
      /\ occ = UnitsOf(stack, m)
  BY <1>1, CallerFacts
<1>3. PICK V : stack \in Seq(Level(V)) /\ \A k \in 1 .. Len(stack) : stack[k] \in Level(V)
  BY StateFacts
<1> HIDE DEF r
<1> DEFINE W == V \cup {r, 0}
           S == Level(W)
<1>4. stack \in Seq(S) /\ Caller \in S
  <2>1. m \in 1 .. Len(stack)
    BY <1>2
  <2>2. Caller \in Level(V)
    BY <1>2, <1>3, <2>1
  <2> QED
    BY <1>3, <2>2, LevelGrows
<1>5. /\ t \in S /\ t.set = Caller.set /\ t.units = Caller.units /\ t.todo = Caller.todo
      /\ t.connected = {} /\ t.cut = {}
  <2>1. r \in W /\ 0 \in W
    OBVIOUS
  <2> HIDE DEF W
  <2> QED
    BY <1>4, <2>1, EndedFacts
<1> HIDE DEF t, S
<1>6. PICK u : u = stack'
  OBVIOUS
<1>7. u \in Seq(S) /\ Len(u) = m /\ u[m] = t /\ \A k \in 1 .. m - 1 : u[k] = stack[k]
  <2>1. PICK below : below = SubSeq(stack, 1, Len(stack) - 2)
    OBVIOUS
  <2>2. /\ below \in Seq(S) /\ Len(below) = m - 1
        /\ \A k \in 1 .. m - 1 : below[k] = stack[k]
    <3>1. Len(stack) - 2 = m - 1
      BY <1>2
    <3>2. /\ below \in Seq(S) /\ Len(below) = Len(stack) - 2
          /\ \A k \in 1 .. Len(stack) - 2 : below[k] = stack[k]
      BY <1>1, <1>4, <2>1, DropTwoFacts
    <3> HIDE DEF m
    <3> QED
      BY <3>1, <3>2
  <2>3. u = Append(below, t)
    BY <1>1, <1>6, <2>1
  <2>4. m - 1 + 1 = m
    BY <1>2
  <2> HIDE DEF m
  <2> QED
    BY <1>5, <2>2, <2>3, <2>4, PushFacts
<1>8. PICK bs : bs = assumptions'
  OBVIOUS
<1>9. bs \in Seq(Literal) /\ Len(bs) = m - 1 /\ \A k \in 1 .. m - 1 : bs[k] = assumptions[k]
  <2>1. assumptions \in Seq(Literal) /\ assumptions # <<>>
    BY <1>2, EmptySeq DEF IInv, Typed
  <2> HIDE DEF m
  <2> QED
    BY <1>1, <1>2, <1>8, <2>1, PopFacts
<1>10. PICK n : n = m
  OBVIOUS
<1> HIDE DEF m
<1>11. /\ \A k \in 1 .. n : LevelRight(u, assumptions, k)
       /\ UnitsOf(u, n) = UnitsOf(stack, n)
  <2>1. n \in Nat \ {0} /\ \A k \in 1 .. n - 1 : u[k] = stack[k]
    BY <1>2, <1>7, <1>10
  <2>2. \A k \in 1 .. n : LevelRight(stack, assumptions, k)
    BY <1>2, <1>10
  <2>3. /\ u[n].set = stack[n].set /\ u[n].units = stack[n].units /\ u[n].todo = stack[n].todo
        /\ u[n].connected = {} /\ u[n].cut = {}
    BY <1>2, <1>5, <1>7, <1>10
  <2>4. Ended(stack, assumptions, n, u)
    BY <2>1, <2>2, <2>3 DEF Ended
  <2> QED
    BY <2>4, EndRight
<1>12. \A k \in 1 .. n : LevelRight(u, bs, k)
  BY <1>2, <1>9, <1>10, <1>11, BelowSame DEF Alike
<1>13. Typed'
  <2>1. \E U : stack' \in Seq(Level(U))
    BY <1>6, <1>7 DEF S
  <2>2. Len(stack') = Len(assumptions') + 1
    BY <1>2, <1>6, <1>7, <1>8, <1>9
  <2> QED
    BY <1>1, <1>8, <1>9, <2>1, <2>2 DEF IInv, Typed
<1>14. Nested'
  BY <1>6, <1>7, <1>8, <1>10, <1>12 DEF Nested
<1>15. OccExact'
  <2>1. Active' = n
    BY <1>1, <1>6, <1>7, <1>10 DEF Active
  <2>2. UnitsOf(u, n) = occ
    BY <1>2, <1>10, <1>11
  <2> QED
    BY <1>1, <1>6, <2>1, <2>2 DEF OccExact
<1>16. FreshExact'
  BY <1>1 DEF FreshExact
<1> QED
  BY <1>13, <1>14, <1>15, <1>16 DEF IInv

-----------------------------------------------------------------------------
(* The theorem.                                                            *)

\* The invariant holds in every state of the search.
THEOREM SearchCorrect == Spec => []IInv
<1>1. Init => IInv
  BY InitRight
<1>2. IInv /\ [Next]_vars => IInv'
  <2> SUFFICES ASSUME IInv, [Next]_vars
               PROVE  IInv'
    OBVIOUS
  <2>1. CASE SolveUnsat \/ SkipPartition \/ Finish \/ UNCHANGED vars
    BY <2>1, SameStackStep
  <2>2. CASE SolveSat
    BY <2>2, SolveSatStep
  <2>3. CASE PositiveHit
    BY <2>3, PositiveHitStep
  <2>4. CASE NegativeHit
    BY <2>4, NegativeHitStep
  <2>5. CASE EndComponents
    BY <2>5, EndComponentsStep
  <2>6. CASE ComputePartition
    BY <2>6, ComputePartitionStep
  <2>7. CASE SelectVariable
    BY <2>7, SelectVariableStep
  <2>8. CASE NothingToDecide
    BY <2>8, NothingToDecideStep
  <2>9. CASE FirstBranchReturns
    BY <2>9, FirstBranchStep
  <2>10. CASE SecondBranchReturns
    BY <2>10, SecondBranchStep
  <2> QED
    BY <2>1, <2>2, <2>3, <2>4, <2>5, <2>6, <2>7, <2>8, <2>9, <2>10 DEF Next
<1> QED
  BY <1>1, <1>2, PTL DEF Spec

\* Invariant: what the occurrence manager has assigned is the units of the calls
\* that have not returned, each literal given by one of them; the decision a
\* call was made with is one of its units (ModelCounter::computeNbModel_,
\* preUpdate and postUpdate).
THEOREM UnitsCorrect == Spec => []UnitsPaired
<1>1. IInv => UnitsPaired
  <2> SUFFICES ASSUME IInv
               PROVE  UnitsPaired
    OBVIOUS
  <2>1. Len(stack) \in Nat /\ DOMAIN stack = 1 .. Len(stack)
    BY StateFacts
  <2>2. occ = UNION {stack[k].units : k \in 1 .. (IF pc \in {"return", "done"} THEN Len(stack) - 1
                                                                         ELSE Len(stack))}
    BY DEF IInv, OccExact, Active, UnitsOf
  <2>3. ASSUME NEW k \in 1 .. Len(stack), NEW j \in 1 .. k - 1
        PROVE  stack[j].units \cap stack[k].units = {}
    <3>1. VarsOf(stack[j].units) \cap VarsOf(stack[k].units) = {}
      BY UnitsApart
    <3> QED
      BY <3>1, VarsApart
  <2>4. ASSUME NEW j \in 1 .. Len(stack), NEW k \in 1 .. Len(stack), j # k
        PROVE  stack[j].units \cap stack[k].units = {}
    <3>1. j \in 1 .. k - 1 \/ k \in 1 .. j - 1
      BY <2>1, <2>4
    <3>2. CASE j \in 1 .. k - 1
      BY <2>3, <3>2
    <3>3. CASE k \in 1 .. j - 1
      <4>1. stack[k].units \cap stack[j].units = {}
        BY <2>3, <3>3
      <4> QED
        BY <4>1
    <3> QED
      BY <3>1, <3>2, <3>3
  <2>5. ASSUME NEW k \in 2 .. Len(stack)
        PROVE  stack[k].units # {} => assumptions[k - 1] \in stack[k].units
    <3>1. k \in 1 .. Len(stack) /\ k > 1
      BY <2>1
    <3> QED
      BY <3>1 DEF IInv, Nested, LevelRight
  <2> QED
    BY <2>1, <2>2, <2>4, <2>5 DEF UnitsPaired
<1> QED
  BY <1>1, SearchCorrect, PTL

-----------------------------------------------------------------------------
(* The assignments and the models.                                         *)

\* An assignment of C gives each variable of C one sign.
LEMMA AssignmentFacts ==
  ASSUME NEW C \in SUBSET Var, NEW m \in Assignments(C)
  PROVE  /\ m \in SUBSET Literal /\ ~Conflicting(m)
         /\ \A l \in m : VarOf(l) \in C
         /\ \A l \in Literal : VarOf(l) \in C => l \in m \/ -l \in m
<1>1. PICK b \in [C -> BOOLEAN] : m = {IF b[v] THEN v ELSE -v : v \in C}
  BY DEF Assignments
<1>2. \A l \in m : \E v \in C : l = IF b[v] THEN v ELSE -v
  BY <1>1
<1>3. \A v \in C : v \in Nat \ {0} /\ (IF b[v] THEN v ELSE -v) \in m
  BY <1>1, VarFacts
<1>4. ASSUME NEW l \in m
      PROVE  l \in Literal /\ VarOf(l) \in C /\ -l \notin m
  <2>1. PICK v \in C : l = IF b[v] THEN v ELSE -v
    BY <1>2
  <2>2. l \in Literal /\ VarOf(l) = v
    BY <2>1, VarFacts
  <2>3. ASSUME -l \in m
        PROVE  FALSE
    <3>1. PICK w \in C : -l = IF b[w] THEN w ELSE -w
      BY <1>2, <2>3
    <3>2. v \in Int /\ v > 0 /\ w \in Int /\ w > 0
      BY <1>3
    <3>3. w = v
      <4>1. VarOf(-l) = w /\ VarOf(-l) = v
        BY <2>2, <3>1, VarFacts
      <4> QED
        BY <4>1
    <3>4. l = -l
      BY <2>1, <3>1, <3>3
    <3> QED
      BY <2>1, <3>2, <3>4
  <2> QED
    BY <2>2, <2>3
<1>5. ASSUME NEW l \in Literal, VarOf(l) \in C
      PROVE  l \in m \/ -l \in m
  <2>1. l \in Int /\ (l = VarOf(l) \/ -l = VarOf(l)) /\ (l = VarOf(l) \/ l = -VarOf(l))
    BY VarFacts DEF VarOf
  <2>2. -(-l) = l
    BY <2>1
  <2>3. (IF b[VarOf(l)] THEN VarOf(l) ELSE -VarOf(l)) \in m
    BY <1>3, <1>5
  <2> QED
    BY <2>1, <2>2, <2>3
<1> QED
  BY <1>4, <1>5 DEF Conflicting

\* And these facts make an assignment.
LEMMA IsAssignment ==
  ASSUME NEW C \in SUBSET Var, NEW m \in SUBSET Literal, ~Conflicting(m),
         \A l \in m : VarOf(l) \in C,
         \A v \in C : v \in m \/ -v \in m
  PROVE  m \in Assignments(C)
<1> DEFINE b == [v \in C |-> v \in m]
<1>1. b \in [C -> BOOLEAN]
  OBVIOUS
<1>2. ASSUME NEW l \in m
      PROVE  VarOf(l) \in C /\ l = IF b[VarOf(l)] THEN VarOf(l) ELSE -VarOf(l)
  <2>1. VarOf(l) \in C /\ l \in Int /\ -l \notin m
    BY VarFacts DEF Conflicting
  <2>2. CASE l > 0
    BY <2>1, <2>2 DEF VarOf
  <2>3. CASE ~(l > 0)
    <3>1. VarOf(l) = -l /\ -VarOf(l) = l
      BY <2>1, <2>3 DEF VarOf
    <3> QED
      BY <2>1, <3>1
  <2> QED
    BY <2>2, <2>3
<1>3. ASSUME NEW v \in C
      PROVE  (IF b[v] THEN v ELSE -v) \in m
  OBVIOUS
<1> DEFINE s(v) == IF b[v] THEN v ELSE -v
<1>4. m = {s(v) : v \in C}
  <2>1. (\A l \in m : \E v \in C : l = s(v)) /\ \A v \in C : s(v) \in m
    BY <1>2, <1>3
  <2> HIDE DEF s
  <2> QED
    BY <2>1
<1> QED
  BY <1>1, <1>4 DEF Assignments

-----------------------------------------------------------------------------
(* What propagation finds.                                                 *)

\* A model is an assignment that satisfies each clause.
LEMMA ModelFacts ==
  ASSUME NEW M \in Models
  PROVE  /\ M \in SUBSET Literal /\ ~Conflicting(M)
         /\ \A l \in Literal : l \in M \/ -l \in M
         /\ \A c \in Clauses : c \cap M # {}
<1>1. M \in Assignments(Var) /\ \A c \in Clauses : c \cap M # {}
  BY DEF Models, ModelsOver
<1> QED
  BY <1>1, AssignmentFacts, VarFacts

\* It has no more literals than there are variables.
LEMMA ModelSize ==
  ASSUME NEW M \in Models
  PROVE  IsFiniteSet(M) /\ Cardinality(M) <= Cardinality(Var)
<1> DEFINE f == [l \in M |-> VarOf(l)]
<1>1. /\ M \in SUBSET Literal /\ ~Conflicting(M)
  BY ModelFacts
<1>2. f \in [M -> Var]
  BY <1>1, VarFacts
<1>3. ASSUME NEW l \in M, NEW k \in M, VarOf(l) = VarOf(k)
      PROVE  l = k
  <2>1. l \in Int /\ k \in Int /\ k # -l
    BY <1>1, VarFacts DEF Conflicting
  <2> QED
    BY <1>3, <2>1 DEF VarOf
<1>4. f \in Injection(M, Var)
  BY <1>2, <1>3 DEF Injection, IsInjective
<1> QED
  BY <1>4, VarAssumption, FS_Injection

LEMMA ConsequencesFacts ==
  ASSUME NEW T \in SUBSET Literal
  PROVE  Consequences[T] \in SUBSET Literal /\ T \subseteq Consequences[T]
BY DEF Consequences

\* A clause whose other literals are all false gives its last one.
LEMMA ConsequenceFound ==
  ASSUME NEW T \in SUBSET Literal, NEW c \in Clauses, NEW l \in c, Negated(c \ {l}) \subseteq T
  PROVE  l \in Consequences[T]
<1>1. l \in Literal
  BY ClausesAssumption
<1>2. l \in {k \in Literal : \E e \in Clauses : k \in e /\ Negated(e \ {k}) \subseteq T}
  BY <1>1
<1> QED
  BY <1>2, Zenon DEF Consequences

\* What is found from literals of a model is of the model.
LEMMA ConsequencesSound ==
  ASSUME NEW M \in Models, NEW T \in SUBSET M
  PROVE  Consequences[T] \subseteq M
<1>1. M \in SUBSET Literal /\ T \in SUBSET Literal
  BY ModelFacts
<1>2. ASSUME NEW l \in Literal, NEW c \in Clauses, l \in c, Negated(c \ {l}) \subseteq T
      PROVE  l \in M
  <2>1. PICK k \in c : k \in M
    BY ModelFacts
  <2>2. k # l => -k \in M
    BY <1>2, <2>1 DEF Negated
  <2> QED
    BY <2>1, <2>2, ModelFacts DEF Conflicting
<1> QED
  BY <1>1, <1>2 DEF Consequences

\* Propagation from literals of a model stays in it and leaves nothing to find:
\* each round but the last assigns a variable more.
LEMMA PropagateModel ==
  ASSUME NEW M \in Models, NEW X \in SUBSET M
  PROVE  Propagate[X] \subseteq M /\ Consequences[Propagate[X]] = Propagate[X]
<1>1. M \in SUBSET Literal /\ X \in SUBSET Literal
  BY ModelFacts
<1>2. \A T \in SUBSET M : T \subseteq Consequences[T] /\ Consequences[T] \subseteq M
  BY <1>1, ConsequencesFacts, ConsequencesSound
<1> DEFINE F == Consequences
           N == Cardinality(Var)
<1>3. Repeated(F, X, N) \in {T \in SUBSET M : F[T] = T}
  <2>1. N \in Nat /\ IsFiniteSet(M) /\ Cardinality(M) <= N
    BY VarFacts, ModelSize
  <2>2. \A T \in SUBSET M : T \subseteq F[T] /\ F[T] \subseteq M
    BY <1>2
  <2> HIDE DEF F, N
  <2> QED
    BY <2>1, <2>2, TurnsClose
<1>4. Propagate[X] \in {T \in SUBSET M : Consequences[T] = T}
  BY <1>1, <1>3 DEF Propagate, Repeated, Turn
<1> QED
  BY <1>4

\* Propagation finds at least what one round does.
LEMMA PropagateOnce ==
  ASSUME NEW X \in SUBSET Literal, Var # {}
  PROVE  Consequences[X] \subseteq Propagate[X]
<1> DEFINE F == Consequences
           N == Cardinality(Var)
           P == {T \in SUBSET Literal : Consequences[X] \subseteq T}
<1>1. Repeated(F, X, N) \in P
  <2>1. N \in Nat \ {0}
    BY VarFacts, VarAssumption, FS_EmptySet
  <2>2. F[X] \in P /\ \A T \in P : F[T] \in P
    BY ConsequencesFacts
  <2> HIDE DEF F, N, P
  <2> QED
    BY <2>1, <2>2, TurnsHold
<1>2. Propagate[X] \in P
  BY <1>1 DEF Propagate, Repeated, Turn
<1> QED
  BY <1>2

LEMMA ImpliedFacts ==
  ASSUME NEW S \in SUBSET Literal
  PROVE  /\ Implied[S] \in SUBSET Literal
         /\ \A M \in Models : S \subseteq M => Implied[S] \subseteq M
         /\ \A l \in Literal : (\A M \in Models : S \subseteq M => l \in M) => l \in Implied[S]
BY DEF Implied

\* What the solver has assigned is of every model of what it assumed, learnt
\* and was left by the calls before, and propagation has nothing to add.
LEMMA TrailModel ==
  ASSUME NEW known \in SUBSET Literal, NEW S \in SUBSET Literal, NEW K \in TrailsFrom(known, S),
         NEW M \in Models, S \cup known \subseteq M
  PROVE  K \subseteq M /\ known \subseteq K /\ Consequences[K] = K
<1> DEFINE least == Propagate[S \cup known]
<1>1. least \subseteq M /\ Consequences[least] = least /\ known \subseteq least
  BY PropagateModel, PropagateFacts
<1>2. K = least \/ \E E \in SUBSET (Implied[S] \ least) : K = Propagate[least \cup E]
  BY DEF TrailsFrom
<1>3. Implied[S] \subseteq M
  BY ImpliedFacts
<1> HIDE DEF least
<1>4. ASSUME NEW E \in SUBSET (Implied[S] \ least), K = Propagate[least \cup E]
      PROVE  K \subseteq M /\ known \subseteq K /\ Consequences[K] = K
  <2>1. least \cup E \in SUBSET M /\ least \cup E \in SUBSET Literal
    BY <1>1, <1>3, ModelFacts
  <2>2. least \cup E \subseteq Propagate[least \cup E]
    BY <2>1, PropagateFacts
  <2>3. /\ Propagate[least \cup E] \subseteq M
        /\ Consequences[Propagate[least \cup E]] = Propagate[least \cup E]
    BY <2>1, PropagateModel
  <2> QED
    BY <1>1, <1>4, <2>2, <2>3
<1> QED
  BY <1>1, <1>2, <1>4

LEMMA TwoElements ==
  ASSUME NEW S, IsFiniteSet(S), NEW a \in S, NEW b \in S, a # b
  PROVE  Cardinality(S) >= 2
<1>1. Cardinality(S) \in Nat /\ Cardinality(S) # 0
  BY FS_CardinalityType, FS_EmptySet
<1>2. Cardinality(S) # 1
  <2>1. \A x : S # {x}
    OBVIOUS
  <2> QED
    BY <2>1, FS_Singleton
<1> QED
  BY <1>1, <1>2

\* A clause that is not satisfied when propagation has nothing to add has two
\* variables left, unless it has both literals of one.
LEMMA ClauseLeft ==
  ASSUME NEW M \in Models, NEW T \in SUBSET M, Consequences[T] = T,
         NEW d \in Clauses, d \cap T = {}
  PROVE  Cardinality(VarsOf(Left(d, T))) >= 2 \/ Conflicting(Left(d, T))
<1>1. /\ M \in SUBSET Literal /\ ~Conflicting(M) /\ T \in SUBSET Literal
      /\ d \in SUBSET Literal
  BY ModelFacts, ClausesAssumption
<1>2. PICK l \in d : l \in M
  BY ModelFacts
<1>3. VarOf(l) \notin VarsOf(T)
  <2>1. ASSUME NEW k \in T, VarOf(k) = VarOf(l)
        PROVE  FALSE
    <3>1. k \in Int /\ l \in Int /\ (k = l \/ k = -l)
      BY <1>1, <2>1, VarFacts DEF VarOf
    <3> QED
      BY <1>1, <1>2, <3>1 DEF Conflicting
  <2> QED
    BY <2>1 DEF VarsOf
<1>4. l \in Left(d, T)
  BY <1>3 DEF Left
<1>5. CASE \E k \in Left(d, T) : VarOf(k) # VarOf(l)
  <2>1. PICK k \in Left(d, T) : VarOf(k) # VarOf(l)
    BY <1>5
  <2>2. VarsOf(Left(d, T)) \in SUBSET Var
    BY <1>1, VarFacts DEF Left, VarsOf
  <2>3. IsFiniteSet(VarsOf(Left(d, T)))
    BY <2>2, VarAssumption, FS_Subset
  <2>4. VarOf(k) \in VarsOf(Left(d, T)) /\ VarOf(l) \in VarsOf(Left(d, T))
    BY <1>4 DEF VarsOf
  <2> QED
    BY <2>1, <2>3, <2>4, TwoElements
<1>6. CASE \A k \in Left(d, T) : VarOf(k) = VarOf(l)
  <2>1. CASE -l \in d
    <3>1. -l \in Left(d, T)
      BY <1>1, <1>3, <2>1, VarFacts DEF Left
    <3> QED
      BY <1>4, <3>1 DEF Conflicting
  <2>2. CASE -l \notin d
    <3>1. ASSUME NEW k \in d, k # l
          PROVE  -k \in T
      <4>1. k \in Int /\ l \in Int /\ -l # k
        BY <1>1, <2>2, VarFacts
      <4>2. VarOf(k) # VarOf(l)
        BY <3>1, <4>1 DEF VarOf
      <4>3. VarOf(k) \in VarsOf(T)
        BY <1>6, <4>2 DEF Left
      <4>4. PICK j \in T : VarOf(j) = VarOf(k)
        BY <4>3 DEF VarsOf
      <4>5. j \in Int /\ (j = k \/ j = -k)
        BY <1>1, <4>1, <4>4, VarFacts DEF VarOf
      <4> QED
        BY <4>5
    <3>2. Negated(d \ {l}) \subseteq T
      BY <3>1 DEF Negated
    <3>4. l \in Consequences[T]
      BY <1>1, <3>2, ConsequenceFound
    <3>5. l \notin T
      BY <1>2
    <3> QED
      BY <3>4, <3>5
  <2> QED
    BY <2>1, <2>2
<1> QED
  BY <1>5, <1>6

-----------------------------------------------------------------------------
(* What a call leaves.                                                     *)

\* No clause that is left joins C to other variables.
Closed(cls, C, o) ==
  \A c \in Unsatisfied(cls, o) : VarsOf(Left(c, o)) \cap C = {} \/ VarsOf(Left(c, o)) \subseteq C

\* No clause is left with a single variable.
Complete(cls, o) ==
  \A c \in Unsatisfied(cls, o) : Cardinality(VarsOf(Left(c, o))) >= 2 \/ Conflicting(c)

\* What a variable reaches is closed.
LEMMA ComponentClosed ==
  ASSUME NEW cls \in SUBSET (SUBSET Literal), NEW o, NEW v \in Var \ VarsOf(o)
  PROVE  Closed(cls, ComponentOf(cls, v, o), o)
<1> DEFINE left == {Left(c, o) : c \in Unsatisfied(cls, o)}
           step == [S \in SUBSET Var |-> S \cup UNION {VarsOf(c) : c \in {d \in left : Touches(d, S)}}]
           N == Cardinality(Var)
           x == {v}
           D == ComponentOf(cls, v, o)
<1>1. \A c \in left : VarsOf(c) \subseteq Var
  <2>1. ASSUME NEW c \in cls
        PROVE  VarsOf(Left(c, o)) \subseteq Var
    BY VarFacts DEF Left, VarsOf
  <2> QED
    BY <2>1 DEF Unsatisfied
<1>2. \A T \in SUBSET Var : T \subseteq step[T] /\ step[T] \subseteq Var
  <2> HIDE DEF left
  <2> QED
    BY <1>1
<1>3. Repeated(step, x, N) \in {T \in SUBSET Var : step[T] = T}
  <2>1. N \in Nat /\ IsFiniteSet(Var) /\ x \in SUBSET Var /\ Cardinality(Var) <= N
    BY VarFacts, VarAssumption
  <2> HIDE DEF step, N, x
  <2> QED
    BY <1>2, <2>1, TurnsClose
<1>4. D \in SUBSET Var /\ step[D] = D
  BY <1>3 DEF ComponentOf, Repeated, Turn
<1> HIDE DEF D
<1>5. \A d \in left : Touches(d, D) => VarsOf(d) \subseteq D
  <2> HIDE DEF left
  <2>1. D \cup UNION {VarsOf(c) : c \in {d \in left : Touches(d, D)}} = D
    BY <1>4
  <2> QED
    BY <2>1
<1> QED
  BY <1>5 DEF Closed, Touches, D

\* So are the components of a closed set when more is assigned.
LEMMA ComponentsClosed ==
  ASSUME NEW cls \in SUBSET (SUBSET Literal), NEW C \in SUBSET Var, NEW o, NEW p, o \subseteq p,
         Closed(cls, C, o), NEW D \in Components(cls, C, p)
  PROVE  Closed(cls, D, p)
<1>1. PICK v \in C \ VarsOf(p) : D = ComponentOf(cls, v, p) \cap C
  BY DEF Components
<1> DEFINE E == ComponentOf(cls, v, p)
<1>2. Closed(cls, E, p)
  BY <1>1, ComponentClosed
<1> HIDE DEF E
<1> SUFFICES ASSUME NEW c \in Unsatisfied(cls, p)
             PROVE  VarsOf(Left(c, p)) \cap D = {} \/ VarsOf(Left(c, p)) \subseteq D
  BY DEF Closed
<1>3. c \in Unsatisfied(cls, o) /\ Left(c, p) \subseteq Left(c, o)
  BY DEF Unsatisfied, Left, VarsOf
<1>4. VarsOf(Left(c, p)) \subseteq VarsOf(Left(c, o))
  BY <1>3 DEF VarsOf
<1>5. VarsOf(Left(c, p)) \cap C = {} \/ VarsOf(Left(c, p)) \subseteq C
  BY <1>3, <1>4 DEF Closed
<1>6. VarsOf(Left(c, p)) \cap E = {} \/ VarsOf(Left(c, p)) \subseteq E
  BY <1>2 DEF Closed
<1>7. D = E \cap C
  BY <1>1 DEF E
<1> QED
  BY <1>5, <1>6, <1>7

\* The decisions the call in place k was made with.
Before(as, k) == {as[j] : j \in 1 .. k - 1}

\* What is right of a call that has been solved.
SolvedRight(cls, s, as, k) ==
  /\ Satisfiable(Before(as, k))
  /\ s[k].units \subseteq Implied[Before(as, k)]
  /\ \A C \in s[k].todo \cup {s[k].connected} : Closed(cls, C, UnitsOf(s, k))
  /\ Complete(cls, UnitsOf(s, k))

\* The calls that have been solved: all below the innermost one, and that one
\* while it counts its components.
Solved == IF pc \in {"components", "partition", "select"} THEN Len(stack) ELSE Len(stack) - 1
SolvedExact == \A k \in 1 .. Solved : SolvedRight(OccClauses, stack, assumptions, k)

SolveInv == fixed \subseteq Implied[{}] /\ SolvedExact

\* A call that goes on counting, with no component it had not.
Counts(t, a) ==
  /\ t.units = a.units
  /\ t.todo \subseteq a.todo
  /\ t.connected \in a.todo \cup {a.connected} \cup {{}}

LEMMA SolvedSame ==
  ASSUME NEW cls, NEW s, NEW as, NEW m \in Nat, \A k \in 1 .. m : SolvedRight(cls, s, as, k),
         NEW u, NEW bs, \A k \in 1 .. m : Counts(u[k], s[k]), \A k \in 1 .. m - 1 : bs[k] = as[k]
  PROVE  \A k \in 1 .. m : SolvedRight(cls, u, bs, k)
<1> SUFFICES ASSUME NEW k \in 1 .. m
             PROVE  SolvedRight(cls, u, bs, k)
  OBVIOUS
<1>1. SolvedRight(cls, s, as, k)
  BY Zenon
<1>2. Before(bs, k) = Before(as, k)
  <2>1. \A j \in 1 .. k - 1 : j \in 1 .. m - 1
    OBVIOUS
  <2>2. \A j \in 1 .. k - 1 : bs[j] = as[j]
    BY <2>1
  <2> QED
    BY <2>2 DEF Before
<1>3. UnitsOf(u, k) = UnitsOf(s, k)
  <2>1. \A j \in 1 .. k : j \in 1 .. m
    OBVIOUS
  <2>2. \A j \in 1 .. k : u[j].units = s[j].units
    BY <2>1 DEF Counts
  <2> QED
    BY <2>2 DEF UnitsOf
<1>4. Counts(u[k], s[k])
  OBVIOUS
<1>5. Closed(cls, {}, UnitsOf(s, k))
  BY DEF Closed
<1>6. \A C \in u[k].todo \cup {u[k].connected} : Closed(cls, C, UnitsOf(s, k))
  BY <1>1, <1>4, <1>5 DEF Counts, SolvedRight
<1>7. u[k].units = s[k].units
  BY <1>4 DEF Counts
<1> QED
  BY <1>1, <1>2, <1>3, <1>6, <1>7 DEF SolvedRight

-----------------------------------------------------------------------------
(* What the solver is asked, and what it answers.                          *)

\* A call about to be solved: what is left of the formula is on its variables,
\* or is apart from them and was complete before; what is assigned follows from
\* the decisions, and without the last one they are satisfiable.
LEMMA AskedFacts ==
  ASSUME IInv, SolveInv, pc = "solve"
  PROVE  /\ Top.set \in SUBSET Var /\ fixed \in SUBSET Literal /\ occ \in SUBSET Literal
         /\ Assumed \in SUBSET Literal /\ Assumed = Before(assumptions, Len(stack))
         /\ Closed(OccClauses, Top.set, occ)
         /\ \A c \in Unsatisfied(OccClauses, occ) :
              \/ VarsOf(Left(c, occ)) \subseteq Top.set
              \/ /\ VarsOf(Left(c, occ)) \cap Top.set = {}
                 /\ Cardinality(VarsOf(Left(c, occ))) >= 2 \/ Conflicting(c)
         /\ \A M \in Models : Assumed \subseteq M => fixed \cup occ \subseteq M
         /\ \E M \in Models : /\ fixed \cup occ \subseteq M
                              /\ \A a \in Assumed : VarOf(a) \notin Top.set => a \in M
<1> DEFINE n == Len(stack)
           as == assumptions
           m == n - 1
<1>1. /\ n \in Nat \ {0} /\ n = Len(stack) /\ as = assumptions /\ Len(as) = n - 1 /\ Top = stack[n]
      /\ fixed \in SUBSET Literal /\ occ \in SUBSET Literal /\ Assumed \in SUBSET Literal
      /\ as \in Seq(Literal) /\ Solved = n - 1
  BY StateFacts DEF IInv, Typed, Top, Solved
<1>2. Top.set \in SUBSET Var
  BY TopFacts DEF Level
<1> HIDE DEF n, as
<1>3. LevelRight(stack, as, n) /\ (n > 1 => LevelRight(stack, as, n - 1))
  <2>1. n \in 1 .. Len(stack) /\ (n > 1 => n - 1 \in 1 .. Len(stack))
    BY <1>1
  <2> QED
    BY <1>1, <2>1 DEF IInv, Nested
<1>4. occ = UnitsOf(stack, m)
  BY <1>1, TopFacts DEF IInv, FreshExact
<1>5. \A k \in 1 .. m : SolvedRight(OccClauses, stack, as, k)
  BY <1>1 DEF SolveInv, SolvedExact
<1>6. Assumed = Before(as, n)
  BY <1>1 DEF Assumed, Before
<1>7. ASSUME NEW k \in 1 .. n
      PROVE  Before(as, k) \in SUBSET Assumed /\ Before(as, k) \in SUBSET Literal
  BY <1>1, <1>6 DEF Before
<1>8. ASSUME NEW M \in Models, Before(as, m) \subseteq M \/ n = 1
      PROVE  fixed \cup occ \subseteq M
  <2>1. fixed \subseteq M
    BY ImpliedFacts DEF SolveInv
  <2>2. ASSUME NEW k \in 1 .. m
        PROVE  stack[k].units \subseteq M
    <3>1. stack[k].units \subseteq Implied[Before(as, k)]
      BY <1>5 DEF SolvedRight
    <3>2. k \in 1 .. n /\ n # 1 /\ \A j \in 1 .. k - 1 : j \in 1 .. m - 1
      BY <1>1
    <3>3. Before(as, k) \subseteq Before(as, m)
      BY <3>2 DEF Before
    <3>4. Before(as, k) \subseteq M /\ Before(as, k) \in SUBSET Literal
      BY <1>7, <1>8, <3>2, <3>3
    <3>5. Implied[Before(as, k)] \subseteq M
      BY <3>4, ImpliedFacts
    <3> QED
      BY <3>1, <3>5
  <2>3. UnitsOf(stack, m) \subseteq M
    BY <2>2 DEF UnitsOf
  <2> QED
    BY <1>4, <2>1, <2>3
<1>9. \A M \in Models : Assumed \subseteq M => fixed \cup occ \subseteq M
  <2>1. n > 1 => m \in 1 .. n
    BY <1>1
  <2> QED
    BY <1>1, <1>7, <1>8, <2>1
<1>10. n > 1 => VarOf(as[m]) \in Top.set /\ Top.set = stack[m].connected
  BY <1>1, <1>3 DEF LevelRight
<1>11. \E M \in Models : /\ fixed \cup occ \subseteq M
                         /\ \A a \in Assumed : VarOf(a) \notin Top.set => a \in M
  <2>1. CASE n = 1
    <3>1. PICK M \in Models : TRUE
      BY SatisfiableAssumption
    <3>2. Assumed = {}
      BY <1>1, <2>1 DEF Assumed
    <3> QED
      BY <1>8, <2>1, <3>1, <3>2
  <2>2. CASE n # 1
    <3>1. m \in 1 .. m /\ n > 1
      BY <1>1, <2>2
    <3>2. PICK M \in Models : Before(as, m) \subseteq M
      BY <1>5, <3>1, Zenon DEF SolvedRight, Satisfiable
    <3>3. ASSUME NEW a \in Assumed, VarOf(a) \notin Top.set
          PROVE  a \in M
      <4>1. PICK j \in 1 .. n - 1 : a = as[j]
        BY <1>6 DEF Before
      <4>2. j # m
        BY <1>10, <3>1, <3>3, <4>1
      <4>3. j \in 1 .. m - 1
        BY <1>1, <4>2
      <4> QED
        BY <3>2, <4>1, <4>3 DEF Before
    <3> QED
      BY <1>8, <3>2, <3>3
  <2> QED
    BY <2>1, <2>2
<1>12. ASSUME NEW c \in Unsatisfied(OccClauses, occ)
       PROVE  VarsOf(Left(c, occ)) \subseteq Var
  <2>1. c \in SUBSET Literal
    BY OccClausesFacts DEF Unsatisfied
  <2> QED
    BY <2>1, VarFacts DEF Left, VarsOf
<1>13. CASE n = 1
  <2>1. Top.set = Var
    BY <1>1, <1>3, <1>13 DEF LevelRight
  <2> QED
    BY <1>1, <1>2, <1>6, <1>9, <1>11, <1>12, <2>1 DEF Closed
<1>14. CASE n # 1
  <2>1. SolvedRight(OccClauses, stack, as, m) /\ n > 1
    <3>1. m \in 1 .. m /\ n > 1
      BY <1>1, <1>14
    <3> QED
      BY <1>5, <3>1
  <2>2. Closed(OccClauses, Top.set, occ) /\ Complete(OccClauses, occ)
    BY <1>4, <1>10, <2>1 DEF SolvedRight
  <2> QED
    BY <1>1, <1>2, <1>6, <1>9, <1>11, <2>2 DEF Closed, Complete
<1> QED
  BY <1>13, <1>14

\* The assumptions are satisfiable exactly if the component can be assigned
\* without a conflict by propagation.
LEMMA SolveDecides ==
  ASSUME IInv, SolveInv, pc = "solve"
  PROVE  SolvedLocally <=> Satisfiable(Assumed)
<1> DEFINE A == Assumed \cup fixed \cup occ
           C == Top.set
<1>1. /\ C \in SUBSET Var /\ fixed \in SUBSET Literal /\ occ \in SUBSET Literal
      /\ Assumed \in SUBSET Literal
  BY AskedFacts
<1>2. ASSUME NEW M \in Models, Assumed \subseteq M
      PROVE  SolvedLocally
  <2> DEFINE m == Over(M, C)
  <2>1. M \in SUBSET Literal /\ ~Conflicting(M) /\ \A l \in Literal : l \in M \/ -l \in M
    BY ModelFacts
  <2>2. m \in Assignments(C)
    <3>1. m \in SUBSET Literal /\ ~Conflicting(m) /\ \A l \in m : VarOf(l) \in C
      BY <2>1 DEF Over, Conflicting
    <3>2. \A v \in C : v \in m \/ -v \in m
      BY <1>1, <2>1, VarFacts DEF Over
    <3> QED
      BY <1>1, <3>1, <3>2, IsAssignment
  <2>3. A \cup m \in SUBSET M
    BY <1>2, AskedFacts DEF Over
  <2>4. Propagate[A \cup m] \subseteq M
    BY <2>3, PropagateModel
  <2>5. ~Conflicting(Propagate[A \cup m])
    BY <2>1, <2>4 DEF Conflicting
  <2> HIDE DEF m
  <2> QED
    BY <2>2, <2>5 DEF SolvedLocally, LocallySatisfiable
<1>3. ASSUME SolvedLocally
      PROVE  Satisfiable(Assumed)
  <2>1. PICK m \in Assignments(C) : ~Conflicting(Propagate[A \cup m])
    BY <1>3 DEF SolvedLocally, LocallySatisfiable
  <2>2. PICK M \in Models : /\ fixed \cup occ \subseteq M
                           /\ \A a \in Assumed : VarOf(a) \notin C => a \in M
    BY AskedFacts
  <2>3. /\ m \in SUBSET Literal /\ ~Conflicting(m) /\ \A l \in m : VarOf(l) \in C
        /\ \A l \in Literal : VarOf(l) \in C => l \in m \/ -l \in m
    BY <1>1, AssignmentFacts
  <2>4. /\ M \in SUBSET Literal /\ ~Conflicting(M) /\ \A l \in Literal : l \in M \/ -l \in M
        /\ \A c \in Clauses : c \cap M # {}
    BY ModelFacts
  <2> DEFINE X == A \cup m
             B == m \cup {l \in M : VarOf(l) \notin C}
  <2> HIDE DEF A, C
  <2>5. X \in SUBSET Literal /\ X \subseteq Propagate[X]
    BY <1>1, <2>3, PropagateFacts DEF A
  <2>6. ~Conflicting(X)
    BY <2>1, <2>5 DEF Conflicting
  <2>7. ASSUME NEW l \in A, VarOf(l) \in C
        PROVE  l \in m
    <3>1. l \in Literal /\ l \in X
      BY <2>5
    <3>2. -l \notin m
      BY <2>6, <3>1 DEF Conflicting
    <3> QED
      BY <2>3, <2>7, <3>1, <3>2
  <2>8. A \subseteq B
    BY <2>2, <2>7 DEF A
  <2>9. B \in Assignments(Var)
    <3>1. B \in SUBSET Literal
      BY <2>3, <2>4
    <3>2. ~Conflicting(B)
      <4>1. ASSUME NEW l \in B, -l \in B
            PROVE  FALSE
        <5>1. VarOf(-l) = VarOf(l)
          BY <3>1, VarFacts
        <5>2. (l \in m /\ -l \in m) \/ (l \in M /\ -l \in M)
          BY <2>3, <4>1, <5>1
        <5> QED
          BY <2>3, <2>4, <5>2 DEF Conflicting
      <4> QED
        BY <4>1 DEF Conflicting
    <3>3. ASSUME NEW v \in Var
          PROVE  v \in B \/ -v \in B
      BY <2>3, <2>4, VarFacts
    <3>4. \A l \in B : VarOf(l) \in Var
      BY <3>1, VarFacts
    <3> HIDE DEF B
    <3> QED
      BY <3>1, <3>2, <3>3, <3>4, IsAssignment
  <2>10. ASSUME NEW d \in Clauses
         PROVE  d \cap B # {}
    <3> DEFINE c == d \ Negated(fixed)
    <3>1. d \in SUBSET Literal /\ d # {}
      BY ClausesAssumption
    <3>2. CASE d \cap fixed # {}
      BY <2>8, <3>2 DEF A
    <3>3. CASE d \cap fixed = {} /\ c \cap occ # {}
      BY <2>8, <3>3 DEF A
    <3>4. CASE d \cap fixed = {} /\ c \cap occ = {}
      <4>1. c \in Unsatisfied(OccClauses, occ)
        BY <3>4 DEF OccClauses, Unsatisfied
      <4>2. VarsOf(Left(c, occ)) \cap C = {} \/ VarsOf(Left(c, occ)) \subseteq C
        BY <4>1, AskedFacts DEF C
      <4>3. CASE VarsOf(Left(c, occ)) \cap C = {}
        <5>1. PICK l \in d : l \in M
          BY <2>4
        <5>2. l \in Literal /\ l \in Int /\ -l \notin M
          BY <2>4, <3>1, <5>1, VarFacts DEF Conflicting
        <5>3. l \in c
          <6>1. ASSUME NEW k \in fixed, l = -k
                PROVE  FALSE
            <7>1. k \in M /\ k \in Int
              BY <1>1, <2>2, VarFacts
            <7> QED
              BY <5>2, <6>1, <7>1
          <6> QED
            BY <6>1 DEF Negated
        <5>4. VarOf(l) \notin VarsOf(occ)
          <6>1. ASSUME NEW k \in occ, VarOf(k) = VarOf(l)
                PROVE  FALSE
            <7>1. k \in M /\ k \in Int /\ k # l
              BY <1>1, <2>2, <3>4, <5>3, VarFacts
            <7> QED
              BY <5>2, <6>1, <7>1 DEF VarOf
          <6> QED
            BY <6>1 DEF VarsOf
        <5>5. l \in Left(c, occ)
          BY <5>3, <5>4 DEF Left
        <5>6. VarOf(l) \notin C
          BY <4>3, <5>5 DEF VarsOf
        <5> QED
          BY <5>1, <5>6
      <4>4. CASE VarsOf(Left(c, occ)) \subseteq C /\ d \cap m = {}
        <5>1. ASSUME NEW l \in d
              PROVE  -l \in X
          <6>1. l \in Literal /\ l \in Int
            BY <3>1, VarFacts
          <6>2. CASE l \notin c
            <7>1. PICK k \in fixed : l = -k
              BY <6>2 DEF Negated
            <7>2. -l = k
              BY <1>1, <7>1, VarFacts
            <7> QED
              BY <7>2 DEF A
          <6>3. CASE l \in c /\ VarOf(l) \in VarsOf(occ)
            <7>1. PICK k \in occ : VarOf(k) = VarOf(l)
              BY <6>3 DEF VarsOf
            <7>2. k \in Int /\ k # l
              BY <1>1, <3>4, <6>3, VarFacts
            <7>3. k = -l
              BY <6>1, <7>1, <7>2 DEF VarOf
            <7> QED
              BY <7>3 DEF A
          <6>4. CASE l \in c /\ VarOf(l) \notin VarsOf(occ)
            <7>1. VarOf(l) \in C
              BY <4>4, <6>4 DEF Left, VarsOf
            <7> QED
              BY <2>3, <4>4, <6>1, <7>1
          <6> QED
            BY <6>2, <6>3, <6>4
        <5>2. PICK l \in d : TRUE
          BY <3>1
        <5>3. Var # {}
          BY <3>1, <5>2, VarFacts
        <5>4. Negated(d \ {l}) \subseteq X
          BY <5>1 DEF Negated
        <5> HIDE DEF X
        <5>5. l \in Consequences[X]
          BY <2>5, <5>4, ConsequenceFound
        <5>6. l \in Propagate[X] /\ -l \in Propagate[X]
          BY <2>5, <5>1, <5>3, <5>5, PropagateOnce
        <5>7. ~Conflicting(Propagate[X])
          BY <2>1 DEF X
        <5> QED
          BY <5>6, <5>7 DEF Conflicting
      <4> QED
        BY <4>2, <4>3, <4>4
    <3> QED
      BY <3>2, <3>3, <3>4
  <2>11. B \in Models
    BY <2>9, <2>10 DEF Models, ModelsOver
  <2>12. Assumed \subseteq B
    BY <2>8 DEF A
  <2> HIDE DEF B
  <2> QED
    BY <2>11, <2>12 DEF Satisfiable
<1>4. Satisfiable(Assumed) => SolvedLocally
  BY <1>2 DEF Satisfiable
<1> QED
  BY <1>3, <1>4

\* A clause of the occurrence manager that is not satisfied after the call's
\* units is a clause that propagation left.
LEMMA UnitsLeave ==
  ASSUME IInv, SolveInv, pc = "solve", NEW M \in Models, Assumed \subseteq M,
         NEW T \in SUBSET M, Consequences[T] = T, fixed \cup occ \subseteq T,
         NEW p, p = occ \cup Over(T, Top.set)
  PROVE  Complete(OccClauses, p)
<1> SUFFICES ASSUME NEW c \in Unsatisfied(OccClauses, p)
             PROVE  Cardinality(VarsOf(Left(c, p))) >= 2 \/ Conflicting(c)
  BY DEF Complete
<1>1. /\ M \in SUBSET Literal /\ ~Conflicting(M) /\ T \in SUBSET Literal
      /\ fixed \in SUBSET Literal /\ occ \in SUBSET Literal /\ p \subseteq T
  BY ModelFacts, AskedFacts DEF Over
<1>2. c \in Unsatisfied(OccClauses, occ) /\ c \cap p = {}
  BY DEF Unsatisfied
<1>3. PICK d \in Clauses : d \cap fixed = {} /\ c = d \ Negated(fixed)
  BY <1>2 DEF Unsatisfied, OccClauses
<1>4. d \in SUBSET Literal
  BY ClausesAssumption
<1>5. CASE /\ VarsOf(Left(c, occ)) \cap Top.set = {}
           /\ Cardinality(VarsOf(Left(c, occ))) >= 2 \/ Conflicting(c)
  <2>1. ASSUME NEW l \in Left(c, occ)
        PROVE  l \in Left(c, p)
    <3>1. VarOf(l) \notin Top.set
      BY <1>5 DEF VarsOf
    <3> QED
      BY <3>1 DEF Left, Over, VarsOf
  <2>2. Left(c, p) = Left(c, occ)
    BY <2>1 DEF Left, VarsOf
  <2> QED
    BY <1>5, <2>2
<1>6. CASE VarsOf(Left(c, occ)) \subseteq Top.set
  <2>1. \A l \in T : -l \notin T
    BY <1>1 DEF Conflicting
  <2>2. ASSUME NEW l \in d, l \in T
        PROVE  FALSE
    <3>1. l \in c
      <4>1. ASSUME NEW k \in fixed, l = -k
            PROVE  FALSE
        <5>1. k \in T
          OBVIOUS
        <5> QED
          BY <2>1, <2>2, <4>1, <5>1
      <4> QED
        BY <1>3, <4>1 DEF Negated
    <3>2. CASE VarOf(l) \in VarsOf(occ)
      <4>1. PICK k \in occ : VarOf(k) = VarOf(l)
        BY <3>2 DEF VarsOf
      <4>2. k \in Int /\ l \in Int /\ k \in T /\ k # l
        BY <1>1, <1>2, <1>4, <3>1, <4>1, VarFacts DEF Unsatisfied
      <4>3. k = -l
        BY <4>1, <4>2 DEF VarOf
      <4> QED
        BY <2>1, <2>2, <4>2, <4>3
    <3>3. CASE VarOf(l) \notin VarsOf(occ)
      <4>1. VarOf(l) \in Top.set
        BY <1>6, <3>1, <3>3 DEF Left, VarsOf
      <4>2. l \in p
        BY <2>2, <4>1 DEF Over
      <4> QED
        BY <1>2, <3>1, <4>2
    <3> QED
      BY <3>2, <3>3
  <2>3. Cardinality(VarsOf(Left(d, T))) >= 2 \/ Conflicting(Left(d, T))
    <3>1. d \cap T = {}
      BY <2>2
    <3> QED
      BY <3>1, ClauseLeft
  <2>4. Left(d, T) \subseteq Left(c, p)
    <3>1. ASSUME NEW l \in d, VarOf(l) \notin VarsOf(T)
          PROVE  l \in c /\ VarOf(l) \notin VarsOf(p)
      <4>1. ASSUME NEW k \in fixed, l = -k
            PROVE  FALSE
        <5>1. k \in T /\ VarOf(l) = VarOf(k)
          BY <1>1, <4>1, VarFacts
        <5> QED
          BY <3>1, <5>1 DEF VarsOf
      <4>2. l \in c
        BY <1>3, <4>1 DEF Negated
      <4> QED
        BY <1>1, <3>1, <4>2 DEF VarsOf
    <3> QED
      BY <3>1 DEF Left
  <2>5. VarsOf(Left(d, T)) \in SUBSET VarsOf(Left(c, p)) /\ VarsOf(Left(c, p)) \in SUBSET Var
    BY <1>3, <1>4, <2>4, VarFacts DEF VarsOf, Left
  <2>6. Cardinality(VarsOf(Left(d, T))) <= Cardinality(VarsOf(Left(c, p)))
    BY <2>5, VarAssumption, FS_Subset
  <2>7. Cardinality(VarsOf(Left(d, T))) \in Nat /\ Cardinality(VarsOf(Left(c, p))) \in Nat
    BY <2>5, VarAssumption, FS_Subset, FS_CardinalityType
  <2>8. Conflicting(Left(d, T)) => Conflicting(c)
    BY <2>4 DEF Conflicting, Left
  <2> QED
    BY <2>3, <2>6, <2>7, <2>8
<1>7. \/ VarsOf(Left(c, occ)) \subseteq Top.set
      \/ /\ VarsOf(Left(c, occ)) \cap Top.set = {}
         /\ Cardinality(VarsOf(Left(c, occ))) >= 2 \/ Conflicting(c)
  BY <1>2, AskedFacts
<1> QED
  BY <1>5, <1>6, <1>7

\* What a step keeps of the calls that have been solved.
LEMMA SolveKept ==
  ASSUME SolveInv, UNCHANGED fixed, NEW m \in Nat, m <= Solved, Solved' = m, Solved \in Int,
         NEW u, u = stack', NEW bs, bs = assumptions',
         \A k \in 1 .. m : Counts(u[k], stack[k]), \A k \in 1 .. m - 1 : bs[k] = assumptions[k]
  PROVE  SolveInv'
<1>1. \A k \in 1 .. m : SolvedRight(OccClauses, stack, assumptions, k)
  <2>1. \A k \in 1 .. m : k \in 1 .. Solved
    OBVIOUS
  <2> QED
    BY <2>1, Zenon DEF SolveInv, SolvedExact
<1>2. \A k \in 1 .. m : SolvedRight(OccClauses, u, bs, k)
  BY <1>1, SolvedSame
<1>3. OccClauses' = OccClauses
  BY DEF OccClauses
<1> QED
  BY <1>2, <1>3 DEF SolveInv, SolvedExact

\* The innermost call goes on.
LEMMA TopCounts ==
  ASSUME IInv, SolveInv, NEW t, Counts(t, Top),
         stack' = [stack EXCEPT ![Len(stack)] = t] \/ stack' = Append(SubSeq(stack, 1, Len(stack) - 1), t),
         UNCHANGED <<fixed, assumptions>>,
         pc \in {"components", "partition", "select"}, pc' \in {"components", "partition", "select"}
  PROVE  SolveInv'
<1>1. PICK V : stack \in Seq(Level(V))
  BY StateFacts
<1>2. PICK u, bs : u = stack' /\ bs = assumptions'
  OBVIOUS
<1> DEFINE S == Level(V) \cup {t}
           n == Len(stack)
<1>3. stack \in Seq(S) /\ stack # <<>> /\ t \in S /\ n \in Nat \ {0} /\ Top = stack[n]
  <2>1. Level(V) \subseteq S
    OBVIOUS
  <2>2. stack \in Seq(S)
    BY <1>1, <2>1
  <2> QED
    BY <2>2, StateFacts DEF Top
<1> HIDE DEF S
<1>4. u = [stack EXCEPT ![Len(stack)] = t]
  <2>1. Append(SubSeq(stack, 1, Len(stack) - 1), t) = [stack EXCEPT ![Len(stack)] = t]
    BY <1>3, LastFacts
  <2> QED
    BY <1>2, <2>1, Zenon
<1>5. Len(u) = n /\ u[n] = t /\ \A k \in 1 .. n - 1 : u[k] = stack[k]
  BY <1>3, <1>4, LastFacts
<1>6. \A k \in 1 .. n : Counts(u[k], stack[k])
  <2>1. \A k \in 1 .. n : k = n \/ k \in 1 .. n - 1
    BY <1>3
  <2> QED
    BY <1>3, <1>5, <2>1 DEF Counts
<1>7. Solved = n /\ Solved' = n
  BY <1>2, <1>5 DEF Solved
<1> HIDE DEF n
<1> QED
  BY <1>2, <1>3, <1>6, <1>7, SolveKept

\* The steps of a call between two solves, and its end.
LEMMA CallCounts ==
  ASSUME IInv, SolveInv,
         \/ SolveUnsat \/ PositiveHit \/ NegativeHit \/ EndComponents \/ ComputePartition
         \/ SkipPartition \/ NothingToDecide \/ Finish \/ UNCHANGED vars
  PROVE  SolveInv'
<1>1. PICK V : stack \in Seq(Level(V)) /\ Top \in Level(V)
  BY TopFacts
<1>2. Len(stack) \in Nat \ {0}
  BY StateFacts
<1>3. CASE SolveUnsat \/ SkipPartition \/ Finish \/ EndComponents \/ UNCHANGED vars
  <2>1. UNCHANGED <<fixed, assumptions, stack>> /\ Solved' <= Solved /\ Solved \in Int /\ Solved' \in Nat
    BY <1>2, <1>3 DEF SolveUnsat, SkipPartition, Finish, EndComponents, vars, Solved
  <2>2. OccClauses' = OccClauses
    BY <2>1 DEF OccClauses
  <2>3. \A k \in 1 .. Solved' : k \in 1 .. Solved
    BY <2>1
  <2> QED
    BY <2>1, <2>2, <2>3 DEF SolveInv, SolvedExact
<1>4. CASE PositiveHit
  <2> DEFINE r == Top.ret * cache[Key(OccClauses, NextConnected, occ)]
             C == NextConnected
             t == [Top EXCEPT !.todo = @ \ {C}, !.ret = r]
  <2>1. /\ pc = "components" /\ stack' = [stack EXCEPT ![Len(stack)] = t]
        /\ UNCHANGED <<fixed, assumptions, pc>>
    BY <1>4 DEF PositiveHit, SetTop
  <2> HIDE DEF r, C
  <2>2. Counts(t, Top)
    BY <1>1 DEF Counts, Level
  <2> HIDE DEF t
  <2> QED
    BY <2>1, <2>2, TopCounts
<1>5. CASE NegativeHit
  <2> DEFINE C == NextConnected
             P == PrioritySubSet(C)
             t == [Top EXCEPT !.todo = @ \ {C}, !.connected = C, !.cut = P]
  <2>1. /\ pc = "components" /\ Top.todo # {} /\ stack' = [stack EXCEPT ![Len(stack)] = t]
        /\ pc' = "partition" /\ UNCHANGED <<fixed, assumptions>>
    BY <1>5 DEF NegativeHit, SetTop
  <2>2. C \in Top.todo
    BY <1>1, <2>1, NextFacts, TopFacts DEF Level, Fits
  <2> HIDE DEF C, P
  <2>3. Counts(t, Top)
    BY <1>1, <2>2 DEF Counts, Level
  <2> HIDE DEF t
  <2> QED
    BY <2>1, <2>3, TopCounts
<1>6. CASE ComputePartition
  <2>1. PICK cut : stack' = SetTop([Top EXCEPT !.cut = cut])
    BY <1>6 DEF ComputePartition
  <2> DEFINE t == [Top EXCEPT !.cut = cut]
  <2>2. /\ pc = "partition" /\ stack' = [stack EXCEPT ![Len(stack)] = t]
        /\ pc' = "select" /\ UNCHANGED <<fixed, assumptions>>
    BY <1>6, <2>1 DEF ComputePartition, SetTop
  <2>3. Counts(t, Top)
    BY <1>1 DEF Counts, Level
  <2> HIDE DEF t
  <2> QED
    BY <2>2, <2>3, TopCounts
<1>7. CASE NothingToDecide
  <2> DEFINE r == Top.ret * 1
             t == [Top EXCEPT !.ret = r, !.connected = {}, !.cut = {}, !.lit = 0, !.pos = 0]
             W == V \cup {r, 0}
  <2>1. /\ pc = "select" /\ stack' = Append(SubSeq(stack, 1, Len(stack) - 1), t)
        /\ pc' = "components" /\ UNCHANGED <<fixed, assumptions>>
    BY <1>7 DEF NothingToDecide, EndDecisionNode
  <2> HIDE DEF r
  <2>2. Top \in Level(W) /\ r \in W /\ 0 \in W
    BY <1>1, LevelGrows
  <2> HIDE DEF W
  <2>3. /\ t \in Level(W) /\ t.set = Top.set /\ t.units = Top.units /\ t.todo = Top.todo
        /\ t.connected = {} /\ t.cut = {}
    BY <2>2, EndedFacts
  <2> HIDE DEF t
  <2>4. Counts(t, Top)
    BY <2>3 DEF Counts
  <2> QED
    BY <2>1, <2>4, TopCounts
<1> QED
  BY <1>3, <1>4, <1>5, <1>6, <1>7

\* A call that is solved is right: its assumptions are satisfiable, its units
\* follow from them, and its components are closed.
LEMMA CallSolved ==
  ASSUME IInv, SolveInv, SolveSat, IInv'
  PROVE  SolveInv'
<1> DEFINE n == Len(stack)
           as == assumptions
           units == Over(trail', Top.set)
           free == FreeVariables(OccClauses, Top.set, occ')
           todo == Components(OccClauses, Top.set, occ')
           t == [Top EXCEPT !.units = units, !.free = free, !.todo = todo]
<1>1. /\ pc = "solve" /\ SolvedLocally /\ trail' \in Trails /\ occ' = occ \cup units
      /\ stack' = [stack EXCEPT ![n] = t]
      /\ pc' = "components" /\ UNCHANGED <<fixed, assumptions>>
  BY DEF SolveSat, SetTop
<1>2. PICK V : stack \in Seq(Level(V)) /\ Top \in Level(V)
  BY TopFacts
<1>3. n \in Nat \ {0} /\ n = Len(stack) /\ as = assumptions
  BY StateFacts
<1>4. /\ Top.set \in SUBSET Var /\ fixed \in SUBSET Literal /\ occ \in SUBSET Literal
      /\ Assumed \in SUBSET Literal /\ Assumed = Before(as, n)
      /\ Closed(OccClauses, Top.set, occ)
      /\ \A M \in Models : Assumed \subseteq M => fixed \cup occ \subseteq M
  BY <1>1, AskedFacts
<1>5. PICK T : T = trail'
  OBVIOUS
<1>6. T \in TrailsFrom(fixed \cup occ, Assumed)
  BY <1>1, <1>5 DEF Trails
<1>7. PICK M \in Models : Assumed \subseteq M
  BY <1>1, SolveDecides DEF Satisfiable
<1>8. ASSUME NEW K \in Models, Assumed \subseteq K
      PROVE  T \subseteq K /\ fixed \cup occ \subseteq T /\ Consequences[T] = T
  BY <1>4, <1>6, <1>8, TrailModel
<1>9. units = Over(T, Top.set)
  BY <1>5
<1>10. PICK p : p = occ'
  OBVIOUS
<1>11. Complete(OccClauses, p)
  <2>1. T \in SUBSET M /\ Consequences[T] = T /\ fixed \cup occ \subseteq T
    BY <1>7, <1>8
  <2>2. p = occ \cup Over(T, Top.set)
    BY <1>1, <1>9, <1>10
  <2> HIDE DEF units
  <2> QED
    BY <1>1, <1>7, <2>1, <2>2, UnitsLeave
<1>12. units \subseteq Implied[Assumed]
  <2>1. T \in SUBSET Literal
    BY <1>7, <1>8, ModelFacts
  <2>2. \A l \in units : l \in Literal /\ \A K \in Models : Assumed \subseteq K => l \in K
    BY <1>8, <1>9, <2>1 DEF Over
  <2> HIDE DEF units
  <2> QED
    BY <1>4, <2>2, ImpliedFacts
<1>13. \A D \in todo : Closed(OccClauses, D, p)
  <2>1. todo = Components(OccClauses, Top.set, p) /\ occ \subseteq p
    BY <1>1, <1>10
  <2> HIDE DEF todo
  <2> QED
    BY <1>4, <2>1, OccClausesFacts, ComponentsClosed
<1>14. Top.connected = {}
  BY <1>1 DEF IInv, FreshExact
<1> HIDE DEF units, todo, free
<1>15. t.units = units /\ t.todo = todo /\ t.connected = {}
  BY <1>2, <1>14 DEF Level
<1> HIDE DEF t
<1> DEFINE S == Level(V) \cup {t}
<1>16. PICK u : u = stack'
  OBVIOUS
<1>17. Len(u) = n /\ u[n] = t /\ \A k \in 1 .. n - 1 : u[k] = stack[k]
  <2>1. Level(V) \subseteq S
    OBVIOUS
  <2>2. stack \in Seq(S) /\ stack # <<>> /\ t \in S
    BY <1>2, <2>1, StateFacts
  <2> HIDE DEF S
  <2> QED
    BY <1>1, <1>16, <2>2, LastFacts
<1>18. p = UnitsOf(u, n)
  BY <1>1, <1>10, <1>16, <1>17 DEF IInv, OccExact, Active
<1> HIDE DEF n, as
<1>19. SolvedRight(OccClauses, u, as, n)
  <2>1. Satisfiable(Before(as, n))
    BY <1>4, <1>7 DEF Satisfiable
  <2>2. u[n].units \subseteq Implied[Before(as, n)]
    BY <1>4, <1>12, <1>15, <1>17
  <2>3. Closed(OccClauses, {}, p)
    BY DEF Closed
  <2>4. \A C \in u[n].todo \cup {u[n].connected} : Closed(OccClauses, C, UnitsOf(u, n))
    BY <1>13, <1>15, <1>17, <1>18, <2>3
  <2> QED
    BY <1>11, <1>18, <2>1, <2>2, <2>4 DEF SolvedRight
<1>20. \A k \in 1 .. n - 1 : SolvedRight(OccClauses, u, as, k)
  <2>1. n - 1 \in Nat /\ Solved = n - 1
    BY <1>1, <1>3 DEF Solved
  <2>2. \A k \in 1 .. n - 1 : SolvedRight(OccClauses, stack, as, k)
    BY <1>3, <2>1 DEF SolveInv, SolvedExact
  <2>3. \A k \in 1 .. n - 1 : Counts(u[k], stack[k])
    BY <1>17 DEF Counts
  <2> QED
    BY <2>1, <2>2, <2>3, SolvedSame
<1>21. \A k \in 1 .. n : SolvedRight(OccClauses, u, as, k)
  <2>1. \A k \in 1 .. n : k = n \/ k \in 1 .. n - 1
    BY <1>3
  <2> QED
    BY <1>19, <1>20, <2>1, Zenon
<1>22. OccClauses' = OccClauses /\ Solved' = n /\ assumptions' = as
  BY <1>1, <1>3, <1>16, <1>17 DEF OccClauses, Solved
<1> QED
  BY <1>1, <1>16, <1>21, <1>22 DEF SolveInv, SolvedExact

\* A decision leaves the calls as they are below the new one.
LEMMA DecisionKeeps ==
  ASSUME IInv, SolveInv, SelectVariable
  PROVE  SolveInv'
<1> DEFINE n == Len(stack)
<1>1. PICK v, phase :
        LET l == IF phase THEN v ELSE -v IN
        /\ assumptions' = Append(assumptions, l)
        /\ stack' = Append(SetTop([Top EXCEPT !.lit = l]), Branch(Top))
  BY DEF SelectVariable
<1>2. PICK l : /\ assumptions' = Append(assumptions, l)
               /\ stack' = Append(SetTop([Top EXCEPT !.lit = l]), Branch(Top))
               /\ pc = "select" /\ pc' = "solve" /\ UNCHANGED fixed
  BY <1>1 DEF SelectVariable
<1>3. PICK V : stack \in Seq(Level(V)) /\ Top \in Level(V)
  BY TopFacts
<1> DEFINE c == [Top EXCEPT !.lit = l]
           b == Branch(Top)
           S == Level(V) \cup {c, b}
           s == SetTop(c)
<1>4. /\ stack \in Seq(S) /\ c \in S /\ b \in S /\ n \in Nat \ {0} /\ stack # <<>> /\ Top = stack[n]
  <2>1. Level(V) \subseteq S
    OBVIOUS
  <2>2. stack \in Seq(S)
    BY <1>3, <2>1
  <2> QED
    BY <2>2, StateFacts DEF Top
<1>5. Counts(c, Top)
  BY <1>3 DEF Counts, Level
<1> HIDE DEF c, b, S
<1>6. s \in Seq(S) /\ Len(s) = n /\ s[n] = c /\ \A k \in 1 .. n - 1 : s[k] = stack[k]
  BY <1>4, LastFacts DEF SetTop
<1>7. PICK u, bs : u = stack' /\ bs = assumptions'
  OBVIOUS
<1>8. u = Append(s, b) /\ bs = Append(assumptions, l)
  BY <1>2, <1>7 DEF c, b
<1> HIDE DEF s
<1>9. Len(u) = n + 1 /\ \A k \in 1 .. n : u[k] = s[k]
  BY <1>4, <1>6, <1>8, PushFacts
<1>10. \A k \in 1 .. n - 1 : bs[k] = assumptions[k]
  <2>1. Len(assumptions) = n - 1 /\ assumptions \in Seq(Literal)
    BY StateFacts DEF IInv, Typed
  <2> DEFINE R == Literal \cup {l}
  <2>2. assumptions \in Seq(R) /\ l \in R
    <3>1. Literal \subseteq R
      OBVIOUS
    <3> QED
      BY <2>1, <3>1
  <2> HIDE DEF R
  <2> QED
    BY <1>8, <2>1, <2>2, PushFacts
<1>11. \A k \in 1 .. n : Counts(u[k], stack[k])
  <2>1. \A k \in 1 .. n : k = n \/ k \in 1 .. n - 1
    BY <1>4
  <2>2. \A k \in 1 .. n - 1 : Counts(stack[k], stack[k])
    BY DEF Counts
  <2> QED
    BY <1>4, <1>5, <1>6, <1>9, <2>1, <2>2
<1>12. Solved = Len(stack) /\ Solved' = Len(u) - 1
  BY <1>2, <1>7 DEF Solved
<1>13. PICK m : m = n
  OBVIOUS
<1>14. m \in Nat /\ m <= Solved /\ Solved' = m /\ Solved \in Int /\ UNCHANGED fixed
  BY <1>2, <1>4, <1>9, <1>12, <1>13
<1>15. /\ \A k \in 1 .. m : Counts(u[k], stack[k])
       /\ \A k \in 1 .. m - 1 : bs[k] = assumptions[k]
  BY <1>10, <1>11, <1>13
<1> HIDE DEF n
<1> QED
  BY <1>7, <1>14, <1>15, SolveKept

\* So does the change of branch.
LEMMA FirstBranchKeeps ==
  ASSUME IInv, SolveInv, FirstBranchReturns
  PROVE  SolveInv'
<1> DEFINE m == Len(stack) - 1
           c == [Caller EXCEPT !.pos = value]
           b == Branch(Caller)
<1>1. /\ Len(stack) > 1 /\ pc = "return" /\ pc' = "solve" /\ UNCHANGED fixed
      /\ assumptions' = OtherBranch(assumptions) /\ stack' = CallsBelow \o <<c, b>>
  BY DEF FirstBranchReturns
<1>2. m \in Nat \ {0} /\ m + 1 = Len(stack) /\ Len(assumptions) = m /\ Caller = stack[m]
  BY <1>1, CallerFacts
<1>3. PICK V : stack \in Seq(Level(V)) /\ \A k \in 1 .. Len(stack) : stack[k] \in Level(V)
  BY StateFacts
<1>4. Counts(c, Caller)
  <2>1. m \in 1 .. Len(stack)
    BY <1>2
  <2>2. Caller \in Level(V)
    BY <1>2, <1>3, <2>1
  <2> QED
    BY <2>2 DEF Counts, Level
<1> HIDE DEF c, b
<1> DEFINE S == Level(V) \cup {c, b}
<1>5. stack \in Seq(S) /\ c \in S /\ b \in S
  <2>1. Level(V) \subseteq S
    OBVIOUS
  <2> QED
    BY <1>3, <2>1
<1> HIDE DEF S
<1>6. PICK u, bs, below : u = stack' /\ bs = assumptions' /\ below = SubSeq(stack, 1, Len(stack) - 2)
  OBVIOUS
<1>7. Len(u) = m + 1 /\ u[m] = c /\ \A k \in 1 .. m - 1 : u[k] = stack[k]
  <2>1. Len(stack) - 2 = m - 1 /\ m - 1 + 1 = m /\ m - 1 + 2 = m + 1
    BY <1>2
  <2>2. /\ below \in Seq(S) /\ Len(below) = Len(stack) - 2
        /\ \A k \in 1 .. Len(stack) - 2 : below[k] = stack[k]
    BY <1>1, <1>5, <1>6, DropTwoFacts
  <2>3. u = below \o <<c, b>>
    BY <1>1, <1>6 DEF CallsBelow
  <2>4. /\ Len(u) = Len(below) + 2 /\ u[Len(below) + 1] = c
        /\ \A k \in 1 .. Len(below) : u[k] = below[k]
    BY <1>5, <2>2, <2>3, PushTwoFacts
  <2> HIDE DEF m
  <2> QED
    BY <2>1, <2>2, <2>4
<1>8. \A k \in 1 .. m - 1 : bs[k] = assumptions[k]
  <2>1. bs = [assumptions EXCEPT ![m] = -assumptions[m]] /\ assumptions \in Seq(Literal)
    BY <1>1, <1>2, <1>6 DEF OtherBranch, IInv, Typed
  <2> HIDE DEF m
  <2>2. \A k \in 1 .. m - 1 : k \in DOMAIN assumptions /\ k # m
    BY <1>2, <2>1
  <2> QED
    BY <2>1, <2>2
<1>9. \A k \in 1 .. m : Counts(u[k], stack[k])
  <2> HIDE DEF m
  <2>1. \A k \in 1 .. m : k = m \/ k \in 1 .. m - 1
    BY <1>2
  <2>2. \A k \in 1 .. m - 1 : Counts(stack[k], stack[k])
    BY DEF Counts
  <2> QED
    BY <1>2, <1>4, <1>7, <2>1, <2>2
<1>10. Solved = m /\ Solved' = m
  BY <1>1, <1>2, <1>6, <1>7 DEF Solved
<1>11. PICK n : n = m
  OBVIOUS
<1> HIDE DEF m
<1>12. n \in Nat /\ n <= Solved /\ Solved' = n /\ Solved \in Int /\ UNCHANGED fixed
  BY <1>1, <1>2, <1>10, <1>11
<1>13. /\ \A k \in 1 .. n : Counts(u[k], stack[k])
       /\ \A k \in 1 .. n - 1 : bs[k] = assumptions[k]
  BY <1>8, <1>9, <1>11
<1> QED
  BY <1>6, <1>12, <1>13, SolveKept

\* And the end of the second branch.
LEMMA SecondBranchKeeps ==
  ASSUME IInv, SolveInv, SecondBranchReturns
  PROVE  SolveInv'
<1> DEFINE m == Len(stack) - 1
           r == Caller.ret * (value + Caller.pos)
           t == [Caller EXCEPT !.ret = r, !.connected = {}, !.cut = {}, !.lit = 0, !.pos = 0]
<1>1. /\ Len(stack) > 1 /\ pc = "return" /\ pc' = "components" /\ UNCHANGED fixed
      /\ assumptions' = SubSeq(assumptions, 1, Len(assumptions) - 1)
      /\ stack' = Append(SubSeq(stack, 1, Len(stack) - 2), t)
  BY DEF SecondBranchReturns, EndDecisionNode, CallsBelow
<1>2. m \in Nat \ {0} /\ m + 1 = Len(stack) /\ Len(assumptions) = m /\ Caller = stack[m]
  BY <1>1, CallerFacts
<1>3. PICK V : stack \in Seq(Level(V)) /\ \A k \in 1 .. Len(stack) : stack[k] \in Level(V)
  BY StateFacts
<1> HIDE DEF r
<1> DEFINE W == V \cup {r, 0}
<1>4. Caller \in Level(W)
  <2>1. m \in 1 .. Len(stack)
    BY <1>2
  <2>2. Caller \in Level(V)
    BY <1>2, <1>3, <2>1
  <2> QED
    BY <2>2, LevelGrows
<1>5. /\ t \in Level(W) /\ t.set = Caller.set /\ t.units = Caller.units /\ t.todo = Caller.todo
      /\ t.connected = {} /\ t.cut = {}
  <2>1. r \in W /\ 0 \in W
    OBVIOUS
  <2> HIDE DEF W
  <2> QED
    BY <1>4, <2>1, EndedFacts
<1> HIDE DEF t
<1>6. Counts(t, Caller)
  BY <1>5 DEF Counts
<1> DEFINE S == Level(V) \cup {t}
<1>7. stack \in Seq(S) /\ t \in S
  <2>1. Level(V) \subseteq S
    OBVIOUS
  <2> QED
    BY <1>3, <2>1
<1> HIDE DEF S
<1>8. PICK u, bs, below : u = stack' /\ bs = assumptions' /\ below = SubSeq(stack, 1, Len(stack) - 2)
  OBVIOUS
<1>9. Len(u) = m /\ u[m] = t /\ \A k \in 1 .. m - 1 : u[k] = stack[k]
  <2>1. Len(stack) - 2 = m - 1 /\ m - 1 + 1 = m
    BY <1>2
  <2>2. /\ below \in Seq(S) /\ Len(below) = Len(stack) - 2
        /\ \A k \in 1 .. Len(stack) - 2 : below[k] = stack[k]
    BY <1>1, <1>7, <1>8, DropTwoFacts
  <2>3. u = Append(below, t)
    BY <1>1, <1>8
  <2> HIDE DEF m
  <2> QED
    BY <1>7, <2>1, <2>2, <2>3, PushFacts
<1>10. \A k \in 1 .. m - 1 : bs[k] = assumptions[k]
  <2>1. assumptions \in Seq(Literal) /\ assumptions # <<>>
    BY <1>2, EmptySeq DEF IInv, Typed
  <2> HIDE DEF m
  <2> QED
    BY <1>1, <1>2, <1>8, <2>1, PopFacts
<1>11. \A k \in 1 .. m : Counts(u[k], stack[k])
  <2> HIDE DEF m
  <2>1. \A k \in 1 .. m : k = m \/ k \in 1 .. m - 1
    BY <1>2
  <2>2. \A k \in 1 .. m - 1 : Counts(stack[k], stack[k])
    BY DEF Counts
  <2> QED
    BY <1>2, <1>6, <1>9, <2>1, <2>2
<1>12. Solved = m /\ Solved' = m
  BY <1>1, <1>2, <1>8, <1>9 DEF Solved
<1>13. PICK n : n = m
  OBVIOUS
<1> HIDE DEF m
<1>14. n \in Nat /\ n <= Solved /\ Solved' = n /\ Solved \in Int /\ UNCHANGED fixed
  BY <1>1, <1>2, <1>12, <1>13
<1>15. /\ \A k \in 1 .. n : Counts(u[k], stack[k])
       /\ \A k \in 1 .. n - 1 : bs[k] = assumptions[k]
  BY <1>10, <1>11, <1>13
<1> QED
  BY <1>8, <1>14, <1>15, SolveKept

\* What the solver has fixed before the search follows from the formula.
LEMMA InitSolve ==
  ASSUME Init
  PROVE  SolveInv
<1>1. fixed \in TrailsFrom({}, {}) /\ pc = "solve" /\ Len(stack) = 1
  BY DEF Init, InitSearch
<1>2. fixed \in SUBSET Literal
  BY <1>1, TrailFacts
<1>3. \A M \in Models : fixed \subseteq M
  BY <1>1, TrailModel
<1>4. fixed \subseteq Implied[{}]
  BY <1>2, <1>3, ImpliedFacts
<1>5. Solved = 0
  BY <1>1 DEF Solved
<1> QED
  BY <1>4, <1>5 DEF SolveInv, SolvedExact

-----------------------------------------------------------------------------
(* The theorems.                                                           *)

\* What has been solved is right in every state of the search.
THEOREM SolveCorrect == Spec => []SolveInv
<1>1. Init => SolveInv
  BY InitSolve
<1>2. IInv /\ IInv' /\ SolveInv /\ [Next]_vars => SolveInv'
  <2> SUFFICES ASSUME IInv, IInv', SolveInv, [Next]_vars
               PROVE  SolveInv'
    OBVIOUS
  <2>1. CASE \/ SolveUnsat \/ PositiveHit \/ NegativeHit \/ EndComponents \/ ComputePartition
             \/ SkipPartition \/ NothingToDecide \/ Finish \/ UNCHANGED vars
    BY <2>1, CallCounts
  <2>2. CASE SolveSat
    BY <2>2, CallSolved
  <2>3. CASE SelectVariable
    BY <2>3, DecisionKeeps
  <2>4. CASE FirstBranchReturns
    BY <2>4, FirstBranchKeeps
  <2>5. CASE SecondBranchReturns
    BY <2>5, SecondBranchKeeps
  <2> QED
    BY <2>1, <2>2, <2>3, <2>4, <2>5 DEF Next
<1> QED
  BY <1>1, <1>2, SearchCorrect, PTL DEF Spec

\* Invariant: the solver decides the variables of one component only, from what
\* is assigned, and its answer is the satisfiability of the whole formula under
\* the branch (ModelCounter::computeNbModel_, solveWithAssumptions).
THEOREM LocalSolveCorrect == Spec => []LocalSolveDecides
<1>1. IInv /\ SolveInv => LocalSolveDecides
  BY SolveDecides DEF LocalSolveDecides
<1> QED
  BY <1>1, SearchCorrect, SolveCorrect, PTL

\* Invariant: what preUpdate is given has no conflict and leaves no clause
\* without an unassigned literal, and none with one variable unless it holds
\* both its literals (ModelCounter::computeNbModel_, preUpdate).
THEOREM UnitsCompleteCorrect == Spec => []UnitsComplete
<1>1. IInv /\ SolveInv => UnitsComplete
  <2> SUFFICES ASSUME IInv, SolveInv, pc = "components"
               PROVE  /\ ~Conflicting(occ)
                      /\ \A c \in Unsatisfied(OccClauses, occ) :
                           Cardinality(VarsOf(Left(c, occ))) >= 2 \/ Conflicting(c)
    BY DEF UnitsComplete
  <2> DEFINE n == Len(stack)
             as == assumptions
  <2>1. n \in Nat \ {0} /\ n \in 1 .. n /\ occ = UnitsOf(stack, n) /\ Len(as) = n - 1
        /\ Solved = n /\ as \in Seq(Literal)
    BY StateFacts DEF IInv, Typed, OccExact, Active, Solved
  <2> HIDE DEF n
  <2>2. \A k \in 1 .. n : SolvedRight(OccClauses, stack, as, k)
    BY <2>1 DEF SolveInv, SolvedExact
  <2>3. Complete(OccClauses, occ)
    BY <2>1, <2>2 DEF SolvedRight
  <2>4. PICK M \in Models : Before(as, n) \subseteq M
    BY <2>1, <2>2, Zenon DEF SolvedRight, Satisfiable
  <2>5. ASSUME NEW k \in 1 .. n
        PROVE  stack[k].units \subseteq M
    <3>1. stack[k].units \subseteq Implied[Before(as, k)]
      BY <2>2 DEF SolvedRight
    <3>2. \A j \in 1 .. k - 1 : j \in 1 .. n - 1 /\ as[j] \in Literal
      BY <2>1
    <3>3. Before(as, k) \subseteq M /\ Before(as, k) \in SUBSET Literal
      BY <2>4, <3>2 DEF Before
    <3>4. Implied[Before(as, k)] \subseteq M
      BY <3>3, ImpliedFacts
    <3> QED
      BY <3>1, <3>4
  <2>6. occ \subseteq M
    BY <2>1, <2>5 DEF UnitsOf
  <2>7. ~Conflicting(occ)
    BY <2>6, ModelFacts DEF Conflicting
  <2> QED
    BY <2>3, <2>7 DEF Complete
<1> QED
  BY <1>1, SearchCorrect, SolveCorrect, PTL
=============================================================================
