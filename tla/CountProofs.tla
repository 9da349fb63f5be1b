----------------------------- MODULE CountProofs -----------------------------
(***************************************************************************)
(* What the model counter counts is the count of the formula.              *)
(*                                                                         *)
(* The argument.  Rest(cls, o, C) is the count of the clauses left over    *)
(* the variables C under the literals o.  Over separate sets of variables  *)
(* it is a product, for free variables the product of their weights, and a *)
(* decision splits it in a sum.  The invariant CountInv says of every      *)
(* call that has been solved that what it will return, Wanted, is what its *)
(* product (ret), its units and free variables, its decision node and the  *)
(* components it has left are worth together (Due); of every decision that *)
(* is on its second branch that pos is the count of the first; and of      *)
(* every value in the cache that it is the count of a component with that  *)
(* key.  Two components with the same key have the same count (KeySound)   *)
(* although the key omits clauses: units being propagated, an omitted      *)
(* clause has all its literals left, so that it is a clause of the formula *)
(* over these variables, and left wherever they are unassigned.            *)
(*                                                                         *)
(* CountInv is kept by every step but one.  NothingToDecide counts a       *)
(* component without a variable to decide on as 1; LossFree says that it   *)
(* is worth 1.  LossFree is not an invariant of d4 -mc: run counter_lost   *)
(* shows the two ways it fails.  So the theorems assume []LossFree, and    *)
(* PlainCorrect says where it holds.                                       *)
(***************************************************************************)
EXTENDS ModelCounterProofs

-----------------------------------------------------------------------------
(* Weights.                                                                *)

\* The sum over a set of partial assignments, and what a count is projected on.
Total(X) == MapThenSumSet(WeightOf, X)
Projections(X) == {Over(m, Projected) : m \in X}
Joined(A, B) == UNION {{a \cup b : b \in B} : a \in A}

LEMMA LiteralFinite == IsFiniteSet(Literal) /\ IsFiniteSet(SUBSET Literal)
<1>1. IsFiniteSet({-v : v \in Var})
  <2> DEFINE f == [v \in Var |-> -v]
  <2>1. f \in Surjection(Var, {-v : v \in Var})
    BY DEF Surjection
  <2> QED
    BY <2>1, VarAssumption, FS_Surjection
<1>2. IsFiniteSet(Literal)
  BY <1>1, VarAssumption, FS_Union DEF Literal
<1> QED
  BY <1>2, FS_SUBSET

\* The weights are folds.
LEMMA WeightIs ==
  ASSUME NEW S
  PROVE  WeightOf(S) = Fold("product", Weight, S)
BY DEF WeightOf, FoldSet, MapThenFoldSet, Fold, IsFold, FoldStep, Combine, Neutral

Weights == [m \in SUBSET Literal |-> WeightOf(m)]
LEMMA TotalIs ==
  ASSUME NEW X \in SUBSET (SUBSET Literal)
  PROVE  Total(X) = Fold("sum", Weights, X)
<1> DEFINE pick(s) == CHOOSE x \in s : TRUE
           sums(f) == [s \in SUBSET X |-> IF s = {} THEN 0 ELSE WeightOf(pick(s)) + f[s \ {pick(s)}]]
           steps(f) == [s \in SUBSET X |-> FoldStep("sum", Weights, s, f)]
<1>1. \A s \in SUBSET X : s # {} => Weights[pick(s)] = WeightOf(pick(s))
  <2>1. \A s \in SUBSET X : s # {} => pick(s) \in SUBSET Literal
    OBVIOUS
  <2> HIDE DEF pick
  <2> QED
    BY <2>1 DEF Weights
<1>2. ASSUME NEW f
      PROVE  sums(f) = steps(f)
  <2>1. \A s \in SUBSET X : FoldStep("sum", Weights, s, f)
                              = IF s = {} THEN 0 ELSE Weights[pick(s)] + f[s \ {pick(s)}]
    BY DEF FoldStep, Combine, Neutral
  <2> HIDE DEF pick
  <2> QED
    BY <1>1, <2>1
<1>3. Total(X) = (CHOOSE f : f = sums(f))[X]
  BY DEF Total, MapThenSumSet, MapThenFoldSet
<1>4. Fold("sum", Weights, X) = (CHOOSE f : f = steps(f))[X]
  BY DEF Fold, IsFold
<1> HIDE DEF sums, steps
<1> QED
  BY <1>2, <1>3, <1>4

VarWeights == [v \in Var |-> Weight[v] + Weight[-v]]
FreeWeight(F) == FoldSet(LAMBDA v, w : (Weight[v] + Weight[-v]) * w, 1, F)
LEMMA FreeIs ==
  ASSUME NEW F \in SUBSET Var
  PROVE  FreeWeight(F) = Fold("product", VarWeights, F)
BY DEF FreeWeight, FoldSet, MapThenFoldSet, Fold, IsFold, FoldStep, Combine, Neutral, VarWeights
\* A product over literals.
LEMMA WeightFacts ==
  /\ \A S \in SUBSET Literal : WeightOf(S) \in Int
  /\ WeightOf({}) = 1
  /\ \A l \in Literal : WeightOf({l}) = Weight[l]
  /\ \A S, T \in SUBSET Literal : S \cap T = {} => WeightOf(S \cup T) = WeightOf(S) * WeightOf(T)
<1>1. \A S \in SUBSET Literal : IsFiniteSet(S) /\ \A l \in S : Weight[l] \in Int
  BY LiteralFinite, FS_Subset, WeightAssumption
<1>2. \A S \in SUBSET Literal : WeightOf(S) \in Int
  BY <1>1, LiteralFinite, FoldNumber, WeightIs
<1>3. WeightOf({}) = 1
  <2>1. Fold("product", Weight, {}) = Neutral("product")
    BY <1>1, FoldIs
  <2> QED
    BY <2>1, WeightIs DEF Neutral
<1>4. ASSUME NEW l \in Literal
      PROVE  WeightOf({l}) = Weight[l]
  <2>1. {l} \in SUBSET Literal /\ {l} \ {l} = {} /\ Weight[l] \in Int
    BY <1>1
  <2>2. Fold("product", Weight, {l}) = Combine("product", Weight[l], Fold("product", Weight, {}))
    BY <1>1, <2>1, FoldTake
  <2>3. WeightOf({l}) = Weight[l] * WeightOf({})
    BY <2>2, WeightIs DEF Combine
  <2> QED
    BY <1>3, <2>1, <2>3
<1>5. ASSUME NEW S \in SUBSET Literal, NEW T \in SUBSET Literal, S \cap T = {}
      PROVE  WeightOf(S \cup T) = WeightOf(S) * WeightOf(T)
  <2>1. IsFiniteSet(S) /\ IsFiniteSet(T) /\ \A l \in S \cup T : Weight[l] \in Int
    BY <1>1
  <2>2. Fold("product", Weight, S \cup T)
          = Combine("product", Fold("product", Weight, S), Fold("product", Weight, T))
    BY <1>5, <2>1, FoldUnion
  <2> QED
    BY <2>2, WeightIs DEF Combine
<1> QED
  BY <1>2, <1>3, <1>4, <1>5

\* A sum over partial assignments.
LEMMA TotalFacts ==
  /\ \A X \in SUBSET (SUBSET Literal) : Total(X) \in Int
  /\ Total({}) = 0
  /\ \A m \in SUBSET Literal : Total({m}) = WeightOf(m)
  /\ \A X, Y \in SUBSET (SUBSET Literal) : X \cap Y = {} => Total(X \cup Y) = Total(X) + Total(Y)
<1>1. \A X \in SUBSET (SUBSET Literal) : IsFiniteSet(X) /\ \A m \in X : Weights[m] \in Int /\ Weights[m] = WeightOf(m)
  BY LiteralFinite, FS_Subset, WeightFacts DEF Weights
<1>2. \A X \in SUBSET (SUBSET Literal) : Total(X) \in Int
  <2>1. \A X \in SUBSET (SUBSET Literal) : Fold("sum", Weights, X) \in Int
    BY <1>1, LiteralFinite, FoldNumber
  <2> QED
    BY <2>1, TotalIs
<1>3. Total({}) = 0
  <2>1. Fold("sum", Weights, {}) = Neutral("sum")
    BY <1>1, FoldIs
  <2> QED
    BY <2>1, TotalIs DEF Neutral
<1>4. ASSUME NEW m \in SUBSET Literal
      PROVE  Total({m}) = WeightOf(m)
  <2>1. {m} \in SUBSET (SUBSET Literal) /\ {m} \ {m} = {} /\ Weights[m] = WeightOf(m) /\ WeightOf(m) \in Int
    BY <1>1
  <2>2. Fold("sum", Weights, {m}) = Combine("sum", Weights[m], Fold("sum", Weights, {}))
    BY <1>1, <2>1, FoldTake
  <2>3. Total({m}) = Weights[m] + Total({})
    BY <2>1, <2>2, TotalIs DEF Combine
  <2> QED
    BY <1>3, <2>1, <2>3
<1>5. ASSUME NEW X \in SUBSET (SUBSET Literal), NEW Y \in SUBSET (SUBSET Literal), X \cap Y = {}
      PROVE  Total(X \cup Y) = Total(X) + Total(Y)
  <2>1. IsFiniteSet(X) /\ IsFiniteSet(Y) /\ \A m \in X \cup Y : Weights[m] \in Int
    BY <1>1
  <2>2. Fold("sum", Weights, X \cup Y) = Combine("sum", Fold("sum", Weights, X), Fold("sum", Weights, Y))
    BY <1>5, <2>1, FoldUnion
  <2> QED
    BY <2>2, TotalIs DEF Combine
<1> QED
  BY <1>2, <1>3, <1>4, <1>5

\* What is over different variables can be taken apart again.
Sides(P, Q, u, w) == P \cap Q = {} /\ VarsOf(u) \subseteq P /\ VarsOf(w) \subseteq Q

LEMMA JoinParts ==
  ASSUME NEW P, NEW Q, NEW u, NEW w, Sides(P, Q, u, w)
  PROVE  Over(u \cup w, P) = u /\ Over(u \cup w, Q) = w /\ u \cap w = {}
BY DEF Sides, Over, VarsOf

\* Sets of literals over C.
Within(R, C) == \A c \in R : VarsOf(c) \subseteq C

\* A joining is made of the parts.
LEMMA JoinedIs ==
  ASSUME NEW A, NEW B, NEW m
  PROVE  m \in Joined(A, B) <=> \E a \in A : \E b \in B : m = a \cup b
BY DEF Joined

\* One partial assignment with all of B.
LEMMA JoinOne ==
  ASSUME NEW C, NEW D, C \cap D = {}, NEW a \in SUBSET Literal, VarsOf(a) \subseteq C,
         NEW B \in SUBSET (SUBSET Literal), Within(B, D)
  PROVE  Total(Joined({a}, B)) = WeightOf(a) * Total(B)
<1> DEFINE Good == {T \in SUBSET B : Total(Joined({a}, T)) = WeightOf(a) * Total(T)}
<1>1. IsFiniteSet(B)
  BY LiteralFinite, FS_Subset
<1>2. ASSUME NEW T \in SUBSET B, \A x \in T : T \ {x} \in Good
      PROVE  Total(Joined({a}, T)) = WeightOf(a) * Total(T)
  <2>1. CASE T = {}
    <3>1. Joined({a}, T) = {}
      BY <2>1 DEF Joined
    <3>2. WeightOf(a) \in Int /\ Total({}) = 0
      BY WeightFacts, TotalFacts
    <3>3. \A w \in Int : w * 0 = 0
      OBVIOUS
    <3> QED
      BY <2>1, <3>1, <3>2, <3>3
  <2>2. CASE T # {}
    <3>1. PICK x \in T : TRUE
      BY <2>2
    <3> DEFINE R == T \ {x}
    <3>2. R \in SUBSET (SUBSET Literal) /\ x \in SUBSET Literal /\ T = R \cup {x} /\ R \cap {x} = {}
      BY <3>1
    <3>3. Joined({a}, T) = Joined({a}, R) \cup {a \cup x}
      BY <3>2 DEF Joined
    <3>4. Joined({a}, R) \in SUBSET (SUBSET Literal) /\ a \cup x \in SUBSET Literal
      BY <3>2 DEF Joined
    <3>5. a \cup x \notin Joined({a}, R)
      <4>1. ASSUME NEW y \in R, a \cup x = a \cup y
            PROVE  x = y
        <5>1. Sides(C, D, a, x) /\ Sides(C, D, a, y)
          BY <3>1 DEF Sides, Within
        <5>2. Over(a \cup x, D) = x /\ Over(a \cup y, D) = y
          BY <5>1 DEF Sides, Over, VarsOf
        <5> QED
          BY <4>1, <5>2
      <4> QED
        BY <3>2, <4>1 DEF Joined
    <3>6. Total(Joined({a}, R)) = WeightOf(a) * Total(R)
      BY <1>2, <3>1
    <3>7. WeightOf(a \cup x) = WeightOf(a) * WeightOf(x)
      <4>1. Sides(C, D, a, x)
        BY <3>1 DEF Sides, Within
      <4>2. a \cap x = {}
        BY <4>1 DEF Sides, VarsOf
      <4> QED
        BY <3>2, <4>2, WeightFacts
    <3>8. Total(T) = Total(R) + WeightOf(x)
      BY <3>2, TotalFacts
    <3>9. Total(Joined({a}, T)) = Total(Joined({a}, R)) + WeightOf(a \cup x)
      <4> DEFINE X == Joined({a}, R)
                 y == a \cup x
      <4>1. /\ X \in SUBSET (SUBSET Literal) /\ {y} \in SUBSET (SUBSET Literal) /\ X \cap {y} = {}
            /\ y \in SUBSET Literal /\ Joined({a}, T) = X \cup {y}
        BY <3>3, <3>4, <3>5
      <4> HIDE DEF X, y
      <4>2. Total(X \cup {y}) = Total(X) + Total({y}) /\ Total({y}) = WeightOf(y)
        BY <4>1, TotalFacts
      <4> QED
        BY <4>1, <4>2 DEF X, y
    <3>10. WeightOf(a) \in Int /\ WeightOf(x) \in Int /\ Total(R) \in Int
      BY <3>2, WeightFacts, TotalFacts
    <3>11. \A w, y, z \in Int : w * y + w * z = w * (y + z)
      OBVIOUS
    <3> HIDE DEF R
    <3> QED
      BY <3>6, <3>7, <3>8, <3>9, <3>10, <3>11
  <2> QED
    BY <2>1, <2>2
<1>3. \A T \in SUBSET B : (\A x \in T : T \ {x} \in Good) => T \in Good
  BY <1>2
<1> HIDE DEF Good
<1>4. \A T \in SUBSET B : T \in Good
  BY <1>1, <1>3, SetInduction
<1> QED
  BY <1>4 DEF Good

\* All with all: the sum of the products is the product of the sums.
LEMMA JoinAll ==
  ASSUME NEW C, NEW D, C \cap D = {},
         NEW A \in SUBSET (SUBSET Literal), Within(A, C),
         NEW B \in SUBSET (SUBSET Literal), Within(B, D)
  PROVE  Total(Joined(A, B)) = Total(A) * Total(B)
<1> DEFINE Good == {T \in SUBSET A : Total(Joined(T, B)) = Total(T) * Total(B)}
<1>1. IsFiniteSet(A)
  BY LiteralFinite, FS_Subset
<1>2. ASSUME NEW T \in SUBSET A, \A x \in T : T \ {x} \in Good
      PROVE  Total(Joined(T, B)) = Total(T) * Total(B)
  <2>1. CASE T = {}
    <3>1. Joined(T, B) = {}
      BY <2>1 DEF Joined
    <3>2. Total(B) \in Int /\ Total({}) = 0
      BY TotalFacts
    <3>3. \A w \in Int : 0 * w = 0
      OBVIOUS
    <3> QED
      BY <2>1, <3>1, <3>2, <3>3
  <2>2. CASE T # {}
    <3>1. PICK x \in T : TRUE
      BY <2>2
    <3> DEFINE R == T \ {x}
    <3>2. R \in SUBSET (SUBSET Literal) /\ x \in SUBSET Literal /\ T = R \cup {x} /\ R \cap {x} = {}
          /\ VarsOf(x) \subseteq C
      BY <3>1 DEF Within
    <3>3. Joined(T, B) = Joined(R, B) \cup Joined({x}, B)
      BY <3>2 DEF Joined
    <3>4. Joined(R, B) \in SUBSET (SUBSET Literal) /\ Joined({x}, B) \in SUBSET (SUBSET Literal)
      BY <3>2 DEF Joined
    <3>5. Joined(R, B) \cap Joined({x}, B) = {}
      <4>1. ASSUME NEW y \in R, NEW b \in B, NEW e \in B, y \cup b = x \cup e
            PROVE  FALSE
        <5>1. Sides(C, D, y, b) /\ Sides(C, D, x, e)
          BY <3>1 DEF Sides, Within
        <5>2. Over(y \cup b, C) = y /\ Over(x \cup e, C) = x
          BY <5>1, JoinParts
        <5> QED
          BY <4>1, <5>2
      <4> QED
        BY <4>1 DEF Joined
    <3>6. Total(Joined(R, B)) = Total(R) * Total(B)
      BY <1>2, <3>1
    <3>7. Total(Joined({x}, B)) = WeightOf(x) * Total(B)
      BY <3>2, JoinOne
    <3>8. Total(T) = Total(R) + WeightOf(x)
      BY <3>2, TotalFacts
    <3>9. Total(Joined(T, B)) = Total(Joined(R, B)) + Total(Joined({x}, B))
      BY <3>3, <3>4, <3>5, TotalFacts
    <3>10. WeightOf(x) \in Int /\ Total(B) \in Int /\ Total(R) \in Int
      BY <3>2, WeightFacts, TotalFacts
    <3>11. \A w, y, z \in Int : y * w + z * w = (y + z) * w
      OBVIOUS
    <3> HIDE DEF R
    <3> QED
      BY <3>6, <3>7, <3>8, <3>9, <3>10, <3>11
  <2> QED
    BY <2>1, <2>2
<1>3. \A T \in SUBSET A : (\A x \in T : T \ {x} \in Good) => T \in Good
  BY <1>2
<1> HIDE DEF Good
<1>4. \A T \in SUBSET A : T \in Good
  BY <1>1, <1>3, SetInduction
<1> QED
  BY <1>4 DEF Good

-----------------------------------------------------------------------------
(* Counting over two sets of variables.                                    *)

\* An assignment of two sets is one of each.
LEMMA AssignJoin ==
  ASSUME NEW C \in SUBSET Var, NEW D \in SUBSET Var, C \cap D = {}
  PROVE  Assignments(C \cup D) = Joined(Assignments(C), Assignments(D))
<1>1. ASSUME NEW m \in Assignments(C \cup D), NEW E \in SUBSET (C \cup D)
      PROVE  Over(m, E) \in Assignments(E)
  <2>1. /\ m \in SUBSET Literal /\ ~Conflicting(m) /\ C \cup D \in SUBSET Var /\ E \in SUBSET Var
        /\ \A l \in Literal : VarOf(l) \in C \cup D => l \in m \/ -l \in m
    BY <1>1, AssignmentFacts
  <2>2. \A v \in E : v \in Over(m, E) \/ -v \in Over(m, E)
    BY <2>1, VarFacts DEF Over
  <2>3. /\ Over(m, E) \in SUBSET Literal /\ ~Conflicting(Over(m, E))
        /\ \A l \in Over(m, E) : VarOf(l) \in E
    BY <2>1 DEF Over, Conflicting
  <2> QED
    BY <2>1, <2>2, <2>3, IsAssignment
<1>2. ASSUME NEW m \in Assignments(C \cup D)
      PROVE  m \in Joined(Assignments(C), Assignments(D))
  <2>1. C \cup D \in SUBSET Var
    OBVIOUS
  <2>2. \A l \in m : VarOf(l) \in C \cup D
    BY <1>2, <2>1, AssignmentFacts
  <2>3. m = Over(m, C) \cup Over(m, D)
    BY <2>2 DEF Over
  <2>4. Over(m, C) \in Assignments(C) /\ Over(m, D) \in Assignments(D)
    BY <1>1, <1>2
  <2> QED
    BY <2>3, <2>4 DEF Joined
<1>3. ASSUME NEW a \in Assignments(C), NEW b \in Assignments(D)
      PROVE  a \cup b \in Assignments(C \cup D)
  <2>1. /\ a \in SUBSET Literal /\ ~Conflicting(a) /\ \A l \in a : VarOf(l) \in C
        /\ \A l \in Literal : VarOf(l) \in C => l \in a \/ -l \in a
    BY AssignmentFacts
  <2>2. /\ b \in SUBSET Literal /\ ~Conflicting(b) /\ \A l \in b : VarOf(l) \in D
        /\ \A l \in Literal : VarOf(l) \in D => l \in b \/ -l \in b
    BY AssignmentFacts
  <2>3. \A l \in a \cup b : -l \notin a \cup b
    <3>1. \A l \in a \cup b : VarOf(-l) = VarOf(l)
      BY <2>1, <2>2, VarFacts
    <3> QED
      BY <2>1, <2>2, <3>1 DEF Conflicting
  <2>4. \A v \in C \cup D : v \in a \cup b \/ -v \in a \cup b
    BY <2>1, <2>2, VarFacts
  <2>5. /\ a \cup b \in SUBSET Literal /\ ~Conflicting(a \cup b) /\ C \cup D \in SUBSET Var
        /\ \A l \in a \cup b : VarOf(l) \in C \cup D
    BY <2>1, <2>2, <2>3 DEF Conflicting
  <2> QED
    BY <2>4, <2>5, IsAssignment
<1>4. ASSUME NEW m \in Joined(Assignments(C), Assignments(D))
      PROVE  m \in Assignments(C \cup D)
  <2>1. PICK a \in Assignments(C) : \E b \in Assignments(D) : m = a \cup b
    BY JoinedIs
  <2> QED
    BY <1>3, <2>1
<1> QED
  BY <1>2, <1>4

\* What is over C.
LEMMA ModelsOverFacts ==
  ASSUME NEW cls, NEW C \in SUBSET Var
  PROVE  /\ ModelsOver(cls, C) \in SUBSET (SUBSET Literal)
         /\ Within(ModelsOver(cls, C), C)
         /\ Projections(ModelsOver(cls, C)) \in SUBSET (SUBSET Literal)
         /\ Within(Projections(ModelsOver(cls, C)), C)
<1>1. ASSUME NEW m \in ModelsOver(cls, C)
      PROVE  m \in SUBSET Literal /\ VarsOf(m) \subseteq C
  <2>1. m \in Assignments(C)
    BY DEF ModelsOver
  <2>2. m \in SUBSET Literal /\ \A l \in m : VarOf(l) \in C
    BY <2>1, AssignmentFacts
  <2> QED
    BY <2>2 DEF VarsOf
<1>2. ASSUME NEW m \in ModelsOver(cls, C)
      PROVE  Over(m, Projected) \in SUBSET Literal /\ VarsOf(Over(m, Projected)) \subseteq C
  BY <1>1 DEF Over, VarsOf
<1> QED
  BY <1>1, <1>2 DEF Projections, Within

LEMMA CountIs ==
  ASSUME NEW cls, NEW C \in SUBSET Var
  PROVE  Count(cls, C) = Total(Projections(ModelsOver(cls, C))) /\ Count(cls, C) \in Int
<1>1. Count(cls, C) = Total(Projections(ModelsOver(cls, C)))
  BY DEF Count, Total, Projections
<1> QED
  BY <1>1, ModelsOverFacts, TotalFacts

\* The projections of joined assignments.
LEMMA ProjectionsJoined ==
  ASSUME NEW X, NEW Y
  PROVE  Projections(Joined(X, Y)) = Joined(Projections(X), Projections(Y))
<1>1. \A a, b : Over(a \cup b, Projected) = Over(a, Projected) \cup Over(b, Projected)
  BY DEF Over
<1>2. ASSUME NEW m \in Joined(X, Y)
      PROVE  Over(m, Projected) \in Joined(Projections(X), Projections(Y))
  <2>1. PICK a \in X : \E b \in Y : m = a \cup b
    BY JoinedIs
  <2>2. PICK b \in Y : m = a \cup b
    BY <2>1
  <2>3. Over(a, Projected) \in Projections(X) /\ Over(b, Projected) \in Projections(Y)
    BY DEF Projections
  <2> QED
    BY <1>1, <2>2, <2>3, JoinedIs
<1>3. ASSUME NEW m \in Joined(Projections(X), Projections(Y))
      PROVE  m \in Projections(Joined(X, Y))
  <2>1. PICK a \in X : \E b \in Y : m = Over(a, Projected) \cup Over(b, Projected)
    BY JoinedIs DEF Projections
  <2>2. PICK b \in Y : m = Over(a, Projected) \cup Over(b, Projected)
    BY <2>1
  <2>3. m = Over(a \cup b, Projected) /\ a \cup b \in Joined(X, Y)
    BY <1>1, <2>2, JoinedIs
  <2> QED
    BY <2>3 DEF Projections
<1> QED
  BY <1>2, <1>3 DEF Projections

\* The models of clauses over two sets of variables.
LEMMA ModelsJoin ==
  ASSUME NEW C \in SUBSET Var, NEW D \in SUBSET Var, C \cap D = {},
         NEW R, NEW Q, Within(R, C), Within(Q, D)
  PROVE  ModelsOver(R \cup Q, C \cup D) = Joined(ModelsOver(R, C), ModelsOver(Q, D))
<1>1. ASSUME NEW a \in Assignments(C), NEW b \in Assignments(D)
      PROVE  /\ \A c \in R : c \cap (a \cup b) = c \cap a
             /\ \A c \in Q : c \cap (a \cup b) = c \cap b
  <2>1. (\A l \in a : VarOf(l) \in C) /\ \A l \in b : VarOf(l) \in D
    BY AssignmentFacts
  <2>2. (\A c \in R : \A l \in c : VarOf(l) \in C) /\ \A c \in Q : \A l \in c : VarOf(l) \in D
    BY DEF Within, VarsOf
  <2> QED
    BY <2>1, <2>2
<1>2. ASSUME NEW a \in Assignments(C), NEW b \in Assignments(D)
      PROVE  (\A c \in R \cup Q : c \cap (a \cup b) # {})
               <=> (\A c \in R : c \cap a # {}) /\ (\A c \in Q : c \cap b # {})
  <2>1. (\A c \in R : c \cap (a \cup b) = c \cap a) /\ \A c \in Q : c \cap (a \cup b) = c \cap b
    BY <1>1
  <2> QED
    BY <2>1, Zenon
<1>3. Assignments(C \cup D) = Joined(Assignments(C), Assignments(D))
  BY AssignJoin
<1>4. ASSUME NEW m \in ModelsOver(R \cup Q, C \cup D)
      PROVE  m \in Joined(ModelsOver(R, C), ModelsOver(Q, D))
  <2>1. PICK a \in Assignments(C), b \in Assignments(D) : m = a \cup b
    BY <1>3, JoinedIs DEF ModelsOver
  <2>2. \A c \in R \cup Q : c \cap (a \cup b) # {}
    BY <2>1 DEF ModelsOver
  <2>3. a \in ModelsOver(R, C) /\ b \in ModelsOver(Q, D)
    BY <1>2, <2>2 DEF ModelsOver
  <2> QED
    BY <2>1, <2>3 DEF Joined
<1>5. ASSUME NEW a \in ModelsOver(R, C), NEW b \in ModelsOver(Q, D)
      PROVE  a \cup b \in ModelsOver(R \cup Q, C \cup D)
  <2>1. /\ a \in Assignments(C) /\ \A c \in R : c \cap a # {}
        /\ b \in Assignments(D) /\ \A c \in Q : c \cap b # {}
    BY DEF ModelsOver
  <2>2. \A c \in R \cup Q : c \cap (a \cup b) # {}
    BY <1>2, <2>1
  <2>3. a \cup b \in Assignments(C \cup D)
    BY <1>3, <2>1, JoinedIs
  <2> QED
    BY <2>2, <2>3 DEF ModelsOver
<1>6. ASSUME NEW m \in Joined(ModelsOver(R, C), ModelsOver(Q, D))
      PROVE  m \in ModelsOver(R \cup Q, C \cup D)
  <2>1. PICK a \in ModelsOver(R, C) : \E b \in ModelsOver(Q, D) : m = a \cup b
    BY JoinedIs
  <2> QED
    BY <1>5, <2>1
<1> QED
  BY <1>4, <1>6

\* So their count is the product of the counts.
LEMMA CountProduct ==
  ASSUME NEW C \in SUBSET Var, NEW D \in SUBSET Var, C \cap D = {},
         NEW R, NEW Q, Within(R, C), Within(Q, D)
  PROVE  Count(R \cup Q, C \cup D) = Count(R, C) * Count(Q, D)
<1> DEFINE A == Projections(ModelsOver(R, C))
           B == Projections(ModelsOver(Q, D))
<1>1. C \cup D \in SUBSET Var
  OBVIOUS
<1>2. Projections(ModelsOver(R \cup Q, C \cup D)) = Joined(A, B)
  BY ModelsJoin, ProjectionsJoined
<1>3. /\ A \in SUBSET (SUBSET Literal) /\ Within(A, C)
      /\ B \in SUBSET (SUBSET Literal) /\ Within(B, D)
  BY ModelsOverFacts
<1>4. Count(R \cup Q, C \cup D) = Total(Joined(A, B)) /\ Count(R, C) = Total(A) /\ Count(Q, D) = Total(B)
  BY <1>1, <1>2, CountIs
<1> HIDE DEF A, B
<1>5. Total(Joined(A, B)) = Total(A) * Total(B)
  BY <1>3, JoinAll
<1> QED
  BY <1>4, <1>5
\* The weight of free variables, one at a time.
LEMMA FreeFacts ==
  /\ FreeWeight({}) = 1
  /\ \A F \in SUBSET Var : FreeWeight(F) \in Int
  /\ \A F \in SUBSET Var : \A x \in F :
       FreeWeight(F) = (Weight[x] + Weight[-x]) * FreeWeight(F \ {x})
<1>1. \A v \in Var : VarWeights[v] \in Int /\ VarWeights[v] = Weight[v] + Weight[-v]
  BY VarFacts, WeightAssumption DEF VarWeights
<1>2. \A F \in SUBSET Var : IsFiniteSet(F) /\ \A v \in F : VarWeights[v] \in Int
  BY <1>1, VarAssumption, FS_Subset
<1>3. FreeWeight({}) = 1
  <2>1. Fold("product", VarWeights, {}) = Neutral("product")
    BY <1>2, FoldIs
  <2> QED
    BY <2>1, FreeIs DEF Neutral
<1>4. \A F \in SUBSET Var : FreeWeight(F) \in Int
  <2>1. \A F \in SUBSET Var : Fold("product", VarWeights, F) \in Int
    BY <1>2, VarAssumption, FoldNumber
  <2> QED
    BY <2>1, FreeIs
<1>5. ASSUME NEW F \in SUBSET Var, NEW x \in F
      PROVE  FreeWeight(F) = (Weight[x] + Weight[-x]) * FreeWeight(F \ {x})
  <2>1. Fold("product", VarWeights, F) = Combine("product", VarWeights[x], Fold("product", VarWeights, F \ {x}))
    BY <1>2, FoldTake
  <2>2. F \ {x} \in SUBSET Var
    OBVIOUS
  <2> QED
    BY <1>1, <2>1, <2>2, FreeIs DEF Combine
<1> QED
  BY <1>3, <1>4, <1>5

-----------------------------------------------------------------------------
(* What is left to count.                                                  *)

\* The count of what is left on C.
Rest(cls, o, C) == Count(Residual(cls, C, o), C)

LEMMA RestNumber ==
  ASSUME NEW cls, NEW o, NEW C \in SUBSET Var
  PROVE  /\ Rest(cls, o, C) = Total(Projections(ModelsOver(Residual(cls, C, o), C)))
         /\ Rest(cls, o, C) \in Int
BY CountIs DEF Rest

\* What is left on a closed set is over it.
LEMMA ResidualWithin ==
  ASSUME NEW cls, NEW o, NEW C, Closed(cls, C, o)
  PROVE  Within(Residual(cls, C, o), C)
BY DEF Closed, Within, Residual, CurrentClauses

\* Nothing is left on no variables.
LEMMA RestEmpty ==
  ASSUME NEW cls, NEW o
  PROVE  Rest(cls, o, {}) = 1
<1>1. Residual(cls, {}, o) = {}
  BY DEF Residual, CurrentClauses
<1>2. {} \in Assignments({})
  BY IsAssignment DEF Conflicting
<1>3. \A m \in Assignments({}) : m = {}
  BY AssignmentFacts
<1>4. ModelsOver({}, {}) = {{}}
  BY <1>2, <1>3 DEF ModelsOver
<1>5. Over({}, Projected) = {}
  BY DEF Over
<1>6. Projections({{}}) = {{}}
  BY <1>5 DEF Projections
<1>7. Total({{}}) = 1
  BY TotalFacts, WeightFacts
<1>8. {} \in SUBSET Var
  OBVIOUS
<1>9. Rest(cls, o, {}) = Total(Projections(ModelsOver(Residual(cls, {}, o), {})))
  BY <1>8, RestNumber
<1> QED
  BY <1>1, <1>4, <1>6, <1>7, <1>9

\* What is left on two sets that no clause joins.
LEMMA RestSplit ==
  ASSUME NEW cls, NEW o, NEW C \in SUBSET Var, NEW D \in SUBSET Var, C \cap D = {},
         Closed(cls, C, o), Closed(cls, D, o)
  PROVE  /\ Rest(cls, o, C \cup D) = Rest(cls, o, C) * Rest(cls, o, D)
         /\ Closed(cls, C \cup D, o)
<1>1. CurrentClauses(cls, C \cup D, o) = CurrentClauses(cls, C, o) \cup CurrentClauses(cls, D, o)
  BY DEF CurrentClauses
<1>2. Residual(cls, C \cup D, o) = Residual(cls, C, o) \cup Residual(cls, D, o)
  BY <1>1 DEF Residual
<1>3. Within(Residual(cls, C, o), C) /\ Within(Residual(cls, D, o), D)
  BY ResidualWithin
<1>4. Count(Residual(cls, C, o) \cup Residual(cls, D, o), C \cup D)
        = Count(Residual(cls, C, o), C) * Count(Residual(cls, D, o), D)
  BY <1>3, CountProduct
<1>5. Closed(cls, C \cup D, o)
  BY DEF Closed
<1> QED
  BY <1>2, <1>4, <1>5 DEF Rest

-----------------------------------------------------------------------------
(* Free variables.                                                         *)

\* A clause that is left with one variable has both its literals.
LEMMA Tautology ==
  ASSUME NEW cls \in SUBSET (SUBSET Literal), NEW o \in SUBSET Literal, Complete(cls, o),
         NEW v \in Var, Closed(cls, {v}, o), NEW c \in Residual(cls, {v}, o)
  PROVE  v \in c /\ -v \in c
<1>1. PICK d \in Unsatisfied(cls, o) : c = Left(d, o) /\ VarsOf(c) \cap {v} # {}
  BY DEF Residual, CurrentClauses
<1>2. d \in SUBSET Literal /\ d \cap o = {} /\ VarsOf(c) = {v}
  BY <1>1 DEF Unsatisfied, Closed
<1>3. Cardinality(VarsOf(c)) = 1
  BY <1>2, FS_Singleton
<1>4. PICK l \in d : -l \in d
  BY <1>1, <1>3 DEF Complete, Conflicting
<1>5. VarOf(l) \notin VarsOf(o)
  <2>1. ASSUME NEW k \in o, VarOf(k) = VarOf(l)
        PROVE  FALSE
    <3>1. k \in Int /\ l \in Int /\ (k = l \/ k = -l)
      BY <1>2, <2>1, VarFacts DEF VarOf
    <3> QED
      BY <1>2, <1>4, <3>1
  <2> QED
    BY <2>1 DEF VarsOf
<1>6. l \in Literal /\ VarOf(-l) = VarOf(l)
  BY <1>2, VarFacts
<1>7. l \in c /\ -l \in c
  BY <1>1, <1>4, <1>5, <1>6 DEF Left
<1>8. VarOf(l) = v
  BY <1>2, <1>7 DEF VarsOf
<1>9. l \in Int /\ v \in Int /\ (l = v \/ l = -v)
  BY <1>6, <1>8, VarFacts DEF VarOf
<1> QED
  BY <1>7, <1>9

\* So a free variable counts with both its weights.
LEMMA RestFreeOne ==
  ASSUME NEW cls \in SUBSET (SUBSET Literal), NEW o \in SUBSET Literal, Complete(cls, o),
         NEW v \in Var, Closed(cls, {v}, o)
  PROVE  Rest(cls, o, {v}) = IF v \in Projected THEN Weight[v] + Weight[-v] ELSE 1
<1>1. v \in Nat /\ v > 0 /\ v \in Literal /\ -v \in Literal /\ VarOf(v) = v /\ VarOf(-v) = v /\ v # -v
  BY VarFacts
<1>2. {v} \in Assignments({v}) /\ {-v} \in Assignments({v})
  <2>1. ~Conflicting({v}) /\ ~Conflicting({-v})
    BY <1>1 DEF Conflicting
  <2> QED
    BY <1>1, <2>1, IsAssignment
<1>3. \A m \in Assignments({v}) : m = {v} \/ m = {-v}
  <2>1. ASSUME NEW m \in Assignments({v})
        PROVE  m = {v} \/ m = {-v}
    <3>1. /\ m \in SUBSET Literal /\ ~Conflicting(m)
          /\ \A l \in m : VarOf(l) = v
          /\ v \in m \/ -v \in m
      BY <1>1, AssignmentFacts
    <3>2. \A l \in m : l = v \/ l = -v
      BY <1>1, <3>1, VarFacts DEF VarOf
    <3>3. ~(v \in m /\ -v \in m)
      BY <3>1 DEF Conflicting
    <3> QED
      BY <3>1, <3>2, <3>3
  <2> QED
    BY <2>1
<1>4. \A c \in Residual(cls, {v}, o) : v \in c /\ -v \in c
  BY Tautology
<1>5. ModelsOver(Residual(cls, {v}, o), {v}) = {{v}, {-v}}
  BY <1>2, <1>3, <1>4 DEF ModelsOver
<1>6. Rest(cls, o, {v}) = Total(Projections({{v}, {-v}}))
  <2>1. {v} \in SUBSET Var
    OBVIOUS
  <2>2. Rest(cls, o, {v}) = Total(Projections(ModelsOver(Residual(cls, {v}, o), {v})))
    BY <2>1, RestNumber
  <2> QED
    BY <1>5, <2>2
<1>7. CASE v \in Projected
  <2>1. Over({v}, Projected) = {v} /\ Over({-v}, Projected) = {-v}
    BY <1>1, <1>7 DEF Over
  <2>2. Projections({{v}, {-v}}) = {{v}} \cup {{-v}}
    BY <2>1 DEF Projections
  <2>3. {{v}} \cap {{-v}} = {}
    BY <1>1
  <2>4. Total({{v}} \cup {{-v}}) = Total({{v}}) + Total({{-v}})
    <3> DEFINE X == {{v}}
               Y == {{-v}}
    <3>1. X \in SUBSET (SUBSET Literal) /\ Y \in SUBSET (SUBSET Literal) /\ X \cap Y = {}
      BY <1>1, <2>3
    <3> HIDE DEF X, Y
    <3>2. Total(X \cup Y) = Total(X) + Total(Y)
      BY <3>1, TotalFacts
    <3> QED
      BY <3>2 DEF X, Y
  <2>5. Total({{v}}) = Weight[v] /\ Total({{-v}}) = Weight[-v]
    BY <1>1, TotalFacts, WeightFacts
  <2> QED
    BY <1>6, <1>7, <2>2, <2>4, <2>5
<1>8. CASE v \notin Projected
  <2>1. Over({v}, Projected) = {} /\ Over({-v}, Projected) = {}
    BY <1>1, <1>8 DEF Over
  <2>2. Projections({{v}, {-v}}) = {{}}
    BY <2>1 DEF Projections
  <2> QED
    BY <1>6, <1>8, <2>2, TotalFacts, WeightFacts
<1> QED
  BY <1>7, <1>8

LEMMA RestFree ==
  ASSUME NEW cls \in SUBSET (SUBSET Literal), NEW o \in SUBSET Literal, Complete(cls, o),
         NEW F \in SUBSET Var, \A v \in F : Closed(cls, {v}, o)
  PROVE  Rest(cls, o, F) = FreeWeight(F \cap Projected) /\ Closed(cls, F, o)
<1> DEFINE Right(T) == Rest(cls, o, T) = FreeWeight(T \cap Projected)
           Good == {T \in SUBSET F : Right(T)}
<1>1. \A T \in SUBSET F : T \in SUBSET Var /\ Closed(cls, T, o)
  BY DEF Closed
<1>2. ASSUME NEW T \in SUBSET F, \A x \in T : T \ {x} \in Good
      PROVE  Rest(cls, o, T) = FreeWeight(T \cap Projected)
  <2>1. CASE T = {}
    <3>1. T \cap Projected = {}
      BY <2>1
    <3> QED
      BY <2>1, <3>1, RestEmpty, FreeFacts
  <2>2. CASE T # {}
    <3>1. PICK x \in T : TRUE
      BY <2>2
    <3> DEFINE R == T \ {x}
    <3>2. /\ R \in SUBSET Var /\ {x} \in SUBSET Var /\ x \in Var /\ T = {x} \cup R /\ {x} \cap R = {}
          /\ Closed(cls, {x}, o) /\ Closed(cls, R, o)
      BY <1>1, <3>1
    <3>3. Rest(cls, o, R) = FreeWeight(R \cap Projected)
      BY <1>2, <3>1
    <3>4. T \cap Projected \in SUBSET Var /\ (T \cap Projected) \ {x} = R \cap Projected
      BY <3>2
    <3> HIDE DEF R
    <3>5. Rest(cls, o, T) = Rest(cls, o, {x}) * Rest(cls, o, R)
      BY <3>2, RestSplit
    <3>6. Rest(cls, o, {x}) = IF x \in Projected THEN Weight[x] + Weight[-x] ELSE 1
      BY <3>2, RestFreeOne
    <3>7. CASE x \in Projected
      <4>1. x \in T \cap Projected
        BY <3>1, <3>7
      <4>2. FreeWeight(T \cap Projected) = (Weight[x] + Weight[-x]) * FreeWeight(R \cap Projected)
        BY <3>4, <4>1, FreeFacts
      <4> QED
        BY <3>3, <3>5, <3>6, <3>7, <4>2
    <3>8. CASE x \notin Projected
      <4>1. T \cap Projected = R \cap Projected
        BY <3>2, <3>8
      <4>2. Rest(cls, o, R) \in Int
        BY <3>2, RestNumber
      <4>3. \A n \in Int : 1 * n = n
        OBVIOUS
      <4> QED
        BY <3>3, <3>5, <3>6, <3>8, <4>1, <4>2, <4>3
    <3> QED
      BY <3>7, <3>8
  <2> QED
    BY <2>1, <2>2
<1>3. \A T \in SUBSET F : (\A x \in T : T \ {x} \in Good) => T \in Good
  BY <1>2
<1>4. IsFiniteSet(F)
  BY VarAssumption, FS_Subset
<1> HIDE DEF Good
<1>5. \A T \in SUBSET F : T \in Good
  BY <1>3, <1>4, SetInduction
<1> QED
  BY <1>1, <1>5 DEF Good
-----------------------------------------------------------------------------
(* The components and the free variables share out what is left.           *)

\* What a variable reaches is within every closed set it is in.
LEMMA ComponentWithin ==
  ASSUME NEW cls \in SUBSET (SUBSET Literal), NEW o, NEW S \in SUBSET Var, Closed(cls, S, o),
         NEW v \in S
  PROVE  ComponentOf(cls, v, o) \subseteq S
<1> DEFINE left == {Left(c, o) : c \in Unsatisfied(cls, o)}
           step == [T \in SUBSET Var |-> T \cup UNION {VarsOf(c) : c \in {d \in left : Touches(d, T)}}]
           P == SUBSET S
           N == Cardinality(Var)
           x == {v}
<1>1. \A d \in left : Touches(d, S) => VarsOf(d) \subseteq S
  BY DEF Closed, Touches
<1>2. ASSUME NEW T \in P
      PROVE  step[T] \in P
  <2>1. T \in SUBSET Var
    OBVIOUS
  <2> HIDE DEF left
  <2>2. \A d \in left : Touches(d, T) => VarsOf(d) \subseteq S
    BY <1>1 DEF Touches
  <2> QED
    BY <2>1, <2>2
<1>3. Repeated(step, x, N) \in P
  <2>1. N \in Nat /\ x \in P
    BY VarFacts
  <2> HIDE DEF P, step, N, x
  <2> QED
    BY <1>2, <2>1, TurnsStay
<1> QED
  BY <1>3 DEF ComponentOf, Repeated, Turn

\* What no clause joins to a set, the set is not joined to.
LEMMA ComplementClosed ==
  ASSUME NEW cls \in SUBSET (SUBSET Literal), NEW o, NEW S \in SUBSET Var, Closed(cls, S, o)
  PROVE  Closed(cls, Var \ S, o)
<1> SUFFICES ASSUME NEW c \in Unsatisfied(cls, o)
             PROVE  VarsOf(Left(c, o)) \cap (Var \ S) = {} \/ VarsOf(Left(c, o)) \subseteq Var \ S
  BY DEF Closed
<1>1. VarsOf(Left(c, o)) \subseteq Var
  BY VarFacts DEF Unsatisfied, Left, VarsOf
<1>2. VarsOf(Left(c, o)) \cap S = {} \/ VarsOf(Left(c, o)) \subseteq S
  BY DEF Closed
<1> QED
  BY <1>1, <1>2

\* Two variables that reach a common one reach the same.
LEMMA ComponentSame ==
  ASSUME NEW cls \in SUBSET (SUBSET Literal), NEW o, NEW v \in Var \ VarsOf(o), NEW w \in Var \ VarsOf(o),
         ComponentOf(cls, v, o) \cap ComponentOf(cls, w, o) # {}
  PROVE  ComponentOf(cls, v, o) = ComponentOf(cls, w, o)
<1>1. \A u \in Var \ VarsOf(o) : /\ ComponentOf(cls, u, o) \in SUBSET Var
                                 /\ Closed(cls, ComponentOf(cls, u, o), o)
  BY ComponentFacts, ComponentClosed
<1>2. ASSUME NEW x \in Var \ VarsOf(o), NEW y \in Var \ VarsOf(o),
             ComponentOf(cls, x, o) \cap ComponentOf(cls, y, o) # {}
      PROVE  ComponentOf(cls, y, o) \subseteq ComponentOf(cls, x, o)
  <2> DEFINE S == ComponentOf(cls, x, o)
             D == ComponentOf(cls, y, o)
  <2>1. S \in SUBSET Var /\ Closed(cls, S, o)
    BY <1>1
  <2> HIDE DEF S
  <2>2. CASE y \in S
    BY <2>1, <2>2, ComponentWithin DEF S
  <2>3. CASE y \notin S
    <3> DEFINE R == Var \ S
    <3>1. R \in SUBSET Var /\ Closed(cls, R, o) /\ y \in R
      BY <2>1, <2>3, ComplementClosed
    <3> HIDE DEF R
    <3>2. D \subseteq R
      BY <3>1, ComponentWithin
    <3> QED
      BY <1>2, <3>2 DEF S, R
  <2> QED
    BY <2>2, <2>3
<1>3. ComponentOf(cls, w, o) \subseteq ComponentOf(cls, v, o)
  BY <1>2
<1>4. ComponentOf(cls, v, o) \subseteq ComponentOf(cls, w, o)
  BY <1>2
<1> QED
  BY <1>3, <1>4

\* Two sets in T have nothing in common.
Separate(T) == \A C, D \in T : C # D => C \cap D = {}

LEMMA Shared ==
  ASSUME NEW cls \in SUBSET (SUBSET Literal), NEW C \in SUBSET Var, NEW o, Closed(cls, C, o)
  PROVE  LET F == FreeVariables(cls, C, o)
             T == Components(cls, C, o)
         IN  /\ C \ VarsOf(o) = F \cup UNION T /\ F \cap UNION T = {}
             /\ F \in SUBSET Var /\ \A v \in F : Closed(cls, {v}, o)
             /\ T \in SUBSET (SUBSET Var) /\ \A D \in T : Closed(cls, D, o)
             /\ Separate(T)
<1> DEFINE F == FreeVariables(cls, C, o)
           T == Components(cls, C, o)
           G(v) == ComponentOf(cls, v, o)
<1>1. \A v \in C \ VarsOf(o) : v \in G(v) /\ G(v) \subseteq Var /\ Closed(cls, G(v), o) /\ G(v) \subseteq C
  BY ComponentFacts, ComponentClosed, ComponentWithin
<1>2. \A v, w \in C \ VarsOf(o) : G(v) \cap G(w) # {} => G(v) = G(w)
  BY ComponentSame
<1>3. F = {v \in C \ VarsOf(o) : G(v) = {v}}
  BY DEF FreeVariables, IsAlone
<1>4. T = {G(v) \cap C : v \in {w \in C \ VarsOf(o) : G(w) # {w}}}
  BY DEF Components, IsAlone
<1> HIDE DEF F, T, G
<1>5. \A D \in T : \E v \in C \ VarsOf(o) : D = G(v) /\ G(v) # {v}
  <2>1. \A v \in C \ VarsOf(o) : G(v) \cap C = G(v)
    BY <1>1
  <2> QED
    BY <1>4, <2>1
<1>6. \A v \in C \ VarsOf(o) : G(v) # {v} => G(v) \in T
  <2>1. \A v \in C \ VarsOf(o) : G(v) \cap C = G(v)
    BY <1>1
  <2> QED
    BY <1>4, <2>1
<1>7. ASSUME NEW D \in T
      PROVE  D \in SUBSET Var /\ Closed(cls, D, o) /\ D \cap F = {} /\ D \subseteq C \ VarsOf(o)
  <2>1. PICK v \in C \ VarsOf(o) : D = G(v) /\ G(v) # {v}
    BY <1>5
  <2>2. D \cap VarsOf(o) = {}
    BY <2>1, ComponentFacts DEF G
  <2>3. ASSUME NEW w \in F, w \in D
        PROVE  FALSE
    <3>1. w \in C \ VarsOf(o) /\ G(w) = {w}
      BY <1>3
    <3>2. G(v) \cap G(w) # {}
      BY <2>1, <2>3, <3>1
    <3>3. G(v) = {w}
      BY <1>2, <3>1, <3>2
    <3> QED
      BY <1>1, <2>1, <3>3
  <2> QED
    BY <1>1, <2>1, <2>2, <2>3
<1>8. Separate(T)
  <2>1. ASSUME NEW D \in T, NEW E \in T, D \cap E # {}
        PROVE  D = E
    <3>1. PICK v \in C \ VarsOf(o) : D = G(v)
      BY <1>5
    <3>2. PICK w \in C \ VarsOf(o) : E = G(w)
      BY <1>5
    <3> QED
      BY <1>2, <2>1, <3>1, <3>2
  <2> QED
    BY <2>1 DEF Separate
<1>9. C \ VarsOf(o) = F \cup UNION T
  <2>1. F \cup UNION T \subseteq C \ VarsOf(o)
    BY <1>3, <1>7
  <2>2. ASSUME NEW v \in C \ VarsOf(o)
        PROVE  v \in F \/ \E D \in T : v \in D
    BY <1>1, <1>3, <1>6
  <2> QED
    BY <2>1, <2>2
<1>10. F \in SUBSET Var /\ \A v \in F : Closed(cls, {v}, o)
  BY <1>1, <1>3
<1>11. F \cap UNION T = {} /\ T \in SUBSET (SUBSET Var)
  BY <1>7
<1> QED
  BY <1>7, <1>8, <1>9, <1>10, <1>11 DEF F, T

\* Closed sets together are closed.
LEMMA UnionClosed ==
  ASSUME NEW cls, NEW o, NEW T, \A D \in T : Closed(cls, D, o)
  PROVE  Closed(cls, UNION T, o)
<1> SUFFICES ASSUME NEW c \in Unsatisfied(cls, o), NEW D \in T, VarsOf(Left(c, o)) \cap D # {}
             PROVE  VarsOf(Left(c, o)) \subseteq UNION T
  BY DEF Closed
<1>1. VarsOf(Left(c, o)) \subseteq D
  BY DEF Closed
<1> QED
  BY <1>1

\* One of the sets of T is counted apart from the others.
LEMMA RestTake ==
  ASSUME NEW cls, NEW o, NEW T \in SUBSET (SUBSET Var), Separate(T), \A D \in T : Closed(cls, D, o),
         NEW C \in T
  PROVE  Rest(cls, o, UNION T) = Rest(cls, o, C) * Rest(cls, o, UNION (T \ {C}))
<1> DEFINE D == UNION (T \ {C})
<1>1. C \in SUBSET Var /\ D \in SUBSET Var /\ UNION T = C \cup D /\ C \cap D = {}
  BY DEF Separate
<1>2. Closed(cls, C, o) /\ Closed(cls, D, o)
  <2>1. \A E \in T \ {C} : Closed(cls, E, o)
    OBVIOUS
  <2> QED
    BY <2>1, UnionClosed
<1> HIDE DEF D
<1>3. Rest(cls, o, C \cup D) = Rest(cls, o, C) * Rest(cls, o, D)
  BY <1>1, <1>2, RestSplit
<1> QED
  BY <1>1, <1>3 DEF D
-----------------------------------------------------------------------------
(* The models of the formula and the assignments of what is left.          *)

\* A model in which o holds has a literal of every clause that o leaves.
LEMMA ModelHits ==
  ASSUME NEW M \in Models, NEW o, o \subseteq M, fixed \subseteq M,
         NEW c \in Unsatisfied(OccClauses, o)
  PROVE  Left(c, o) \cap M # {}
<1>1. PICK d \in Clauses : d \cap fixed = {} /\ c = d \ Negated(fixed)
  BY DEF Unsatisfied, OccClauses
<1>2. M \in SUBSET Literal /\ ~Conflicting(M) /\ d \in SUBSET Literal
  BY ModelFacts, ClausesAssumption
<1>3. PICK l \in d : l \in M
  BY ModelFacts
<1>4. l \in Literal /\ l \in Int /\ -l \notin M
  BY <1>2, <1>3, VarFacts DEF Conflicting
<1>5. l \in c
  <2>1. ASSUME NEW k \in fixed, l = -k
        PROVE  FALSE
    <3>1. k \in M /\ k \in Int
      BY <1>2, VarFacts
    <3> QED
      BY <1>4, <2>1, <3>1
  <2> QED
    BY <1>1, <2>1 DEF Negated
<1>6. VarOf(l) \notin VarsOf(o)
  <2>1. ASSUME NEW k \in o, VarOf(k) = VarOf(l)
        PROVE  FALSE
    <3>1. k \in M /\ k \in Int /\ k # l
      BY <1>2, <1>5, VarFacts DEF Unsatisfied
    <3> QED
      BY <1>4, <2>1, <3>1 DEF VarOf
  <2> QED
    BY <2>1 DEF VarsOf
<1> QED
  BY <1>3, <1>5, <1>6 DEF Left

\* So on a closed set it is an assignment of what is left there.
LEMMA ModelRest ==
  ASSUME NEW M \in Models, NEW o, o \subseteq M, fixed \subseteq M,
         NEW S \in SUBSET Var, Closed(OccClauses, S, o)
  PROVE  Over(M, S) \in ModelsOver(Residual(OccClauses, S, o), S)
<1>1. M \in SUBSET Literal /\ ~Conflicting(M) /\ \A l \in Literal : l \in M \/ -l \in M
  BY ModelFacts
<1>2. Over(M, S) \in Assignments(S)
  <2>1. /\ Over(M, S) \in SUBSET Literal /\ ~Conflicting(Over(M, S))
        /\ \A l \in Over(M, S) : VarOf(l) \in S
    BY <1>1 DEF Over, Conflicting
  <2>2. \A v \in S : v \in Over(M, S) \/ -v \in Over(M, S)
    BY <1>1, VarFacts DEF Over
  <2> QED
    BY <2>1, <2>2, IsAssignment
<1>3. ASSUME NEW c \in Residual(OccClauses, S, o)
      PROVE  c \cap Over(M, S) # {}
  <2>1. PICK d \in Unsatisfied(OccClauses, o) : c = Left(d, o) /\ VarsOf(c) \cap S # {}
    BY DEF Residual, CurrentClauses
  <2>2. VarsOf(c) \subseteq S
    BY <2>1 DEF Closed
  <2>3. PICK l \in c : l \in M
    BY <2>1, ModelHits
  <2> QED
    BY <2>2, <2>3 DEF VarsOf, Over
<1> QED
  BY <1>2, <1>3 DEF ModelsOver

\* And any assignment of what is left on a closed set can take its place there.
Glued(M, S, m) == m \cup {l \in M : VarOf(l) \notin S}

LEMMA Glue ==
  ASSUME NEW M \in Models, NEW o, o \subseteq M, fixed \subseteq M,
         NEW S \in SUBSET Var, Closed(OccClauses, S, o), S \cap VarsOf(o) = {}, Over(fixed, S) = {},
         NEW m \in ModelsOver(Residual(OccClauses, S, o), S)
  PROVE  Glued(M, S, m) \in Models /\ Over(Glued(M, S, m), S) = m
<1> DEFINE B == Glued(M, S, m)
<1>1. /\ M \in SUBSET Literal /\ ~Conflicting(M) /\ \A l \in Literal : l \in M \/ -l \in M
  BY ModelFacts
<1>2. m \in Assignments(S) /\ \A c \in Residual(OccClauses, S, o) : c \cap m # {}
  BY DEF ModelsOver
<1>3. /\ m \in SUBSET Literal /\ ~Conflicting(m) /\ \A l \in m : VarOf(l) \in S
      /\ \A l \in Literal : VarOf(l) \in S => l \in m \/ -l \in m
  BY <1>2, AssignmentFacts
<1>4. B \in SUBSET Literal /\ m \subseteq B /\ \A l \in M : VarOf(l) \notin S => l \in B
  BY <1>1, <1>3 DEF Glued
<1>5. \A l \in B : l \in m \/ (l \in M /\ VarOf(l) \notin S)
  BY DEF Glued
<1> HIDE DEF B
<1>6. B \in Assignments(Var)
  <2>1. ~Conflicting(B)
    <3>1. ASSUME NEW l \in B, -l \in B
          PROVE  FALSE
      <4>1. VarOf(-l) = VarOf(l)
        BY <1>4, VarFacts
      <4>2. (l \in m /\ -l \in m) \/ (l \in M /\ -l \in M)
        BY <1>3, <1>5, <3>1, <4>1
      <4> QED
        BY <1>1, <1>3, <4>2 DEF Conflicting
    <3> QED
      BY <3>1 DEF Conflicting
  <2>2. \A v \in Var : v \in B \/ -v \in B
    BY <1>1, <1>3, <1>4, VarFacts
  <2>3. \A l \in B : VarOf(l) \in Var
    BY <1>4, VarFacts
  <2> QED
    BY <1>4, <2>1, <2>2, <2>3, IsAssignment
<1>7. ASSUME NEW d \in Clauses
      PROVE  d \cap B # {}
  <2> DEFINE c == d \ Negated(fixed)
  <2>1. CASE d \cap fixed # {}
    <3>1. PICK l \in d : l \in fixed
      BY <2>1
    <3>2. l \in B
      BY <1>4, <3>1 DEF Over
    <3> QED
      BY <3>1, <3>2
  <2>2. CASE c \cap o # {}
    <3>1. PICK l \in c : l \in o
      BY <2>2
    <3>2. l \in M /\ VarOf(l) \notin S
      BY <3>1 DEF VarsOf
    <3> QED
      BY <1>4, <3>1, <3>2
  <2>3. CASE d \cap fixed = {} /\ c \cap o = {}
    <3>1. c \in Unsatisfied(OccClauses, o)
      BY <2>3 DEF OccClauses, Unsatisfied
    <3>2. CASE VarsOf(Left(c, o)) \cap S # {}
      <4>1. Left(c, o) \in Residual(OccClauses, S, o)
        BY <3>1, <3>2 DEF Residual, CurrentClauses
      <4>2. Left(c, o) \cap m # {}
        BY <1>2, <4>1
      <4> QED
        BY <1>4, <4>2 DEF Left
    <3>3. CASE VarsOf(Left(c, o)) \cap S = {}
      <4>1. PICK l \in Left(c, o) : l \in M
        BY <3>1, ModelHits
      <4>2. VarOf(l) \notin S
        BY <3>3, <4>1 DEF VarsOf
      <4> QED
        BY <1>4, <4>1, <4>2 DEF Left
    <3> QED
      BY <3>2, <3>3
  <2> QED
    BY <2>1, <2>2, <2>3
<1>8. B \in Models
  BY <1>6, <1>7 DEF Models, ModelsOver
<1>9. Over(B, S) = m
  BY <1>3, <1>4, <1>5 DEF Over
<1> QED
  BY <1>8, <1>9 DEF B

-----------------------------------------------------------------------------
(* What a call is asked for.                                               *)

\* The models under the branch, as the variables of a call see them.
Asked(A) == {M \in Models : A \subseteq M}
Seen(A, S) == {Over(M, S) : M \in Asked(A)}

\* What is returned for the call in place k.
Wanted(cls, s, ds, k) ==
  IF k = 1 THEN FormulaCount
  ELSE Count(Residual(cls, s[k].set, UnitsOf(s, k - 1)) \cup {{ds[k - 1]}}, s[k].set)

\* It is the count over the models under the branch.
LEMMA WantedSeen ==
  ASSUME IInv, SolveInv, pc = "solve",
         Len(stack) > 1 => fixed \subseteq stack[1].units,
         \A k \in 2 .. Len(stack) - 1 : assumptions[k - 1] \in stack[k].units
  PROVE  Wanted(OccClauses, stack, assumptions, Len(stack)) = Total(Projections(Seen(Assumed, Top.set)))
<1> DEFINE n == Len(stack)
           ds == assumptions
           S == Top.set
           R == Residual(OccClauses, S, occ)
<1>1. /\ S \in SUBSET Var /\ fixed \in SUBSET Literal /\ occ \in SUBSET Literal
      /\ Assumed \in SUBSET Literal /\ Assumed = Before(ds, n) /\ Closed(OccClauses, S, occ)
      /\ \A M \in Models : Assumed \subseteq M => fixed \cup occ \subseteq M
  BY AskedFacts
<1>2. PICK M1 \in Models : /\ fixed \cup occ \subseteq M1
                           /\ \A a \in Assumed : VarOf(a) \notin S => a \in M1
  BY AskedFacts
<1>3. n \in Nat \ {0} /\ n = Len(stack) /\ Top = stack[n] /\ Len(ds) = n - 1
  BY StateFacts DEF Top
<1>4. LevelRight(stack, ds, n)
  <2>1. n \in 1 .. Len(stack)
    BY <1>3
  <2> QED
    BY <2>1 DEF IInv, Nested
<1>5. CASE n = 1
  <2>1. S = Var /\ Assumed = {}
    BY <1>1, <1>3, <1>4, <1>5 DEF LevelRight, Before
  <2>2. \A M \in Models : Over(M, Var) = M
    BY ModelFacts, VarFacts DEF Over
  <2>3. Seen(Assumed, S) = Models
    BY <2>1, <2>2 DEF Seen, Asked
  <2>4. FormulaCount = Total(Projections(Models))
    BY DEF FormulaCount, Count, Total, Projections, Models
  <2> QED
    BY <1>3, <1>5, <2>3, <2>4 DEF Wanted
<1>6. CASE n # 1
  <2> DEFINE m == n - 1
             a == ds[m]
  <2>1. m \in Nat \ {0} /\ n > 1 /\ ds \in Seq(Literal) /\ a \in Literal
    <3>1. m \in 1 .. Len(ds) /\ ds \in Seq(Literal)
      BY <1>3, <1>6 DEF IInv, Typed
    <3> QED
      BY <1>3, <1>6, <3>1, ElementOfSeq
  <2>2. VarOf(a) \in S
    BY <1>3, <1>4, <2>1 DEF LevelRight
  <2>3. Top.units = {} /\ occ = UnitsOf(stack, m)
    BY <1>3, TopFacts DEF IInv, FreshExact
  <2>4. S \cap VarsOf(occ) = {}
    <3>1. S = stack[m].connected
      BY <1>3, <1>4, <2>1 DEF LevelRight
    <3>2. m \in 1 .. Len(stack)
      BY <1>3, <2>1
    <3>3. \A j \in 1 .. m : stack[m].connected \cap VarsOf(stack[j].units) = {}
      BY <3>2 DEF IInv, Nested, LevelRight
    <3>4. S \cap VarsOf(UnitsOf(stack, m)) = {}
      BY <3>1, <3>3 DEF UnitsOf, VarsOf
    <3> QED
      BY <2>3, <3>4
  <2>5. fixed \subseteq occ
    <3>1. 1 \in 1 .. m
      BY <2>1
    <3> QED
      BY <1>3, <2>1, <2>3, <3>1 DEF UnitsOf
  <2>6. \A b \in Assumed : b = a \/ b \in occ
    <3>1. ASSUME NEW j \in 1 .. n - 1, j # m
          PROVE  ds[j] \in occ
      <4>1. j + 1 \in 2 .. Len(stack) - 1 /\ j + 1 \in 1 .. m /\ j + 1 - 1 = j
        BY <1>3, <2>1, <3>1
      <4>2. ds[j] \in stack[j + 1].units
        BY <4>1
      <4> QED
        BY <2>3, <4>1, <4>2 DEF UnitsOf
    <3> QED
      BY <1>1, <3>1 DEF Before
  <2>7. a \in Assumed
    <3>1. m \in 1 .. n - 1
      BY <1>3, <2>1
    <3> QED
      BY <1>1, <3>1 DEF Before
  <2> HIDE DEF m, a, R
  <2>8. ASSUME NEW M \in Asked(Assumed)
        PROVE  Over(M, S) \in ModelsOver(R \cup {{a}}, S)
    <3>1. M \in Models /\ fixed \subseteq M /\ occ \subseteq M /\ a \in M
      BY <1>1, <2>7 DEF Asked
    <3>2. Over(M, S) \in ModelsOver(R, S)
      BY <1>1, <3>1, ModelRest DEF R
    <3>3. a \in Over(M, S)
      BY <2>2, <3>1 DEF Over
    <3> QED
      BY <3>2, <3>3 DEF ModelsOver
  <2>9. ASSUME NEW x \in ModelsOver(R \cup {{a}}, S)
        PROVE  x \in Seen(Assumed, S)
    <3>1. x \in ModelsOver(R, S) /\ a \in x
      <4>1. x \in Assignments(S) /\ \A c \in R \cup {{a}} : c \cap x # {}
        BY DEF ModelsOver
      <4>2. {a} \cap x # {}
        BY <4>1
      <4> QED
        BY <4>1, <4>2 DEF ModelsOver
    <3>2. Over(fixed, S) = {}
      BY <2>4, <2>5 DEF Over, VarsOf
    <3> DEFINE B == Glued(M1, S, x)
    <3>3. B \in Models /\ Over(B, S) = x
      <4>1. occ \subseteq M1 /\ fixed \subseteq M1
        BY <1>2
      <4> QED
        BY <1>1, <2>4, <3>1, <3>2, <4>1, Glue DEF R
    <3>4. occ \subseteq B
      BY <1>2, <2>4 DEF Glued, VarsOf
    <3>5. Assumed \subseteq B
      BY <2>6, <3>1, <3>4 DEF Glued
    <3> HIDE DEF B
    <3> QED
      BY <3>3, <3>5 DEF Seen, Asked
  <2>10. Seen(Assumed, S) = ModelsOver(R \cup {{a}}, S)
    BY <2>8, <2>9 DEF Seen
  <2>11. Wanted(OccClauses, stack, ds, n) = Count(R \cup {{a}}, S)
    BY <1>3, <1>6, <2>3 DEF Wanted, R, a, m
  <2> QED
    BY <1>1, <1>3, <2>10, <2>11, CountIs
<1> QED
  BY <1>5, <1>6
-----------------------------------------------------------------------------
(* What a call counts once the solver has answered.                        *)

\* The same for premises taken together.
Gluing(M, S, o, m) ==
  /\ M \in Models /\ o \subseteq M /\ fixed \subseteq M
  /\ S \in SUBSET Var /\ Closed(OccClauses, S, o) /\ S \cap VarsOf(o) = {} /\ Over(fixed, S) = {}
  /\ m \in ModelsOver(Residual(OccClauses, S, o), S)
LEMMA GlueAt ==
  ASSUME NEW M, NEW S, NEW o, NEW m, Gluing(M, S, o, m)
  PROVE  Glued(M, S, m) \in Models /\ Over(Glued(M, S, m), S) = m
BY Glue DEF Gluing

\* What is left of a set is what is left of its free variables and components.
Shareable(cls, S, p) ==
  /\ cls \in SUBSET (SUBSET Literal) /\ S \in SUBSET Var /\ p \in SUBSET Literal
  /\ Closed(cls, S, p) /\ Complete(cls, p)
SharesRest(cls, S, p) ==
  LET F == FreeVariables(cls, S, p)
      T == Components(cls, S, p)
  IN  /\ Rest(cls, p, S \ VarsOf(p)) = FreeWeight(F \cap Projected) * Rest(cls, p, UNION T)
      /\ Separate(T) /\ F \in SUBSET Var /\ UNION T \in SUBSET Var
LEMMA RestShared ==
  ASSUME NEW cls, NEW S, NEW p, Shareable(cls, S, p)
  PROVE  SharesRest(cls, S, p)
<1> DEFINE F == FreeVariables(cls, S, p)
           T == Components(cls, S, p)
           U == UNION T
<1>1. /\ cls \in SUBSET (SUBSET Literal) /\ S \in SUBSET Var /\ p \in SUBSET Literal
      /\ Closed(cls, S, p) /\ Complete(cls, p)
  BY DEF Shareable
<1>2. /\ S \ VarsOf(p) = F \cup U /\ F \cap U = {}
      /\ F \in SUBSET Var /\ \A v \in F : Closed(cls, {v}, p)
      /\ T \in SUBSET (SUBSET Var) /\ \A D \in T : Closed(cls, D, p)
      /\ Separate(T)
  BY <1>1, Shared
<1> HIDE DEF F, T
<1>3. U \in SUBSET Var /\ Closed(cls, U, p)
  BY <1>2, UnionClosed
<1>4. Rest(cls, p, F) = FreeWeight(F \cap Projected) /\ Closed(cls, F, p)
  BY <1>1, <1>2, RestFree
<1> HIDE DEF U
<1>5. Rest(cls, p, F \cup U) = Rest(cls, p, F) * Rest(cls, p, U)
  BY <1>2, <1>3, <1>4, RestSplit
<1> QED
  BY <1>2, <1>3, <1>4, <1>5 DEF F, T, U, SharesRest

\* A call about to be solved has nothing assigned on its variables.
LEMMA SetApart ==
  ASSUME IInv, pc = "solve"
  PROVE  Top.set \cap VarsOf(occ) = {}
<1> DEFINE n == Len(stack)
           m == n - 1
<1>1. n \in Nat \ {0} /\ Top = stack[n] /\ n \in 1 .. Len(stack)
  BY StateFacts DEF Top
<1>2. occ = UnitsOf(stack, m)
  BY <1>1, TopFacts DEF IInv, FreshExact
<1>3. CASE n = 1
  <2>1. \A k \in 1 .. m : FALSE
    BY <1>3
  <2>2. occ = {}
    BY <1>2, <2>1 DEF UnitsOf
  <2> QED
    BY <2>2 DEF VarsOf
<1>4. CASE n # 1
  <2>1. m \in 1 .. Len(stack) /\ n > 1 /\ m \in Nat
    BY <1>1, <1>4
  <2> HIDE DEF m
  <2>2. Top.set = stack[m].connected
    BY <1>1, <2>1 DEF IInv, Nested, LevelRight, m
  <2>3. \A j \in 1 .. m : stack[m].connected \cap VarsOf(stack[j].units) = {}
    BY <2>1 DEF IInv, Nested, LevelRight
  <2> QED
    BY <1>2, <2>2, <2>3 DEF UnitsOf, VarsOf
<1> QED
  BY <1>3, <1>4

\* What stays closed when more is assigned.
LEMMA ClosedLater ==
  ASSUME NEW cls, NEW S, NEW o, NEW p, o \subseteq p, Closed(cls, S, o)
  PROVE  Closed(cls, S, p) /\ Closed(cls, S \ VarsOf(p), p)
<1>1. ASSUME NEW c \in Unsatisfied(cls, p)
      PROVE  /\ VarsOf(Left(c, p)) \cap S = {} \/ VarsOf(Left(c, p)) \subseteq S
             /\ VarsOf(Left(c, p)) \cap VarsOf(p) = {}
  <2>1. c \in Unsatisfied(cls, o) /\ Left(c, p) \subseteq Left(c, o)
    BY DEF Unsatisfied, Left, VarsOf
  <2>2. VarsOf(Left(c, p)) \subseteq VarsOf(Left(c, o))
    BY <2>1 DEF VarsOf
  <2>3. VarsOf(Left(c, p)) \cap VarsOf(p) = {}
    BY DEF Left, VarsOf
  <2>4. VarsOf(Left(c, o)) \cap S = {} \/ VarsOf(Left(c, o)) \subseteq S
    BY <2>1 DEF Closed
  <2> QED
    BY <2>2, <2>3, <2>4
<1>2. ASSUME NEW c \in Unsatisfied(cls, p)
      PROVE  \/ VarsOf(Left(c, p)) \cap (S \ VarsOf(p)) = {}
             \/ VarsOf(Left(c, p)) \subseteq S \ VarsOf(p)
  BY <1>1
<1> QED
  BY <1>1, <1>2 DEF Closed

\* What the solver holds under a branch that can be satisfied.
LEMMA AnswerFacts ==
  ASSUME IInv, SolveInv, pc = "solve", NEW K \in Trails, Satisfiable(Assumed),
         NEW p, p = occ \cup Over(K, Top.set)
  PROVE  /\ \A M \in Models : Assumed \subseteq M => K \subseteq M /\ p \subseteq M /\ fixed \subseteq M
         /\ fixed \subseteq K /\ Assumed \subseteq K
         /\ p \in SUBSET Literal /\ Complete(OccClauses, p)
<1>1. /\ Top.set \in SUBSET Var /\ fixed \in SUBSET Literal /\ occ \in SUBSET Literal
      /\ Assumed \in SUBSET Literal
      /\ \A M \in Models : Assumed \subseteq M => fixed \cup occ \subseteq M
  BY AskedFacts
<1>2. K \in TrailsFrom(fixed \cup occ, Assumed)
  BY DEF Trails
<1>3. ASSUME NEW M \in Models, Assumed \subseteq M
      PROVE  K \subseteq M /\ fixed \cup occ \subseteq K /\ Consequences[K] = K
  <2>1. M \in Models /\ Assumed \cup (fixed \cup occ) \subseteq M /\ fixed \cup occ \in SUBSET Literal
    BY <1>1, <1>3
  <2> QED
    BY <1>1, <1>2, <2>1, TrailModel
<1>4. Assumed \subseteq K /\ K \in SUBSET Literal
  BY <1>1, <1>2, TrailFacts
<1>5. PICK N \in Models : Assumed \subseteq N
  BY DEF Satisfiable
<1>6. Complete(OccClauses, p)
  BY <1>3, <1>5, UnitsLeave
<1> QED
  BY <1>1, <1>3, <1>4, <1>5, <1>6 DEF Over

\* The call's units are in every model of the branch; the rest of its variables
\* take what is left.
LEMMA SeenSplit ==
  ASSUME IInv, SolveInv, pc = "solve", NEW K \in Trails, Satisfiable(Assumed),
         NEW units, units = Over(K, Top.set), NEW p, p = occ \cup units,
         NEW D, D = Top.set \ VarsOf(p)
  PROVE  Seen(Assumed, Top.set) = Joined({units}, ModelsOver(Residual(OccClauses, D, p), D))
<1> DEFINE S == Top.set
           Y == ModelsOver(Residual(OccClauses, D, p), D)
<1>1. S \in SUBSET Var /\ Closed(OccClauses, S, occ) /\ S \cap VarsOf(occ) = {}
  BY AskedFacts, SetApart
<1>2. /\ \A M \in Models : Assumed \subseteq M => K \subseteq M /\ p \subseteq M /\ fixed \subseteq M
      /\ fixed \subseteq K /\ Assumed \subseteq K /\ p \in SUBSET Literal
  BY AnswerFacts
<1>3. D \in SUBSET Var /\ Closed(OccClauses, D, p)
  <2>1. occ \subseteq p
    OBVIOUS
  <2> QED
    BY <1>1, <2>1, ClosedLater
<1>4. units \subseteq p /\ D \cap VarsOf(p) = {} /\ D \subseteq S
  OBVIOUS
<1>5. \A l \in K : VarOf(l) \in S => l \in units /\ VarOf(l) \notin D
  BY <1>4 DEF Over, VarsOf
<1>6. ASSUME NEW M \in Asked(Assumed), NEW l \in M, VarOf(l) \in S, VarOf(l) \notin D
      PROVE  l \in units
  <2>1. M \in Models /\ p \subseteq M
    BY <1>2 DEF Asked
  <2>2. M \in SUBSET Literal /\ ~Conflicting(M)
    BY <2>1, ModelFacts
  <2>3. PICK k \in p : VarOf(k) = VarOf(l)
    BY <1>6 DEF VarsOf
  <2>4. k \in Int /\ l \in Int /\ k # -l
    BY <1>2, <2>1, <2>2, VarFacts DEF Conflicting
  <2>5. k = l
    BY <2>3, <2>4 DEF VarOf
  <2>6. l \notin occ
    BY <1>1, <1>6 DEF VarsOf
  <2> QED
    BY <2>3, <2>5, <2>6
<1>7. ASSUME NEW M \in Asked(Assumed)
      PROVE  Over(M, S) \in Joined({units}, Y)
  <2>1. M \in Models /\ p \subseteq M /\ fixed \subseteq M
    BY <1>2 DEF Asked
  <2>2. Over(M, D) \in Y
    BY <1>3, <2>1, ModelRest
  <2>3. Over(M, S) = units \cup Over(M, D)
    <3>1. \A l \in units : l \in M /\ VarOf(l) \in S
      BY <2>1 DEF Over
    <3> QED
      BY <1>4, <1>6, <3>1 DEF Over
  <2> HIDE DEF Y
  <2> QED
    BY <2>2, <2>3, JoinedIs
<1>8. ASSUME NEW m \in Y
      PROVE  units \cup m \in Seen(Assumed, S)
  <2>1. PICK M \in Models : Assumed \subseteq M
    BY DEF Satisfiable
  <2>2. M \in Asked(Assumed) /\ p \subseteq M /\ fixed \subseteq M /\ K \subseteq M
    BY <1>2, <2>1 DEF Asked
  <2>3. Over(fixed, D) = {}
    BY <1>2, <1>4, <1>5 DEF Over
  <2> DEFINE B == Glued(M, D, m)
  <2>4. B \in Models /\ Over(B, D) = m
    <3>1. Gluing(M, D, p, m)
      BY <1>3, <1>4, <2>1, <2>2, <2>3 DEF Gluing
    <3> QED
      BY <3>1, GlueAt
  <2>5. \A l \in M : VarOf(l) \notin D => l \in B
    BY DEF Glued
  <2>6. \A l \in B : VarOf(l) \notin D => l \in M
    <3>1. \A l \in m : VarOf(l) \in D
      BY <2>4 DEF Over
    <3> QED
      BY <3>1 DEF Glued
  <2> HIDE DEF B
  <2>7. Assumed \subseteq B
    BY <1>2, <1>4, <1>5, <2>1, <2>5
  <2>8. Over(B, S) = units \cup m
    <3>1. ASSUME NEW l \in B, VarOf(l) \in S
          PROVE  l \in units \cup m
      <4>1. CASE VarOf(l) \in D
        BY <2>4, <4>1 DEF Over
      <4>2. CASE VarOf(l) \notin D
        BY <1>6, <2>2, <2>6, <3>1, <4>2
      <4> QED
        BY <4>1, <4>2
    <3>2. \A l \in m : l \in B /\ VarOf(l) \in S
      BY <1>4, <2>4 DEF Over
    <3>3. \A l \in units : l \in B /\ VarOf(l) \in S
      BY <1>5, <2>2, <2>5 DEF Over
    <3> QED
      BY <3>1, <3>2, <3>3 DEF Over
  <2>9. B \in Asked(Assumed)
    BY <2>4, <2>7 DEF Asked
  <2> QED
    BY <2>8, <2>9 DEF Seen
<1>9. \A x \in Seen(Assumed, S) : x \in Joined({units}, Y)
  BY <1>7 DEF Seen
<1>10. \A x \in Joined({units}, Y) : x \in Seen(Assumed, S)
  <2> HIDE DEF Y
  <2>1. \A x \in Joined({units}, Y) : \E m \in Y : x = units \cup m
    BY JoinedIs
  <2> QED
    BY <1>8, <2>1
<1> QED
  BY <1>9, <1>10

\* So what the call is to return is the weight of its units and of its free
\* variables times the count of its components.
LEMMA SolvedValue ==
  ASSUME IInv, SolveInv, pc = "solve", NEW K \in Trails, Satisfiable(Assumed),
         NEW units, units = Over(K, Top.set), NEW p, p = occ \cup units,
         NEW free, free = FreeVariables(OccClauses, Top.set, p),
         NEW todo, todo = Components(OccClauses, Top.set, p)
  PROVE  /\ Total(Projections(Seen(Assumed, Top.set)))
              = UnitFreeWeight(units, free) * Rest(OccClauses, p, UNION todo)
         /\ Separate(todo)
<1> DEFINE S == Top.set
           D == S \ VarsOf(p)
           Y == ModelsOver(Residual(OccClauses, D, p), D)
           a == Over(units, Projected)
           U == UNION todo
<1>1. S \in SUBSET Var /\ Closed(OccClauses, S, p) /\ Closed(OccClauses, D, p)
  <2>1. S \in SUBSET Var /\ Closed(OccClauses, S, occ) /\ occ \subseteq p
    BY AskedFacts
  <2> QED
    BY <2>1, ClosedLater
<1>2. p \in SUBSET Literal /\ Complete(OccClauses, p)
  BY AnswerFacts
<1>3. Seen(Assumed, S) = Joined({units}, Y)
  BY SeenSplit
<1>4. Shareable(OccClauses, S, p)
  BY <1>1, <1>2, OccClausesFacts DEF Shareable
<1>5. /\ Rest(OccClauses, p, D) = FreeWeight(free \cap Projected) * Rest(OccClauses, p, U)
      /\ Separate(todo) /\ free \in SUBSET Var /\ U \in SUBSET Var
  <2>1. SharesRest(OccClauses, S, p)
    BY <1>4, RestShared
  <2> QED
    BY <2>1 DEF SharesRest
<1>7. D \in SUBSET Var /\ D \cap VarsOf(p) = {}
  BY <1>1
<1> HIDE DEF U, D
<1>9. Total(Projections(Y)) = Rest(OccClauses, p, D) /\ Projections(Y) \in SUBSET (SUBSET Literal)
      /\ Within(Projections(Y), D)
  BY <1>7, RestNumber, ModelsOverFacts
<1>10. a \in SUBSET Literal /\ VarsOf(a) \subseteq VarsOf(p) /\ Projections({units}) = {a}
  BY <1>2 DEF Over, VarsOf, Projections
<1>11. Projections(Seen(Assumed, S)) = Joined({a}, Projections(Y))
  BY <1>3, <1>10, ProjectionsJoined
<1> HIDE DEF Y, a
<1> DEFINE E == VarsOf(p)
           Z == Projections(Y)
<1>12. E \cap D = {} /\ a \in SUBSET Literal /\ VarsOf(a) \subseteq E /\ Z \in SUBSET (SUBSET Literal) /\ Within(Z, D)
  BY <1>7, <1>9, <1>10
<1> HIDE DEF E, Z
<1>13. Total(Joined({a}, Z)) = WeightOf(a) * Total(Z)
  BY <1>12, JoinOne
<1>14. UnitFreeWeight(units, free) = WeightOf(a) * FreeWeight(free \cap Projected)
  BY DEF UnitFreeWeight, FreeWeight, a
<1>15. WeightOf(a) \in Int /\ FreeWeight(free \cap Projected) \in Int /\ Rest(OccClauses, p, U) \in Int
  <2>1. free \cap Projected \in SUBSET Var
    BY <1>5
  <2> QED
    BY <1>5, <1>12, <2>1, WeightFacts, FreeFacts, RestNumber
<1>16. \A x, y, z \in Int : x * (y * z) = (x * y) * z
  OBVIOUS
<1>17. Total(Projections(Seen(Assumed, S))) = WeightOf(a) * (FreeWeight(free \cap Projected) * Rest(OccClauses, p, U))
  BY <1>5, <1>9, <1>11, <1>13 DEF Z
<1> QED
  BY <1>5, <1>14, <1>15, <1>16, <1>17 DEF U
-----------------------------------------------------------------------------
(* A decision.                                                             *)

\* The models over C of one sign of a variable of C, and of the other.
LEMMA ModelsBranch ==
  ASSUME NEW R, NEW C \in SUBSET Var, NEW l \in Literal, VarOf(l) \in C
  PROVE  /\ ModelsOver(R, C) = ModelsOver(R \cup {{l}}, C) \cup ModelsOver(R \cup {{-l}}, C)
         /\ \A m \in ModelsOver(R \cup {{l}}, C) : l \in m
         /\ \A m \in ModelsOver(R \cup {{-l}}, C) : -l \in m
<1>1. ASSUME NEW k, NEW m \in Assignments(C)
      PROVE  m \in ModelsOver(R \cup {{k}}, C) <=> m \in ModelsOver(R, C) /\ k \in m
  <2>1. {k} \cap m # {} <=> k \in m
    OBVIOUS
  <2>2. (\A c \in R \cup {{k}} : c \cap m # {}) <=> (\A c \in R : c \cap m # {}) /\ {k} \cap m # {}
    OBVIOUS
  <2> QED
    BY <2>1, <2>2 DEF ModelsOver
<1>2. \A m \in Assignments(C) : l \in m \/ -l \in m
  BY AssignmentFacts
<1>3. \A Q : \A m \in ModelsOver(Q, C) : m \in Assignments(C)
  BY DEF ModelsOver
<1>4. ASSUME NEW m \in ModelsOver(R, C)
      PROVE  m \in ModelsOver(R \cup {{l}}, C) \/ m \in ModelsOver(R \cup {{-l}}, C)
  BY <1>1, <1>2, <1>3
<1> QED
  BY <1>1, <1>3, <1>4

\* What is left on C is what both branches of a decision on it count.
LEMMA CountBranch ==
  ASSUME NEW R, NEW C \in SUBSET Var, NEW l \in Literal, VarOf(l) \in C, VarOf(l) \in Projected
  PROVE  Count(R, C) = Count(R \cup {{l}}, C) + Count(R \cup {{-l}}, C)
<1> DEFINE X == Projections(ModelsOver(R \cup {{l}}, C))
           Y == Projections(ModelsOver(R \cup {{-l}}, C))
<1>1. /\ ModelsOver(R, C) = ModelsOver(R \cup {{l}}, C) \cup ModelsOver(R \cup {{-l}}, C)
      /\ \A m \in ModelsOver(R \cup {{l}}, C) : l \in m
      /\ \A m \in ModelsOver(R \cup {{-l}}, C) : -l \in m
  BY ModelsBranch
<1>2. Projections(ModelsOver(R, C)) = X \cup Y
  BY <1>1 DEF Projections
<1>3. X \in SUBSET (SUBSET Literal) /\ Y \in SUBSET (SUBSET Literal)
  BY ModelsOverFacts
<1>4. \A x \in X : l \in x
  BY <1>1 DEF Projections, Over
<1>5. \A x \in Y : -l \in x /\ l \notin x
  <2>1. VarOf(-l) \in Projected
    BY VarFacts
  <2>2. ASSUME NEW m \in ModelsOver(R \cup {{-l}}, C)
        PROVE  -l \in Over(m, Projected) /\ l \notin Over(m, Projected)
    <3>1. m \in Assignments(C) /\ -l \in m
      BY <1>1 DEF ModelsOver
    <3>2. ~Conflicting(m)
      BY <3>1, AssignmentFacts
    <3> QED
      BY <2>1, <3>1, <3>2 DEF Conflicting, Over
  <2> QED
    BY <2>2 DEF Projections
<1>6. X \cap Y = {}
  BY <1>4, <1>5
<1>7. Count(R, C) = Total(X \cup Y) /\ Count(R \cup {{l}}, C) = Total(X) /\ Count(R \cup {{-l}}, C) = Total(Y)
  BY <1>2, CountIs
<1> HIDE DEF X, Y
<1>8. Total(X \cup Y) = Total(X) + Total(Y)
  BY <1>3, <1>6, TotalFacts
<1> QED
  BY <1>7, <1>8

-----------------------------------------------------------------------------
(* Equal keys, equal counts.                                               *)

\* A component that can be counted under o.
Settled(cls, C, o) ==
  C \in SUBSET Var /\ o \in SUBSET Literal /\ C \cap VarsOf(o) = {} /\ Closed(cls, C, o) /\ Complete(cls, o)

\* The place of a variable among those of C says which it is.
LEMMA PlacesDiffer ==
  ASSUME NEW C \in SUBSET Var, NEW k \in Literal, NEW l \in Literal, VarOf(k) \in C, VarOf(l) \in C,
         PlaceIn(k, C) = PlaceIn(l, C)
  PROVE  k = l
<1> DEFINE B(v) == {w \in C : w <= v}
<1>1. IsFiniteSet(C) /\ C \subseteq Nat \ {0}
  BY VarAssumption, FS_Subset
<1>2. \A v \in C : IsFiniteSet(B(v)) /\ Cardinality(B(v)) \in Nat /\ Cardinality(B(v)) > 0 /\ v \in B(v)
  <2>1. ASSUME NEW v \in C
        PROVE  IsFiniteSet(B(v)) /\ v \in B(v)
    <3>1. B(v) \subseteq C /\ v \in B(v)
      BY <1>1
    <3> QED
      BY <1>1, <3>1, FS_Subset
  <2> HIDE DEF B
  <2>2. ASSUME NEW v \in C
        PROVE  Cardinality(B(v)) \in Nat /\ Cardinality(B(v)) > 0
    <3>1. B(v) # {}
      BY <2>1
    <3>2. Cardinality(B(v)) \in Nat /\ Cardinality(B(v)) # 0
      BY <2>1, <3>1, FS_CardinalityType, FS_EmptySet
    <3> QED
      BY <3>2
  <2> QED
    BY <2>1, <2>2
<1>3. ASSUME NEW v \in C, NEW w \in C, v < w
      PROVE  Cardinality(B(v)) < Cardinality(B(w))
  <2>1. B(v) \subseteq B(w) /\ w \notin B(v) /\ w \in B(w)
    <3>1. v \in Int /\ w \in Int /\ \A x \in C : x \in Int
      BY <1>1
    <3>2. \A x \in Int : x <= v => x <= w
      BY <1>3, <3>1
    <3>3. ~(w <= v) /\ w <= w
      BY <1>3, <3>1
    <3> QED
      BY <3>1, <3>2, <3>3
  <2>2. IsFiniteSet(B(w)) /\ IsFiniteSet(B(v))
    BY <1>2
  <2> HIDE DEF B
  <2>3. Cardinality(B(v)) <= Cardinality(B(w)) /\ (Cardinality(B(v)) = Cardinality(B(w)) => B(v) = B(w))
    BY <2>1, <2>2, FS_Subset
  <2> QED
    BY <1>2, <2>1, <2>3
<1>4. /\ k \in Int /\ l \in Int /\ VarOf(k) \in Nat /\ VarOf(l) \in Nat
      /\ k > 0 => VarOf(k) = k
      /\ ~(k > 0) => VarOf(k) = -k
      /\ l > 0 => VarOf(l) = l
      /\ ~(l > 0) => VarOf(l) = -l
  BY <1>1, VarFacts DEF VarOf
<1>5. /\ k > 0 => PlaceIn(k, C) = Cardinality(B(VarOf(k)))
      /\ ~(k > 0) => PlaceIn(k, C) = -Cardinality(B(VarOf(k)))
      /\ l > 0 => PlaceIn(l, C) = Cardinality(B(VarOf(l)))
      /\ ~(l > 0) => PlaceIn(l, C) = -Cardinality(B(VarOf(l)))
  BY DEF PlaceIn
<1> HIDE DEF B
<1>6. (k > 0) = (l > 0) /\ Cardinality(B(VarOf(k))) = Cardinality(B(VarOf(l)))
  BY <1>2, <1>4, <1>5
<1>7. VarOf(k) = VarOf(l)
  BY <1>2, <1>3, <1>4, <1>6
<1> QED
  BY <1>4, <1>6, <1>7
LEMMA ThreeElements ==
  ASSUME NEW c \in SUBSET Literal, NEW a \in c, NEW b \in c, NEW e \in c, a # b, e # a, e # b
  PROVE  Cardinality(c) > 2
<1> DEFINE d == c \ {e}
<1>1. IsFiniteSet(c) /\ IsFiniteSet(d) /\ a \in d /\ b \in d
  BY LiteralFinite, FS_Subset
<1>2. Cardinality(c) \in Nat /\ Cardinality(d) = Cardinality(c) - 1
  BY <1>1, FS_CardinalityType, FS_RemoveElement
<1> HIDE DEF d
<1>3. Cardinality(d) >= 2
  BY <1>1, TwoElements
<1> QED
  BY <1>2, <1>3

\* A clause that the key omits has lost no literal: by definition, or because
\* no clause is left with less than two.
LEMMA UnstoredWhole ==
  ASSUME NEW cls \in SUBSET (SUBSET Literal), NEW C, NEW o, Settled(cls, C, o),
         NEW c \in CurrentClauses(cls, C, o), ~Stored(c, o)
  PROVE  Left(c, o) = c
<1>1. c \in SUBSET Literal /\ c \in Unsatisfied(cls, o) /\ Left(c, o) \subseteq c /\ Left(c, o) # {}
  BY DEF CurrentClauses, Unsatisfied, Left, VarsOf
<1>2. CASE CacheMode = "NT"
  BY <1>2 DEF Stored
<1>3. CASE CacheMode # "NT"
  <2>1. CacheMode = "NB" /\ ~(Cardinality(c) > 2)
    BY <1>3, Zenon DEF Stored
  <2>2. \A a, b, e \in c : a = b \/ e = a \/ e = b
    BY <1>1, <2>1, ThreeElements
  <2> DEFINE V == VarsOf(Left(c, o))
  <2>3. Cardinality(V) >= 2 \/ Conflicting(c)
    BY <1>1 DEF Settled, Complete
  <2>4. CASE Conflicting(c)
    <3>1. PICK l \in c : -l \in c
      BY <2>4 DEF Conflicting
    <3>2. l \in Int /\ l # 0 /\ VarOf(-l) = VarOf(l) /\ l # -l
      <4>1. l \in Literal /\ l \in Int
        BY <1>1, VarFacts
      <4>2. VarOf(l) \in Nat \ {0} /\ VarOf(-l) = VarOf(l)
        BY <4>1, VarFacts
      <4> QED
        BY <4>1, <4>2 DEF VarOf
    <3>3. \A e \in c : e = l \/ e = -l
      BY <2>2, <3>1, <3>2
    <3>4. \A e \in c : VarOf(e) = VarOf(l)
      BY <3>2, <3>3
    <3> QED
      BY <1>1, <3>4 DEF Left
  <2>5. CASE Cardinality(V) >= 2
    <3>1. V # {}
      BY <1>1 DEF VarsOf
    <3>2. PICK v \in V : TRUE
      BY <3>1
    <3>3. V # {v}
      <4>1. Cardinality({v}) = 1
        BY FS_Singleton
      <4> HIDE DEF V
      <4>2. ~(Cardinality({v}) >= 2)
        BY <4>1
      <4> QED
        BY <2>5, <4>2
    <3>4. PICK w \in V : w # v
      BY <3>2, <3>3
    <3>5. PICK k \in Left(c, o) : VarOf(k) = v
      BY DEF VarsOf
    <3>6. PICK l \in Left(c, o) : VarOf(l) = w
      BY DEF VarsOf
    <3>7. k # l /\ k \in c /\ l \in c
      BY <1>1, <3>4, <3>5, <3>6
    <3>8. \A e \in c : e = k \/ e = l
      BY <2>2, <3>7
    <3> QED
      BY <1>1, <3>5, <3>6, <3>8
  <2> QED
    BY <2>3, <2>4, <2>5
<1> QED
  BY <1>2, <1>3

\* Places say which literals over C a clause has.
Places(x, C) == {PlaceIn(l, C) : l \in x}
LEMMA PlacesSame ==
  ASSUME NEW C \in SUBSET Var, NEW x \in SUBSET Literal, NEW y \in SUBSET Literal,
         VarsOf(x) \subseteq C, VarsOf(y) \subseteq C, Places(x, C) = Places(y, C)
  PROVE  x = y
<1>1. ASSUME NEW u \in SUBSET Literal, NEW w \in SUBSET Literal,
             VarsOf(u) \subseteq C, VarsOf(w) \subseteq C, Places(u, C) = Places(w, C), NEW k \in u
      PROVE  k \in w
  <2>1. PlaceIn(k, C) \in Places(w, C)
    BY <1>1 DEF Places
  <2>2. PICK l \in w : PlaceIn(k, C) = PlaceIn(l, C)
    BY <2>1 DEF Places
  <2>3. k \in Literal /\ l \in Literal /\ VarOf(k) \in C /\ VarOf(l) \in C
    BY <1>1 DEF VarsOf
  <2> QED
    BY <2>2, <2>3, PlacesDiffer
<1> QED
  BY <1>1

\* So the clauses of one residual formula are clauses of the other.
LEMMA KeyHalf ==
  ASSUME NEW cls \in SUBSET (SUBSET Literal), NEW C, NEW o, NEW p, Settled(cls, C, o), Settled(cls, C, p),
         StoredClauses(cls, C, o) = StoredClauses(cls, C, p), NEW x \in Residual(cls, C, o)
  PROVE  x \in Residual(cls, C, p)
<1>1. PICK c \in CurrentClauses(cls, C, o) : x = Left(c, o)
  BY DEF Residual
<1>2. C \in SUBSET Var /\ Closed(cls, C, o) /\ Closed(cls, C, p) /\ C \cap VarsOf(p) = {}
  BY DEF Settled
<1>3. /\ c \in cls /\ c \in SUBSET Literal /\ x \in SUBSET Literal /\ VarsOf(x) \subseteq C
      /\ VarsOf(x) \cap C # {}
  BY <1>1, <1>2 DEF CurrentClauses, Unsatisfied, Left, Closed
<1>4. CASE Stored(c, o)
  <2>1. Places(x, C) \in StoredClauses(cls, C, p)
    BY <1>1, <1>4 DEF StoredClauses, Places
  <2>2. PICK d \in CurrentClauses(cls, C, p) : Places(x, C) = Places(Left(d, p), C)
    BY <2>1 DEF StoredClauses, Places
  <2>3. Left(d, p) \in SUBSET Literal /\ VarsOf(Left(d, p)) \subseteq C
    BY <1>2 DEF CurrentClauses, Unsatisfied, Left, Closed
  <2>4. x = Left(d, p)
    BY <1>2, <1>3, <2>2, <2>3, PlacesSame
  <2> QED
    BY <2>4 DEF Residual
<1>5. CASE ~Stored(c, o)
  <2>1. x = c
    BY <1>1, <1>5, UnstoredWhole
  <2>2. c \cap p = {} /\ Left(c, p) = c
    BY <1>2, <1>3, <2>1 DEF VarsOf, Left
  <2>3. c \in CurrentClauses(cls, C, p)
    BY <1>3, <2>1, <2>2 DEF CurrentClauses, Unsatisfied
  <2> QED
    BY <2>1, <2>2, <2>3 DEF Residual
<1> QED
  BY <1>4, <1>5

LEMMA KeySound ==
  ASSUME NEW cls \in SUBSET (SUBSET Literal), NEW C, NEW D, NEW o, NEW p, Settled(cls, C, o), Settled(cls, D, p),
         Key(cls, C, o) = Key(cls, D, p)
  PROVE  Rest(cls, o, C) = Rest(cls, p, D)
<1>1. C = D /\ StoredClauses(cls, C, o) = StoredClauses(cls, D, p)
  <2>1. Key(cls, C, o).variables = C /\ Key(cls, C, o).clauses = StoredClauses(cls, C, o)
    BY DEF Key
  <2>2. Key(cls, D, p).variables = D /\ Key(cls, D, p).clauses = StoredClauses(cls, D, p)
    BY DEF Key
  <2> QED
    BY <2>1, <2>2
<1>2. Residual(cls, C, o) = Residual(cls, C, p)
  <2>1. Settled(cls, C, o) /\ Settled(cls, C, p) /\ StoredClauses(cls, C, o) = StoredClauses(cls, C, p)
    BY <1>1
  <2>2. \A x \in Residual(cls, C, o) : x \in Residual(cls, C, p)
    BY <2>1, KeyHalf
  <2>3. \A x \in Residual(cls, C, p) : x \in Residual(cls, C, o)
    BY <2>1, KeyHalf
  <2> QED
    BY <2>2, <2>3
<1> QED
  BY <1>1, <1>2 DEF Rest
-----------------------------------------------------------------------------
(* The invariant.                                                          *)

\* What a call whose units and free variables weigh w is to return, when the
\* product so far is r and the components C and T are still to be counted.
Due(cls, w, r, o, C, T) == w * (r * (Rest(cls, o, C) * Rest(cls, o, UNION T)))

LevelCount(cls, s, ds, k) ==
  /\ s[k].ret \in Int
  /\ Wanted(cls, s, ds, k)
       = Due(cls, UnitFreeWeight(s[k].units, s[k].free), s[k].ret, UnitsOf(s, k), s[k].connected, s[k].todo)
  /\ Separate(s[k].todo)
  /\ k > 1 => ds[k - 1] \in s[k].units

\* A decision is on its first branch, or pos is the count of the first.
BranchCount(cls, s, ds, k) ==
  /\ s[k].lit \in Literal /\ VarOf(s[k].lit) \in Projected
  /\ \/ ds[k] = s[k].lit
     \/ /\ ds[k] = -s[k].lit
        /\ s[k].pos = Count(Residual(cls, s[k].connected, UnitsOf(s, k)) \cup {{s[k].lit}}, s[k].connected)

LevelsCount == \A k \in 1 .. Solved : LevelCount(OccClauses, stack, assumptions, k)
BranchesCount == \A k \in 1 .. Len(stack) - 1 : BranchCount(OccClauses, stack, assumptions, k)
FixedAmongUnits == Solved >= 1 => fixed \subseteq stack[1].units

\* A value of the cache is the count of a component, whichever has its key.
Exact(cls, key, val) ==
  \E C, o : Settled(cls, C, o) /\ key = Key(cls, C, o) /\ val = Rest(cls, o, C)
CacheExact == \A key \in DOMAIN cache : Exact(OccClauses, key, cache[key])

PlaceCount ==
  /\ pc = "components" => Top.connected = {}
  /\ pc = "solve" => Top.ret = 1
  /\ pc = "return" => value = Wanted(OccClauses, stack, assumptions, Len(stack))
  /\ answer = IF pc = "done" THEN FormulaCount ELSE NoAnswer

CountInv == LevelsCount /\ BranchesCount /\ FixedAmongUnits /\ CacheExact /\ PlaceCount

\* The one way the count goes wrong: a component without an unassigned projected
\* variable counts as 1, as if the rest of it were always satisfiable and all
\* its variables were assigned.
LossFree == pc = "select" /\ Candidates = {} => Rest(OccClauses, occ, Top.connected) = 1

-----------------------------------------------------------------------------
(* The product of a call.                                                  *)

Countable(cls, w, r, o, T) ==
  /\ w \in Int /\ r \in Int
  /\ T \in SUBSET (SUBSET Var) /\ Separate(T) /\ \A D \in T : Closed(cls, D, o)

LEMMA DueTake ==
  ASSUME NEW cls, NEW w, NEW r, NEW o, NEW T, Countable(cls, w, r, o, T), NEW C \in T
  PROVE  /\ Due(cls, w, r, o, {}, T) = Due(cls, w, r * Rest(cls, o, C), o, {}, T \ {C})
         /\ Due(cls, w, r, o, {}, T) = Due(cls, w, r, o, C, T \ {C})
<1> DEFINE a == Rest(cls, o, C)
           b == Rest(cls, o, UNION (T \ {C}))
<1>1. w \in Int /\ r \in Int /\ T \in SUBSET (SUBSET Var) /\ C \in SUBSET Var /\ UNION (T \ {C}) \in SUBSET Var
  BY DEF Countable
<1>2. a \in Int /\ b \in Int
  BY <1>1, RestNumber
<1>3. Rest(cls, o, UNION T) = a * b
  BY RestTake DEF Countable
<1>4. Rest(cls, o, {}) = 1
  BY RestEmpty
<1> HIDE DEF a, b
<1>5. \A i, j, k, n \in Int : i * (j * (1 * (k * n))) = i * ((j * k) * (1 * n))
  OBVIOUS
<1>6. \A i, j, k, n \in Int : i * (j * (1 * (k * n))) = i * (j * (k * n))
  OBVIOUS
<1>7. Due(cls, w, r, o, {}, T) = w * (r * (1 * (a * b)))
  BY <1>3, <1>4 DEF Due
<1>8. Due(cls, w, r * a, o, {}, T \ {C}) = w * ((r * a) * (1 * b))
  BY <1>4 DEF Due, b
<1>9. Due(cls, w, r, o, C, T \ {C}) = w * (r * (a * b))
  BY DEF Due, a, b
<1> QED
  BY <1>1, <1>2, <1>5, <1>6, <1>7, <1>8, <1>9 DEF a

LEMMA DueEnd ==
  ASSUME NEW cls, NEW w \in Int, NEW r \in Int, NEW o, NEW C \in SUBSET Var, NEW T \in SUBSET (SUBSET Var)
  PROVE  Due(cls, w, r, o, C, T) = Due(cls, w, r * Rest(cls, o, C), o, {}, T)
<1> DEFINE a == Rest(cls, o, C)
           b == Rest(cls, o, UNION T)
<1>1. a \in Int /\ b \in Int
  BY RestNumber
<1>2. Rest(cls, o, {}) = 1
  BY RestEmpty
<1> HIDE DEF a, b
<1>3. \A i, j, k, n \in Int : i * (j * (k * n)) = i * ((j * k) * (1 * n))
  OBVIOUS
<1> QED
  BY <1>1, <1>2, <1>3 DEF Due, a, b

LEMMA DueBounds ==
  ASSUME NEW cls, NEW w \in Int, NEW o, NEW T \in SUBSET (SUBSET Var)
  PROVE  Due(cls, w, 1, o, {}, T) = w * Rest(cls, o, UNION T)
<1> DEFINE b == Rest(cls, o, UNION T)
<1>1. b \in Int
  BY RestNumber
<1>2. Rest(cls, o, {}) = 1
  BY RestEmpty
<1> HIDE DEF b
<1>3. \A i, j \in Int : i * (1 * (1 * j)) = i * j
  OBVIOUS
<1>4. Due(cls, w, 1, o, {}, T) = w * (1 * (1 * b))
  BY <1>2 DEF Due, b
<1> QED
  BY <1>1, <1>3, <1>4 DEF b

LEMMA DueDone ==
  ASSUME NEW cls, NEW w \in Int, NEW r \in Int, NEW o
  PROVE  Due(cls, w, r, o, {}, {}) = r * w
<1>1. Rest(cls, o, {}) = 1 /\ UNION {} = {}
  BY RestEmpty
<1>2. \A i, j \in Int : i * (j * (1 * 1)) = j * i
  OBVIOUS
<1>3. Due(cls, w, r, o, {}, {}) = w * (r * (1 * 1))
  BY <1>1 DEF Due
<1> QED
  BY <1>2, <1>3

\* The weight of units and free variables.
LEMMA UnitFreeNumber ==
  ASSUME NEW units \in SUBSET Literal, NEW free \in SUBSET Var
  PROVE  UnitFreeWeight(units, free) \in Int
<1>1. UnitFreeWeight(units, free) = WeightOf(Over(units, Projected)) * FreeWeight(free \cap Projected)
  BY DEF UnitFreeWeight, FreeWeight
<1>2. Over(units, Projected) \in SUBSET Literal /\ free \cap Projected \in SUBSET Var
  BY DEF Over
<1>3. WeightOf(Over(units, Projected)) \in Int /\ FreeWeight(free \cap Projected) \in Int
  BY <1>2, WeightFacts, FreeFacts
<1> QED
  BY <1>1, <1>3

-----------------------------------------------------------------------------
(* What the calls below keep.                                              *)

Keeps(t, a) ==
  /\ t.set = a.set /\ t.units = a.units /\ t.free = a.free /\ t.todo = a.todo
  /\ t.ret = a.ret /\ t.connected = a.connected

LEMMA UnitsKept ==
  ASSUME NEW s, NEW u, NEW m \in Nat, \A k \in 1 .. m : u[k].units = s[k].units,
         NEW k \in 0 .. m
  PROVE  UnitsOf(u, k) = UnitsOf(s, k)
<1>1. \A j \in 1 .. k : j \in 1 .. m
  OBVIOUS
<1> QED
  BY <1>1 DEF UnitsOf

SameCall(s, ds, u, bs, k) ==
  /\ k \in Nat \ {0} /\ u[k].set = s[k].set
  /\ \A j \in 1 .. k - 1 : u[j].units = s[j].units
  /\ \A j \in 1 .. k - 1 : bs[j] = ds[j]
LEMMA WantedKept ==
  ASSUME NEW cls, NEW t, NEW at, NEW v, NEW bt, NEW i, SameCall(t, at, v, bt, i)
  PROVE  Wanted(cls, v, bt, i) = Wanted(cls, t, at, i)
<1>1. CASE i = 1
  BY <1>1 DEF Wanted
<1>2. CASE i # 1
  <2> DEFINE m == i - 1
  <2>1. m \in Nat /\ m \in 0 .. m /\ m \in 1 .. i - 1 /\ \A j \in 1 .. m : v[j].units = t[j].units
    BY <1>2 DEF SameCall
  <2>2. UnitsOf(v, m) = UnitsOf(t, m)
    BY <2>1, UnitsKept
  <2>3. bt[m] = at[m] /\ v[i].set = t[i].set
    BY <2>1 DEF SameCall
  <2> QED
    BY <1>2, <2>2, <2>3 DEF Wanted
<1> QED
  BY <1>1, <1>2

LEMMA LevelsKept ==
  ASSUME NEW cls, NEW s, NEW ds, NEW m \in Nat, \A k \in 1 .. m : LevelCount(cls, s, ds, k),
         NEW u, NEW bs, \A k \in 1 .. m : Keeps(u[k], s[k]), \A k \in 1 .. m - 1 : bs[k] = ds[k]
  PROVE  \A k \in 1 .. m : LevelCount(cls, u, bs, k)
<1> SUFFICES ASSUME NEW k \in 1 .. m
             PROVE  LevelCount(cls, u, bs, k)
  OBVIOUS
<1>1. /\ k \in Nat \ {0} /\ k \in 0 .. m
      /\ \A j \in 1 .. k - 1 : j \in 1 .. m /\ j \in 1 .. m - 1
      /\ k > 1 => k - 1 \in 1 .. m - 1
  OBVIOUS
<1>2. \A j \in 1 .. m : u[j].units = s[j].units
  BY DEF Keeps
<1>3. Wanted(cls, u, bs, k) = Wanted(cls, s, ds, k)
  <2>1. SameCall(s, ds, u, bs, k)
    BY <1>1, <1>2 DEF Keeps, SameCall
  <2> QED
    BY <2>1, WantedKept
<1>4. UnitsOf(u, k) = UnitsOf(s, k)
  BY <1>1, <1>2, UnitsKept
<1>5. LevelCount(cls, s, ds, k) /\ Keeps(u[k], s[k])
  OBVIOUS
<1>6. k > 1 => bs[k - 1] = ds[k - 1]
  BY <1>1
<1> QED
  BY <1>3, <1>4, <1>5, <1>6 DEF LevelCount, Keeps

LEMMA BranchesKept ==
  ASSUME NEW cls, NEW s, NEW ds, NEW m \in Nat, \A k \in 1 .. m : BranchCount(cls, s, ds, k),
         NEW u, NEW bs,
         \A k \in 1 .. m : /\ u[k].units = s[k].units /\ u[k].connected = s[k].connected
                           /\ u[k].lit = s[k].lit /\ u[k].pos = s[k].pos,
         \A k \in 1 .. m : bs[k] = ds[k]
  PROVE  \A k \in 1 .. m : BranchCount(cls, u, bs, k)
<1> SUFFICES ASSUME NEW k \in 1 .. m
             PROVE  BranchCount(cls, u, bs, k)
  OBVIOUS
<1>1. k \in 0 .. m
  OBVIOUS
<1>2. UnitsOf(u, k) = UnitsOf(s, k)
  BY <1>1, UnitsKept
<1> QED
  BY <1>2 DEF BranchCount
-----------------------------------------------------------------------------
(* What the search knows of a call.                                        *)

LEMMA LevelFacts ==
  ASSUME IInv, NEW k \in 1 .. Len(stack)
  PROVE  /\ stack[k].set \in SUBSET Var /\ stack[k].units \in SUBSET Literal /\ stack[k].free \in SUBSET Var
         /\ stack[k].todo \in SUBSET (SUBSET Var) /\ stack[k].connected \in SUBSET Var
         /\ UnitFreeWeight(stack[k].units, stack[k].free) \in Int
         /\ UnitsOf(stack, k) \in SUBSET Literal
         /\ LevelRight(stack, assumptions, k)
<1>1. PICK V : stack \in Seq(Level(V)) /\ \A j \in 1 .. Len(stack) : stack[j] \in Level(V)
  BY StateFacts
<1>2. \A j \in 1 .. Len(stack) : stack[j].units \in SUBSET Literal
  BY <1>1 DEF Level
<1>3. UnitsOf(stack, k) \in SUBSET Literal
  <2>1. \A j \in 1 .. k : j \in 1 .. Len(stack)
    OBVIOUS
  <2> QED
    BY <1>2, <2>1 DEF UnitsOf
<1>4. /\ stack[k].set \in SUBSET Var /\ stack[k].units \in SUBSET Literal /\ stack[k].free \in SUBSET Var
      /\ stack[k].todo \in SUBSET (SUBSET Var) /\ stack[k].connected \in SUBSET Var
  BY <1>1 DEF Level
<1> QED
  BY <1>3, <1>4, UnitFreeNumber DEF IInv, Nested

\* Its components can be counted.
LEMMA LevelSettled ==
  ASSUME IInv, SolveInv, NEW k \in 1 .. Len(stack), k <= Solved,
         NEW C \in stack[k].todo \cup {stack[k].connected}
  PROVE  Settled(OccClauses, C, UnitsOf(stack, k))
<1>1. C \in SUBSET Var /\ UnitsOf(stack, k) \in SUBSET Literal
  BY LevelFacts
<1>2. \A j \in 1 .. k : C \cap VarsOf(stack[j].units) = {}
  <2>1. LevelRight(stack, assumptions, k)
    BY LevelFacts
  <2> QED
    BY <2>1 DEF LevelRight
<1>3. C \cap VarsOf(UnitsOf(stack, k)) = {}
  BY <1>2 DEF UnitsOf, VarsOf
<1>4. SolvedRight(OccClauses, stack, assumptions, k)
  <2>1. k \in 1 .. Solved
    BY StateFacts DEF Solved
  <2> QED
    BY <2>1 DEF SolveInv, SolvedExact
<1> QED
  BY <1>1, <1>3, <1>4 DEF Settled, SolvedRight

\* The product of a solved call is taken over numbers.
LEMMA LevelCountable ==
  ASSUME IInv, SolveInv, CountInv, NEW k \in 1 .. Len(stack), k <= Solved
  PROVE  /\ LevelCount(OccClauses, stack, assumptions, k)
         /\ Countable(OccClauses, UnitFreeWeight(stack[k].units, stack[k].free), stack[k].ret,
                      UnitsOf(stack, k), stack[k].todo)
<1>1. LevelCount(OccClauses, stack, assumptions, k)
  <2>1. k \in 1 .. Solved
    BY StateFacts DEF Solved
  <2> QED
    BY <2>1 DEF CountInv, LevelsCount
<1>2. \A C \in stack[k].todo : Closed(OccClauses, C, UnitsOf(stack, k))
  BY LevelSettled DEF Settled
<1>3. UnitFreeWeight(stack[k].units, stack[k].free) \in Int /\ stack[k].todo \in SUBSET (SUBSET Var)
  BY LevelFacts
<1> QED
  BY <1>1, <1>2, <1>3 DEF Countable, LevelCount

\* What is found in the cache is the count of what it is found for.
LEMMA HitRight ==
  ASSUME CacheExact, NEW C, Settled(OccClauses, C, occ), Key(OccClauses, C, occ) \in DOMAIN cache
  PROVE  cache[Key(OccClauses, C, occ)] = Rest(OccClauses, occ, C)
<1> DEFINE key == Key(OccClauses, C, occ)
<1>1. PICK D, p : Settled(OccClauses, D, p) /\ key = Key(OccClauses, D, p) /\ cache[key] = Rest(OccClauses, p, D)
  BY DEF CacheExact, Exact
<1>2. Rest(OccClauses, occ, C) = Rest(OccClauses, p, D)
  BY <1>1, OccClausesFacts, KeySound
<1> QED
  BY <1>1, <1>2

\* And what is put into it stays so.
LEMMA CacheKept ==
  ASSUME CacheExact, UNCHANGED <<fixed, cache>>
  PROVE  CacheExact'
<1>1. OccClauses' = OccClauses
  BY DEF OccClauses
<1> QED
  BY <1>1 DEF CacheExact

LEMMA CacheGrows ==
  ASSUME CacheExact, UNCHANGED fixed, NEW C, NEW val, AddInCache(C, val),
         Settled(OccClauses, C, occ), val = Rest(OccClauses, occ, C)
  PROVE  CacheExact'
<1>1. OccClauses' = OccClauses
  BY DEF OccClauses
<1> DEFINE key == Key(OccClauses, C, occ)
<1>2. Exact(OccClauses, key, val)
  BY DEF Exact
<1> HIDE DEF key
<1>3. CASE cache' = cache
  BY <1>1, <1>3 DEF CacheExact
<1>4. CASE cache' = [k \in DOMAIN cache \cup {key} |-> IF k = key THEN val ELSE cache[k]]
  <2>1. PICK f : f = cache'
    OBVIOUS
  <2>2. \A k \in DOMAIN f : Exact(OccClauses, k, f[k])
    BY <1>2, <1>4, <2>1 DEF CacheExact
  <2> QED
    BY <1>1, <2>1, <2>2 DEF CacheExact
<1> QED
  BY <1>3, <1>4 DEF AddInCache, key

-----------------------------------------------------------------------------
(* The steps of a call that is being counted.                              *)

\* The innermost call becomes t.
TopBecomes(t) ==
  \/ stack' = [stack EXCEPT ![Len(stack)] = t]
  \/ stack' = Append(SubSeq(stack, 1, Len(stack) - 1), t)

LEMMA TopShape ==
  ASSUME IInv, NEW t, TopBecomes(t)
  PROVE  /\ Len(stack') = Len(stack) /\ stack'[Len(stack)] = t
         /\ \A k \in 1 .. Len(stack) - 1 : stack'[k] = stack[k]
<1>1. PICK V : stack \in Seq(Level(V))
  BY StateFacts
<1> DEFINE S == Level(V) \cup {t}
<1>2. stack \in Seq(S) /\ stack # <<>> /\ t \in S
  <2>1. Level(V) \subseteq S
    OBVIOUS
  <2>2. stack \in Seq(S)
    BY <1>1, <2>1
  <2> QED
    BY <2>2, StateFacts
<1> HIDE DEF S
<1>3. PICK u : u = stack'
  OBVIOUS
<1>4. u = [stack EXCEPT ![Len(stack)] = t]
  <2>1. Append(SubSeq(stack, 1, Len(stack) - 1), t) = [stack EXCEPT ![Len(stack)] = t]
    BY <1>2, LastFacts
  <2> QED
    BY <1>3, <2>1, Zenon DEF TopBecomes
<1>5. Len(u) = Len(stack) /\ u[Len(stack)] = t /\ \A k \in 1 .. Len(stack) - 1 : u[k] = stack[k]
  BY <1>2, <1>4, LastFacts
<1> QED
  BY <1>3, <1>5
\* The part of the invariant that is about the calls.
CallsCount == LevelsCount /\ BranchesCount /\ FixedAmongUnits

LEMMA CallsNext ==
  ASSUME UNCHANGED fixed, NEW u, u = stack', NEW ds, ds = assumptions', NEW m \in Int, Solved' = m,
         \A k \in 1 .. m : LevelCount(OccClauses, u, ds, k),
         \A k \in 1 .. Len(u) - 1 : BranchCount(OccClauses, u, ds, k),
         m >= 1 => fixed \subseteq u[1].units
  PROVE  CallsCount'
<1>1. OccClauses' = OccClauses
  BY DEF OccClauses
<1>2. LevelsCount'
  BY <1>1 DEF LevelsCount
<1>3. BranchesCount'
  BY <1>1 DEF BranchesCount
<1>4. FixedAmongUnits'
  BY DEF FixedAmongUnits
<1> QED
  BY <1>2, <1>3, <1>4 DEF CallsCount

\* The calls stay and so does what has been solved of them.
LEMMA CallsSame ==
  ASSUME IInv, CountInv, UNCHANGED <<fixed, assumptions, stack>>, Solved' <= Solved, Solved' \in Int
  PROVE  CallsCount'
<1>1. PICK u, ds, m : u = stack' /\ ds = assumptions' /\ m = Solved'
  OBVIOUS
<1>2. /\ m \in Int /\ m <= Solved /\ u = stack /\ ds = assumptions /\ Solved \in Int
  BY <1>1, StateFacts DEF Solved
<1>3. \A k \in 1 .. m : LevelCount(OccClauses, u, ds, k)
  BY <1>2 DEF CountInv, LevelsCount
<1>4. \A k \in 1 .. Len(u) - 1 : BranchCount(OccClauses, u, ds, k)
  BY <1>2 DEF CountInv, BranchesCount
<1>5. m >= 1 => fixed \subseteq u[1].units
  BY <1>2 DEF CountInv, FixedAmongUnits
<1> QED
  BY <1>1, <1>2, <1>3, <1>4, <1>5, CallsNext

\* t is due what the innermost call is.
Recount(t) ==
  /\ t.set = Top.set /\ t.units = Top.units /\ t.free = Top.free
  /\ t.ret \in Int /\ Separate(t.todo)
  /\ LET w == UnitFreeWeight(Top.units, Top.free)
         o == UnitsOf(stack, Len(stack))
     IN  Due(OccClauses, w, t.ret, o, t.connected, t.todo)
           = Due(OccClauses, w, Top.ret, o, Top.connected, Top.todo)

LEMMA LevelRecount ==
  ASSUME IInv, NEW t, Recount(t), LevelCount(OccClauses, stack, assumptions, Len(stack)),
         NEW u, Len(u) = Len(stack), u[Len(stack)] = t, \A k \in 1 .. Len(stack) - 1 : u[k] = stack[k]
  PROVE  LevelCount(OccClauses, u, assumptions, Len(stack))
<1> DEFINE n == Len(stack)
<1>1. n \in Nat \ {0} /\ Top = stack[n] /\ n \in 0 .. n
  BY StateFacts DEF Top
<1>2. \A k \in 1 .. n : u[k].units = stack[k].units
  <2>1. \A k \in 1 .. n : k = n \/ k \in 1 .. n - 1
    BY <1>1
  <2> QED
    BY <1>1, <2>1 DEF Recount
<1>3. UnitsOf(u, n) = UnitsOf(stack, n)
  BY <1>1, <1>2, UnitsKept
<1>4. Wanted(OccClauses, u, assumptions, n) = Wanted(OccClauses, stack, assumptions, n)
  <2>1. SameCall(stack, assumptions, u, assumptions, n)
    BY <1>1, <1>2 DEF SameCall, Recount
  <2> QED
    BY <2>1, WantedKept
<1> QED
  BY <1>1, <1>3, <1>4 DEF LevelCount, Recount

LEMMA TopRecount ==
  ASSUME IInv, CountInv, NEW t, TopBecomes(t), Recount(t),
         UNCHANGED <<fixed, assumptions>>,
         pc \in {"components", "partition", "select"}, pc' \in {"components", "partition", "select"}
  PROVE  CallsCount'
<1> DEFINE n == Len(stack)
<1>1. n \in Nat \ {0} /\ Top = stack[n] /\ Solved = n
  BY StateFacts DEF Top, Solved
<1>2. PICK u, ds : u = stack' /\ ds = assumptions'
  OBVIOUS
<1>3. Len(u) = n /\ u[n] = t /\ \A k \in 1 .. n - 1 : u[k] = stack[k]
  BY <1>2, TopShape
<1>4. Solved' = n /\ ds = assumptions
  BY <1>2, <1>3 DEF Solved
<1>5. \A k \in 1 .. n : LevelCount(OccClauses, stack, assumptions, k)
  BY <1>1 DEF CountInv, LevelsCount
<1>6. \A k \in 1 .. n - 1 : BranchCount(OccClauses, stack, assumptions, k)
  BY DEF CountInv, BranchesCount
<1>7. LevelCount(OccClauses, u, assumptions, n)
  <2>1. LevelCount(OccClauses, stack, assumptions, n)
    BY <1>1, <1>5
  <2> QED
    BY <1>3, <2>1, LevelRecount
<1> HIDE DEF n
<1>8. \A k \in 1 .. n - 1 : LevelCount(OccClauses, u, assumptions, k)
  <2>1. n - 1 \in Nat /\ \A k \in 1 .. n - 1 : LevelCount(OccClauses, stack, assumptions, k)
    BY <1>1, <1>5
  <2>2. \A k \in 1 .. n - 1 : Keeps(u[k], stack[k])
    BY <1>3 DEF Keeps
  <2> QED
    BY <2>1, <2>2, LevelsKept
<1>9. \A k \in 1 .. n : LevelCount(OccClauses, u, ds, k)
  <2>1. \A k \in 1 .. n : k = n \/ k \in 1 .. n - 1
    BY <1>1
  <2> QED
    BY <1>4, <1>7, <1>8, <2>1
<1>10. \A k \in 1 .. Len(u) - 1 : BranchCount(OccClauses, u, ds, k)
  <2>1. n - 1 \in Nat
    BY <1>1
  <2>2. \A k \in 1 .. n - 1 : BranchCount(OccClauses, u, assumptions, k)
    BY <1>3, <1>6, <2>1, BranchesKept
  <2> QED
    BY <1>3, <1>4, <2>2
<1>11. fixed \subseteq u[1].units
  <2>1. fixed \subseteq stack[1].units
    BY <1>1 DEF CountInv, FixedAmongUnits
  <2>2. CASE n = 1
    BY <1>1, <1>3, <2>1, <2>2 DEF Recount
  <2>3. CASE n # 1
    <3>1. 1 \in 1 .. n - 1
      BY <1>1, <2>3
    <3> QED
      BY <1>3, <2>1, <3>1
  <2> QED
    BY <2>2, <2>3
<1> QED
  BY <1>1, <1>2, <1>3, <1>4, <1>9, <1>10, <1>11, CallsNext
\* The innermost call, and what it may count on.
LEMMA TopKnown ==
  ASSUME IInv, SolveInv, CountInv, pc \in {"components", "partition", "select"}
  PROVE  /\ Len(stack) \in Nat \ {0} /\ Len(stack) \in 1 .. Len(stack) /\ Solved = Len(stack)
         /\ Top = stack[Len(stack)] /\ occ = UnitsOf(stack, Len(stack))
         /\ Top.connected \in SUBSET Var /\ Top.todo \in SUBSET (SUBSET Var)
         /\ {} \notin Top.todo /\ Top.ret \in Int
         /\ Countable(OccClauses, UnitFreeWeight(Top.units, Top.free), Top.ret, occ, Top.todo)
         /\ LevelCount(OccClauses, stack, assumptions, Len(stack))
         /\ \A C \in Top.todo \cup {Top.connected} : Settled(OccClauses, C, occ)
<1> DEFINE n == Len(stack)
<1>1. n \in Nat \ {0} /\ Top = stack[n] /\ Solved = n /\ n \in 1 .. Len(stack) /\ n <= Solved
  BY StateFacts DEF Top, Solved
<1>2. occ = UnitsOf(stack, n)
  BY DEF IInv, OccExact, Active
<1>3. stack[n].connected \in SUBSET Var /\ stack[n].todo \in SUBSET (SUBSET Var) /\ LevelRight(stack, assumptions, n)
  BY <1>1, LevelFacts
<1>4. /\ LevelCount(OccClauses, stack, assumptions, n)
      /\ Countable(OccClauses, UnitFreeWeight(stack[n].units, stack[n].free), stack[n].ret,
                   UnitsOf(stack, n), stack[n].todo)
  BY <1>1, LevelCountable
<1>5. \A C \in stack[n].todo \cup {stack[n].connected} : Settled(OccClauses, C, UnitsOf(stack, n))
  BY <1>1, LevelSettled
<1> QED
  BY <1>1, <1>2, <1>3, <1>4, <1>5 DEF LevelRight, LevelCount

LEMMA PositiveHitCounts ==
  ASSUME IInv, SolveInv, CountInv, PositiveHit
  PROVE  CountInv'
<1> DEFINE C == NextConnected
           r == Top.ret * cache[Key(OccClauses, C, occ)]
           t == [Top EXCEPT !.todo = @ \ {C}, !.ret = r]
<1>1. /\ pc = "components" /\ Top.todo # {} /\ Found(C) /\ stack' = [stack EXCEPT ![Len(stack)] = t]
      /\ UNCHANGED <<fixed, assumptions, occ, cache, pc, value, answer>>
  BY DEF PositiveHit, SetTop
<1>2. /\ Top.todo \in SUBSET (SUBSET Var) /\ {} \notin Top.todo /\ occ = UnitsOf(stack, Len(stack))
      /\ Top.ret \in Int /\ Separate(Top.todo)
      /\ Countable(OccClauses, UnitFreeWeight(Top.units, Top.free), Top.ret, occ, Top.todo)
      /\ \A D \in Top.todo : Settled(OccClauses, D, occ)
  BY <1>1, TopKnown DEF Countable
<1>3. C \in Top.todo
  BY <1>1, <1>2, NextFacts
<1>4. Top.connected = {}
  BY <1>1 DEF CountInv, PlaceCount
<1> HIDE DEF C
<1>5. cache[Key(OccClauses, C, occ)] = Rest(OccClauses, occ, C) /\ Rest(OccClauses, occ, C) \in Int
  BY <1>1, <1>2, <1>3, HitRight, RestNumber DEF CountInv, Found
<1>6. r = Top.ret * Rest(OccClauses, occ, C) /\ r \in Int
  BY <1>2, <1>5
<1> HIDE DEF r
<1>7. PICK V : Top \in Level(V)
  BY TopFacts
<1>8. /\ t.set = Top.set /\ t.units = Top.units /\ t.free = Top.free /\ t.ret = r
      /\ t.todo = Top.todo \ {C} /\ t.connected = {}
  BY <1>4, <1>7 DEF Level
<1> HIDE DEF t
<1>9. Recount(t)
  <2>1. Separate(Top.todo \ {C})
    BY <1>2 DEF Separate
  <2> DEFINE w == UnitFreeWeight(Top.units, Top.free)
  <2>2. Due(OccClauses, w, Top.ret, occ, {}, Top.todo)
          = Due(OccClauses, w, Top.ret * Rest(OccClauses, occ, C), occ, {}, Top.todo \ {C})
    BY <1>2, <1>3, DueTake
  <2> QED
    BY <1>2, <1>4, <1>6, <1>8, <2>1, <2>2 DEF Recount
<1>10. CallsCount'
  BY <1>1, <1>9, TopRecount DEF TopBecomes
<1>11. CacheExact'
  BY <1>1, CacheKept DEF CountInv
<1>12. PlaceCount'
  <2>1. Top' = t
    BY <1>1, TopShape DEF TopBecomes, Top
  <2> QED
    BY <1>1, <1>8, <2>1 DEF CountInv, PlaceCount
<1> QED
  BY <1>10, <1>11, <1>12 DEF CountInv, CallsCount

LEMMA NegativeHitCounts ==
  ASSUME IInv, SolveInv, CountInv, NegativeHit
  PROVE  CountInv'
<1> DEFINE C == NextConnected
           P == PrioritySubSet(C)
           t == [Top EXCEPT !.todo = @ \ {C}, !.connected = C, !.cut = P]
<1>1. /\ pc = "components" /\ Top.todo # {} /\ stack' = [stack EXCEPT ![Len(stack)] = t]
      /\ pc' = "partition" /\ UNCHANGED <<fixed, assumptions, occ, cache, value, answer>>
  BY DEF NegativeHit, SetTop
<1>2. /\ Top.todo \in SUBSET (SUBSET Var) /\ {} \notin Top.todo /\ occ = UnitsOf(stack, Len(stack))
      /\ Top.ret \in Int /\ Separate(Top.todo)
      /\ Countable(OccClauses, UnitFreeWeight(Top.units, Top.free), Top.ret, occ, Top.todo)
  BY <1>1, TopKnown DEF Countable
<1>3. C \in Top.todo
  BY <1>1, <1>2, NextFacts
<1>4. Top.connected = {}
  BY <1>1 DEF CountInv, PlaceCount
<1> HIDE DEF C, P
<1>5. PICK V : Top \in Level(V)
  BY TopFacts
<1>6. /\ t.set = Top.set /\ t.units = Top.units /\ t.free = Top.free /\ t.ret = Top.ret
      /\ t.todo = Top.todo \ {C} /\ t.connected = C
  BY <1>5 DEF Level
<1> HIDE DEF t
<1>7. Recount(t)
  <2>1. Separate(Top.todo \ {C})
    BY <1>2 DEF Separate
  <2> DEFINE w == UnitFreeWeight(Top.units, Top.free)
  <2>2. Due(OccClauses, w, Top.ret, occ, {}, Top.todo)
          = Due(OccClauses, w, Top.ret, occ, C, Top.todo \ {C})
    BY <1>2, <1>3, DueTake
  <2> QED
    BY <1>2, <1>4, <1>6, <2>1, <2>2 DEF Recount
<1>8. CallsCount'
  BY <1>1, <1>7, TopRecount DEF TopBecomes
<1>9. CacheExact'
  BY <1>1, CacheKept DEF CountInv
<1>10. PlaceCount'
  BY <1>1 DEF CountInv, PlaceCount
<1> QED
  BY <1>8, <1>9, <1>10 DEF CountInv, CallsCount

LEMMA PartitionCounts ==
  ASSUME IInv, SolveInv, CountInv, ComputePartition
  PROVE  CountInv'
<1>1. PICK cut : stack' = SetTop([Top EXCEPT !.cut = cut])
  BY DEF ComputePartition
<1> DEFINE t == [Top EXCEPT !.cut = cut]
<1>2. /\ pc = "partition" /\ stack' = [stack EXCEPT ![Len(stack)] = t]
      /\ pc' = "select" /\ UNCHANGED <<fixed, assumptions, occ, cache, value, answer>>
  BY <1>1 DEF ComputePartition, SetTop
<1>3. PICK V : Top \in Level(V)
  BY TopFacts
<1>4. /\ t.set = Top.set /\ t.units = Top.units /\ t.free = Top.free /\ t.ret = Top.ret
      /\ t.todo = Top.todo /\ t.connected = Top.connected
  BY <1>3 DEF Level
<1> HIDE DEF t
<1>5. Recount(t)
  BY <1>2, <1>4, TopKnown DEF Recount, Countable
<1>6. CallsCount'
  BY <1>2, <1>5, TopRecount DEF TopBecomes
<1>7. CacheExact'
  BY <1>2, CacheKept DEF CountInv
<1>8. PlaceCount'
  BY <1>2 DEF CountInv, PlaceCount
<1> QED
  BY <1>6, <1>7, <1>8 DEF CountInv, CallsCount

\* A component without anything to decide counts as 1.
LEMMA NothingCounts ==
  ASSUME IInv, SolveInv, CountInv, LossFree, NothingToDecide
  PROVE  CountInv'
<1> DEFINE r == Top.ret * 1
           t == [Top EXCEPT !.ret = r, !.connected = {}, !.cut = {}, !.lit = 0, !.pos = 0]
<1>1. /\ pc = "select" /\ Candidates = {} /\ stack' = Append(SubSeq(stack, 1, Len(stack) - 1), t)
      /\ pc' = "components" /\ UNCHANGED <<fixed, assumptions, occ, value, answer>>
      /\ AddInCache(Top.connected, 1)
  BY DEF NothingToDecide, EndDecisionNode
<1>2. /\ Top.todo \in SUBSET (SUBSET Var) /\ Top.connected \in SUBSET Var /\ occ = UnitsOf(stack, Len(stack))
      /\ Top.ret \in Int /\ Separate(Top.todo) /\ UnitFreeWeight(Top.units, Top.free) \in Int
      /\ Settled(OccClauses, Top.connected, occ)
  BY <1>1, TopKnown DEF Countable
<1>3. Rest(OccClauses, occ, Top.connected) = 1
  BY <1>1 DEF LossFree
<1>4. r \in Int /\ r = Top.ret * 1
  BY <1>2
<1> HIDE DEF r
<1>5. PICK V : Top \in Level(V)
  BY TopFacts
<1>6. /\ t.set = Top.set /\ t.units = Top.units /\ t.free = Top.free /\ t.ret = r
      /\ t.todo = Top.todo /\ t.connected = {}
  BY <1>5 DEF Level
<1> HIDE DEF t
<1>7. Recount(t)
  <2> DEFINE w == UnitFreeWeight(Top.units, Top.free)
  <2>1. Due(OccClauses, w, Top.ret, occ, Top.connected, Top.todo)
          = Due(OccClauses, w, Top.ret * Rest(OccClauses, occ, Top.connected), occ, {}, Top.todo)
    BY <1>2, DueEnd
  <2> QED
    BY <1>2, <1>3, <1>4, <1>6, <2>1 DEF Recount
<1>8. CallsCount'
  BY <1>1, <1>7, TopRecount DEF TopBecomes
<1>9. CacheExact'
  BY <1>1, <1>2, <1>3, CacheGrows DEF CountInv
<1>10. PlaceCount'
  <2>1. Top' = t
    BY <1>1, TopShape DEF TopBecomes, Top
  <2> QED
    BY <1>1, <1>6, <2>1 DEF CountInv, PlaceCount
<1> QED
  BY <1>8, <1>9, <1>10 DEF CountInv, CallsCount
\* A call whose components are all counted returns what it is asked for.
LEMMA EndCounts ==
  ASSUME IInv, SolveInv, CountInv, EndComponents
  PROVE  CountInv'
<1> DEFINE n == Len(stack)
           w == UnitFreeWeight(Top.units, Top.free)
<1>1. /\ pc = "components" /\ Top.todo = {} /\ value' = Top.ret * w /\ pc' = "return"
      /\ UNCHANGED <<fixed, assumptions, cache, stack, answer>>
  BY DEF EndComponents
<1>2. /\ n \in Nat \ {0} /\ Solved = n /\ Top = stack[n] /\ Top.ret \in Int /\ w \in Int
      /\ LevelCount(OccClauses, stack, assumptions, n)
  BY <1>1, TopKnown DEF Countable
<1>3. Top.connected = {}
  BY <1>1 DEF CountInv, PlaceCount
<1>4. Wanted(OccClauses, stack, assumptions, n) = Due(OccClauses, w, Top.ret, UnitsOf(stack, n), {}, {})
  BY <1>1, <1>2, <1>3 DEF LevelCount
<1> HIDE DEF w
<1>5. Due(OccClauses, w, Top.ret, UnitsOf(stack, n), {}, {}) = Top.ret * w
  BY <1>2, DueDone
<1>6. CallsCount'
  <2>1. Solved' = n - 1
    BY <1>1 DEF Solved
  <2> HIDE DEF n
  <2>2. Solved' <= Solved /\ Solved' \in Int
    BY <1>2, <2>1
  <2> QED
    BY <1>1, <2>2, CallsSame
<1>7. CacheExact'
  BY <1>1, CacheKept DEF CountInv
<1>8. PlaceCount'
  <2>1. OccClauses' = OccClauses
    BY <1>1 DEF OccClauses
  <2>2. value' = Wanted(OccClauses, stack, assumptions, n)
    BY <1>1, <1>4, <1>5
  <2> QED
    BY <1>1, <2>1, <2>2 DEF CountInv, PlaceCount
<1> QED
  BY <1>6, <1>7, <1>8 DEF CountInv, CallsCount

\* What is known about a call to be solved.
LEMMA AskedWanted ==
  ASSUME IInv, SolveInv, CountInv, pc = "solve"
  PROVE  Wanted(OccClauses, stack, assumptions, Len(stack)) = Total(Projections(Seen(Assumed, Top.set)))
<1>1. Len(stack) \in Nat \ {0} /\ Solved = Len(stack) - 1
  BY StateFacts DEF Solved
<1>2. Len(stack) > 1 => fixed \subseteq stack[1].units
  BY <1>1 DEF CountInv, FixedAmongUnits
<1>3. \A k \in 2 .. Len(stack) - 1 : k \in 1 .. Solved /\ k > 1
  BY <1>1
<1>4. \A k \in 2 .. Len(stack) - 1 : assumptions[k - 1] \in stack[k].units
  BY <1>3 DEF CountInv, LevelsCount, LevelCount
<1> QED
  BY <1>2, <1>4, WantedSeen

\* A call that cannot be satisfied is asked for 0.
LEMMA UnsatCounts ==
  ASSUME IInv, SolveInv, CountInv, SolveUnsat
  PROVE  CountInv'
<1>1. /\ pc = "solve" /\ ~Satisfiable(Assumed) /\ value' = 0 /\ pc' = "return"
      /\ UNCHANGED <<fixed, assumptions, cache, stack, answer>>
  BY DEF SolveUnsat
<1>2. Seen(Assumed, Top.set) = {}
  BY <1>1 DEF Seen, Asked, Satisfiable
<1>3. Projections({}) = {}
  BY DEF Projections
<1>4. Wanted(OccClauses, stack, assumptions, Len(stack)) = 0
  BY <1>1, <1>2, <1>3, AskedWanted, TotalFacts
<1>5. CallsCount'
  <2>1. Solved' = Len(stack) - 1 /\ Solved = Len(stack) - 1 /\ Len(stack) \in Nat
    BY <1>1, StateFacts DEF Solved
  <2>2. Solved' <= Solved /\ Solved' \in Int
    BY <2>1
  <2> QED
    BY <1>1, <2>2, CallsSame
<1>6. CacheExact'
  BY <1>1, CacheKept DEF CountInv
<1>7. PlaceCount'
  <2>1. OccClauses' = OccClauses
    BY <1>1 DEF OccClauses
  <2> QED
    BY <1>1, <1>4, <2>1 DEF CountInv, PlaceCount
<1> QED
  BY <1>5, <1>6, <1>7 DEF CountInv, CallsCount

\* The end of the search, and what changes nothing that is counted.
LEMMA OtherCounts ==
  ASSUME IInv, CountInv, SkipPartition \/ Finish \/ UNCHANGED vars
  PROVE  CountInv'
<1>1. /\ UNCHANGED <<fixed, assumptions, cache, stack, value>>
      /\ pc' # pc => pc' \in {"select", "done"}
      /\ answer' = IF pc' = "done" /\ pc # "done" THEN value ELSE answer
      /\ pc' = "done" /\ pc # "done" => pc = "return" /\ Len(stack) = 1
      /\ pc = "done" => pc' = "done"
      /\ pc' = "select" => pc \in {"partition", "select"}
  BY DEF SkipPartition, Finish, vars
<1>2. Solved' <= Solved /\ Solved' \in Int
  <2>1. Len(stack) \in Nat
    BY StateFacts
  <2>2. Solved' = Solved
    BY DEF SkipPartition, Finish, vars, Solved
  <2>3. Solved \in Int
    BY <2>1 DEF Solved
  <2> QED
    BY <2>2, <2>3
<1>3. CallsCount'
  BY <1>1, <1>2, CallsSame
<1>4. CacheExact'
  BY <1>1, CacheKept DEF CountInv
<1>5. PlaceCount'
  <2>1. OccClauses' = OccClauses /\ Top' = Top
    BY <1>1 DEF OccClauses, Top
  <2>2. pc = "return" /\ Len(stack) = 1 => value = FormulaCount
    BY DEF CountInv, PlaceCount, Wanted
  <2> QED
    BY <1>1, <2>1, <2>2 DEF CountInv, PlaceCount
<1> QED
  BY <1>3, <1>4, <1>5 DEF CountInv, CallsCount
\* The same for premises taken together.
Answered(K, units, p, free, todo) ==
  /\ K \in Trails /\ units = Over(K, Top.set) /\ p = occ \cup units
  /\ free = FreeVariables(OccClauses, Top.set, p) /\ todo = Components(OccClauses, Top.set, p)
LEMMA AnsweredValue ==
  ASSUME IInv, SolveInv, pc = "solve", Satisfiable(Assumed),
         NEW K, NEW units, NEW p, NEW free, NEW todo, Answered(K, units, p, free, todo)
  PROVE  /\ Total(Projections(Seen(Assumed, Top.set)))
              = UnitFreeWeight(units, free) * Rest(OccClauses, p, UNION todo)
         /\ Separate(todo)
<1>1. /\ K \in Trails /\ units = Over(K, Top.set) /\ p = occ \cup units
      /\ free = FreeVariables(OccClauses, Top.set, p) /\ todo = Components(OccClauses, Top.set, p)
  BY DEF Answered
<1> QED
  BY <1>1, SolvedValue

\* A call that the solver has found satisfiable is to return the weight of its
\* units and free variables times the count of its components.
LEMMA SolveCounts ==
  ASSUME IInv, SolveInv, CountInv, SolveSat, IInv'
  PROVE  CountInv'
<1> DEFINE n == Len(stack)
           ds == assumptions
           units == Over(trail', Top.set)
           free == FreeVariables(OccClauses, Top.set, occ')
           todo == Components(OccClauses, Top.set, occ')
           t == [Top EXCEPT !.units = units, !.free = free, !.todo = todo]
<1>1. /\ pc = "solve" /\ SolvedLocally /\ trail' \in Trails /\ occ' = occ \cup units
      /\ stack' = [stack EXCEPT ![n] = t]
      /\ pc' = "components" /\ UNCHANGED <<fixed, assumptions, cache, value, answer>>
  BY DEF SolveSat, SetTop
<1>2. PICK V : Top \in Level(V)
  BY TopFacts
<1>3. n \in Nat \ {0} /\ Len(ds) = n - 1 /\ Top = stack[n] /\ Solved = n - 1 /\ n \in 1 .. Len(stack)
  BY <1>1, StateFacts DEF Top, Solved
<1>4. Top.connected = {} /\ Top.ret = 1
  BY <1>1 DEF IInv, FreshExact, CountInv, PlaceCount
<1>5. Satisfiable(Assumed)
  BY <1>1, SolveDecides
<1>6. PICK K, p, a, F, T : /\ K = trail' /\ p = occ' /\ a = units /\ F = free /\ T = todo
  OBVIOUS
<1>7. /\ K \in Trails /\ a = Over(K, Top.set) /\ p = occ \cup a
      /\ F = FreeVariables(OccClauses, Top.set, p) /\ T = Components(OccClauses, Top.set, p)
      /\ t = [Top EXCEPT !.units = a, !.free = F, !.todo = T]
  BY <1>1, <1>6
<1> HIDE DEF units, free, todo
<1>8. /\ t.set = Top.set /\ t.units = a /\ t.free = F /\ t.todo = T /\ t.ret = 1 /\ t.connected = {}
  BY <1>2, <1>4, <1>7 DEF Level
<1> HIDE DEF t
<1>9. PICK u : u = stack'
  OBVIOUS
<1>10. Len(u) = n /\ u[n] = t /\ \A k \in 1 .. n - 1 : u[k] = stack[k]
  BY <1>1, <1>9, TopShape DEF TopBecomes
<1>11. Total(Projections(Seen(Assumed, Top.set))) = UnitFreeWeight(a, F) * Rest(OccClauses, p, UNION T)
       /\ Separate(T)
  <2>1. Answered(K, a, p, F, T)
    BY <1>7 DEF Answered
  <2> QED
    BY <1>1, <1>5, <2>1, AnsweredValue
<1>12. fixed \subseteq K /\ Assumed \subseteq K
  BY <1>1, <1>5, <1>7, AnswerFacts
<1>13. Wanted(OccClauses, u, ds, n) = Total(Projections(Seen(Assumed, Top.set)))
  <2>1. SameCall(stack, ds, u, ds, n)
    BY <1>3, <1>8, <1>10 DEF SameCall
  <2> QED
    BY <1>1, <2>1, WantedKept, AskedWanted
<1>14. p = UnitsOf(u, n)
  BY <1>1, <1>6, <1>9, <1>10 DEF IInv, OccExact, Active
<1>15. UnitFreeWeight(a, F) \in Int /\ T \in SUBSET (SUBSET Var)
  <2>1. n \in 1 .. Len(stack)'
    BY <1>3, <1>9, <1>10
  <2>2. PICK W : stack' \in Seq(Level(W))
    BY DEF IInv, Typed
  <2>3. u[n] \in Level(W)
    BY <1>9, <2>1, <2>2
  <2>4. a \in SUBSET Literal /\ F \in SUBSET Var /\ T \in SUBSET (SUBSET Var)
    BY <1>8, <1>10, <2>3 DEF Level
  <2> QED
    BY <2>4, UnitFreeNumber
<1>16. n > 1 => ds[n - 1] \in a
  <2>1. SUFFICES ASSUME n > 1
                 PROVE  ds[n - 1] \in a
    OBVIOUS
  <2>2. VarOf(ds[n - 1]) \in Top.set
    BY <1>3, <2>1, LevelFacts DEF LevelRight
  <2>3. ds[n - 1] \in Assumed
    <3>1. n - 1 \in DOMAIN ds
      BY <1>3, <2>1 DEF IInv, Typed
    <3> QED
      BY <3>1 DEF Assumed
  <2> QED
    BY <1>7, <1>12, <2>2, <2>3 DEF Over
<1> HIDE DEF n
<1>17. LevelCount(OccClauses, u, ds, n)
  <2>1. Due(OccClauses, UnitFreeWeight(a, F), 1, p, {}, T) = UnitFreeWeight(a, F) * Rest(OccClauses, p, UNION T)
    <3>1. 1 \in Int
      OBVIOUS
    <3> QED
      BY <1>15, <3>1, DueBounds
  <2>2. Wanted(OccClauses, u, ds, n) = Due(OccClauses, UnitFreeWeight(a, F), 1, p, {}, T)
    BY <1>11, <1>13, <2>1
  <2>3. 1 \in Int /\ Separate(T)
    BY <1>11
  <2> QED
    BY <1>8, <1>10, <1>14, <1>16, <2>2, <2>3 DEF LevelCount
<1>18. \A k \in 1 .. n - 1 : LevelCount(OccClauses, u, ds, k)
  <2>1. n - 1 \in Nat /\ \A k \in 1 .. n - 1 : LevelCount(OccClauses, stack, ds, k)
    BY <1>3 DEF CountInv, LevelsCount
  <2>2. \A k \in 1 .. n - 1 : Keeps(u[k], stack[k])
    BY <1>10 DEF Keeps
  <2> QED
    BY <2>1, <2>2, LevelsKept
<1>19. \A k \in 1 .. n : LevelCount(OccClauses, u, ds, k)
  <2>1. \A k \in 1 .. n : k = n \/ k \in 1 .. n - 1
    BY <1>3
  <2> QED
    BY <1>17, <1>18, <2>1
<1>20. \A k \in 1 .. n - 1 : BranchCount(OccClauses, u, ds, k)
  <2>1. n - 1 \in Nat /\ \A k \in 1 .. n - 1 : BranchCount(OccClauses, stack, ds, k)
    BY <1>3 DEF CountInv, BranchesCount, n
  <2> QED
    BY <1>10, <2>1, BranchesKept
<1>21. fixed \subseteq u[1].units
  <2>1. CASE n = 1
    <3>1. Top.set = Var
      BY <1>3, <2>1, LevelFacts DEF LevelRight
    <3>2. \A l \in fixed : VarOf(l) \in Var
      BY VarFacts DEF IInv, Typed
    <3>3. fixed \subseteq a
      BY <1>7, <1>12, <3>1, <3>2 DEF Over
    <3> QED
      BY <1>8, <1>10, <2>1, <3>3
  <2>2. CASE n # 1
    <3>1. 1 \in 1 .. n - 1 /\ Solved >= 1
      BY <1>3, <2>2
    <3> QED
      BY <1>10, <3>1 DEF CountInv, FixedAmongUnits
  <2> QED
    BY <2>1, <2>2
<1>22. CallsCount'
  <2>1. Solved' = n /\ n \in Int /\ ds = assumptions' /\ UNCHANGED fixed
    BY <1>1, <1>3, <1>9, <1>10 DEF Solved
  <2> HIDE DEF ds
  <2> QED
    BY <1>9, <1>10, <1>19, <1>20, <1>21, <2>1, CallsNext
<1>23. CacheExact'
  BY <1>1, CacheKept DEF CountInv
<1>24. PlaceCount'
  <2>1. Top' = t
    BY <1>9, <1>10 DEF Top
  <2> QED
    BY <1>1, <1>8, <2>1 DEF CountInv, PlaceCount
<1> QED
  BY <1>22, <1>23, <1>24 DEF CountInv, CallsCount
-----------------------------------------------------------------------------
(* The steps of a decision.                                                *)

\* A call c of the stack makes the call b.
LEMMA BranchNew ==
  ASSUME NEW V, NEW c \in Level(V)
  PROVE  Branch(c).ret = 1
BY DEF Branch, NewLevel

LEMMA SelectCounts ==
  ASSUME IInv, SolveInv, CountInv, SelectVariable
  PROVE  CountInv'
<1> DEFINE n == Len(stack)
<1>1. PICK v \in Candidates, phase \in Phases :
        LET x == IF phase THEN v ELSE -v IN
        /\ assumptions' = Append(assumptions, x)
        /\ stack' = Append(SetTop([Top EXCEPT !.lit = x]), Branch(Top))
  BY DEF SelectVariable
<1>2. PICK l : /\ l = v \/ l = -v
               /\ assumptions' = Append(assumptions, l)
               /\ stack' = Append(SetTop([Top EXCEPT !.lit = l]), Branch(Top))
  BY <1>1
<1>3. pc = "select" /\ pc' = "solve" /\ UNCHANGED <<fixed, occ, cache, value, answer>>
  BY DEF SelectVariable
<1>4. /\ n \in Nat \ {0} /\ Solved = n /\ Top = stack[n]
  BY <1>3, TopKnown
<1>5. PICK V : stack \in Seq(Level(V)) /\ Top \in Level(V)
  BY TopFacts
<1>6. l \in Literal /\ VarOf(l) \in Projected
  <2>1. v \in Var /\ v \in Projected
    <3>1. Top.cut \in SUBSET Var /\ Top.connected \in SUBSET Var
      BY <1>5 DEF Level
    <3> QED
      BY <3>1 DEF Candidates
  <2> QED
    BY <1>2, <2>1, VarFacts
<1> DEFINE c == [Top EXCEPT !.lit = l]
           b == Branch(Top)
           S == Level(V) \cup {c, b}
           s == SetTop(c)
<1>7. /\ stack \in Seq(S) /\ c \in S /\ b \in S /\ stack # <<>>
  <2>1. Level(V) \subseteq S
    OBVIOUS
  <2>2. stack \in Seq(S)
    BY <1>5, <2>1
  <2> QED
    BY <2>2, StateFacts
<1>8. Keeps(c, Top) /\ c.lit = l
  BY <1>5 DEF Keeps, Level
<1>9. b.ret = 1
  BY <1>5, BranchNew
<1>10. PICK u, ds : u = stack' /\ ds = assumptions'
  OBVIOUS
<1>11. u = Append(s, b) /\ ds = Append(assumptions, l)
  BY <1>2, <1>10
<1> HIDE DEF c, b, S
<1>12. s \in Seq(S) /\ Len(s) = n /\ s[n] = c /\ \A k \in 1 .. n - 1 : s[k] = stack[k]
  BY <1>7, LastFacts DEF SetTop
<1> HIDE DEF s
<1>13. Len(u) = n + 1 /\ u[n + 1] = b /\ \A k \in 1 .. n : u[k] = s[k]
  BY <1>7, <1>11, <1>12, PushFacts
<1>14. ds[n] = l /\ \A k \in 1 .. n - 1 : ds[k] = assumptions[k]
  <2>1. Len(assumptions) = n - 1 /\ assumptions \in Seq(Literal) /\ n - 1 + 1 = n
    BY <1>4, StateFacts DEF IInv, Typed
  <2> QED
    BY <1>6, <1>11, <2>1, PushFacts
<1> HIDE DEF n
<1>15. u[n] = c /\ \A k \in 1 .. n - 1 : u[k] = stack[k]
  BY <1>4, <1>12, <1>13
<1>16. \A k \in 1 .. n : LevelCount(OccClauses, u, ds, k)
  <2>1. \A k \in 1 .. n : LevelCount(OccClauses, stack, assumptions, k)
    BY <1>4 DEF CountInv, LevelsCount
  <2>2. \A k \in 1 .. n : Keeps(u[k], stack[k])
    <3>1. \A k \in 1 .. n : k = n \/ k \in 1 .. n - 1
      BY <1>4
    <3> QED
      BY <1>4, <1>8, <1>15, <3>1 DEF Keeps
  <2> QED
    BY <1>4, <1>14, <2>1, <2>2, LevelsKept
<1>17. \A k \in 1 .. n : BranchCount(OccClauses, u, ds, k)
  <2>1. n - 1 \in Nat /\ \A k \in 1 .. n - 1 : BranchCount(OccClauses, stack, assumptions, k)
    BY <1>4 DEF CountInv, BranchesCount, n
  <2>2. \A k \in 1 .. n - 1 : BranchCount(OccClauses, u, ds, k)
    BY <1>14, <1>15, <2>1, BranchesKept
  <2>3. BranchCount(OccClauses, u, ds, n)
    BY <1>6, <1>8, <1>14, <1>15 DEF BranchCount
  <2>4. \A k \in 1 .. n : k = n \/ k \in 1 .. n - 1
    BY <1>4
  <2> QED
    BY <2>2, <2>3, <2>4
<1>18. fixed \subseteq u[1].units
  <2>1. fixed \subseteq stack[1].units
    BY <1>4 DEF CountInv, FixedAmongUnits
  <2>2. 1 \in 1 .. n /\ (1 = n \/ 1 \in 1 .. n - 1)
    BY <1>4
  <2> QED
    BY <1>4, <1>8, <1>15, <2>1, <2>2 DEF Keeps
<1>19. CallsCount'
  <2>1. Solved' = n /\ n \in Int /\ Len(u) - 1 = n
    BY <1>3, <1>4, <1>10, <1>13 DEF Solved
  <2> QED
    BY <1>3, <1>10, <1>16, <1>17, <1>18, <2>1, CallsNext
<1>20. CacheExact'
  BY <1>3, CacheKept DEF CountInv
<1>21. PlaceCount'
  <2>1. Top' = b
    BY <1>10, <1>13 DEF Top
  <2> QED
    BY <1>3, <1>9, <2>1 DEF CountInv, PlaceCount
<1> QED
  BY <1>19, <1>20, <1>21 DEF CountInv, CallsCount

\* What a call under a decision has returned.
LEMMA ReturnedValue ==
  ASSUME IInv, CountInv, pc = "return", Len(stack) > 1
  PROVE  LET m == Len(stack) - 1 IN
         value = Count(Residual(OccClauses, Caller.connected, UnitsOf(stack, m)) \cup {{assumptions[m]}},
                       Caller.connected)
<1> DEFINE n == Len(stack)
           m == n - 1
<1>1. n \in Nat /\ n # 1 /\ m \in Nat \ {0} /\ Caller = stack[m] /\ n \in 1 .. Len(stack) /\ n > 1
  BY CallerFacts, StateFacts
<1>2. value = Wanted(OccClauses, stack, assumptions, n)
  BY DEF CountInv, PlaceCount
<1>3. stack[n].set = stack[m].connected
  BY <1>1, LevelFacts DEF LevelRight
<1> QED
  BY <1>1, <1>2, <1>3 DEF Wanted
\* What is known of the caller of a call that has returned.
LEMMA CallerKnown ==
  ASSUME IInv, SolveInv, CountInv, pc = "return", Len(stack) > 1
  PROVE  LET m == Len(stack) - 1 IN
         /\ m \in Nat \ {0} /\ m + 1 = Len(stack) /\ Len(assumptions) = m /\ Solved = m
         /\ Caller = stack[m] /\ occ = UnitsOf(stack, m) /\ assumptions[m] \in Literal
         /\ LevelCount(OccClauses, stack, assumptions, m)
         /\ BranchCount(OccClauses, stack, assumptions, m)
         /\ Settled(OccClauses, Caller.connected, occ)
         /\ Caller.connected \in SUBSET Var /\ Caller.todo \in SUBSET (SUBSET Var)
         /\ UnitFreeWeight(Caller.units, Caller.free) \in Int
         /\ VarOf(assumptions[m]) \in Caller.connected
<1> DEFINE m == Len(stack) - 1
<1>1. /\ m \in Nat \ {0} /\ m + 1 = Len(stack) /\ Len(assumptions) = m
      /\ Caller = stack[m] /\ occ = UnitsOf(stack, m) /\ assumptions[m] \in Literal
      /\ VarOf(assumptions[m]) \in Caller.connected
  BY CallerFacts
<1>2. Solved = m
  BY DEF Solved
<1>3. m \in 1 .. Len(stack) /\ m <= Solved /\ m \in 1 .. Solved /\ m \in 1 .. Len(stack) - 1
  BY <1>1, <1>2
<1>4. LevelCount(OccClauses, stack, assumptions, m) /\ BranchCount(OccClauses, stack, assumptions, m)
  BY <1>3 DEF CountInv, LevelsCount, BranchesCount
<1>5. Settled(OccClauses, stack[m].connected, UnitsOf(stack, m))
  BY <1>3, LevelSettled
<1>6. /\ stack[m].connected \in SUBSET Var /\ stack[m].todo \in SUBSET (SUBSET Var)
      /\ UnitFreeWeight(stack[m].units, stack[m].free) \in Int
  BY <1>3, LevelFacts
<1> QED
  BY <1>1, <1>2, <1>4, <1>5, <1>6

Under(cls, s, ds, m, u, bs) ==
  /\ m \in Nat \ {0}
  /\ \A k \in 1 .. m - 1 : u[k] = s[k] /\ bs[k] = ds[k]
  /\ \A k \in 1 .. m - 1 : LevelCount(cls, s, ds, k) /\ BranchCount(cls, s, ds, k)
LEMMA UnderKept ==
  ASSUME NEW cls, NEW s, NEW ds, NEW m, NEW u, NEW bs, Under(cls, s, ds, m, u, bs)
  PROVE  \A k \in 1 .. m - 1 : LevelCount(cls, u, bs, k) /\ BranchCount(cls, u, bs, k)
<1> DEFINE i == m - 1
<1>1. i \in Nat /\ \A k \in 1 .. i - 1 : k \in 1 .. i
  BY DEF Under
<1>2. /\ \A k \in 1 .. i : u[k] = s[k] /\ bs[k] = ds[k]
      /\ \A k \in 1 .. i : LevelCount(cls, s, ds, k)
      /\ \A k \in 1 .. i : BranchCount(cls, s, ds, k)
  BY DEF Under
<1> HIDE DEF i
<1>3. \A k \in 1 .. i : Keeps(u[k], s[k])
  BY <1>2 DEF Keeps
<1>4. \A k \in 1 .. i : LevelCount(cls, u, bs, k)
  BY <1>1, <1>2, <1>3, LevelsKept
<1>5. \A k \in 1 .. i : BranchCount(cls, u, bs, k)
  BY <1>1, <1>2, BranchesKept
<1> QED
  BY <1>4, <1>5 DEF i

\* The calls below the caller stay, and the caller becomes c.
LEMMA CallsUnder ==
  ASSUME IInv, SolveInv, CountInv, pc = "return", Len(stack) > 1, UNCHANGED fixed,
         NEW m, m = Len(stack) - 1, NEW u, u = stack', NEW ds, ds = assumptions',
         \A k \in 1 .. m - 1 : u[k] = stack[k], u[m].units = Caller.units,
         \A k \in 1 .. m - 1 : ds[k] = assumptions[k],
         Solved' = m, LevelCount(OccClauses, u, ds, m),
         \/ Len(u) = m
         \/ Len(u) = m + 1 /\ BranchCount(OccClauses, u, ds, m)
  PROVE  CallsCount'
<1>1. m \in Nat \ {0} /\ Caller = stack[m] /\ Solved = m /\ m - 1 \in Nat /\ m \in Int
  BY CallerKnown
<1>2. \A k \in 1 .. m : k = m \/ k \in 1 .. m - 1
  BY <1>1
<1>3. \A k \in 1 .. m - 1 : LevelCount(OccClauses, u, ds, k) /\ BranchCount(OccClauses, u, ds, k)
  <2>1. \A k \in 1 .. m - 1 : k \in 1 .. Solved /\ k \in 1 .. Len(stack) - 1
    BY <1>1
  <2>2. \A k \in 1 .. m - 1 : LevelCount(OccClauses, stack, assumptions, k) /\ BranchCount(OccClauses, stack, assumptions, k)
    BY <2>1 DEF CountInv, LevelsCount, BranchesCount
  <2>3. Under(OccClauses, stack, assumptions, m, u, ds)
    BY <1>1, <2>2 DEF Under
  <2> QED
    BY <2>3, UnderKept
<1>4. \A k \in 1 .. m : LevelCount(OccClauses, u, ds, k)
  BY <1>2, <1>3
<1>5. \A k \in 1 .. m - 1 : BranchCount(OccClauses, u, ds, k)
  BY <1>3
<1>6. \A k \in 1 .. Len(u) - 1 : BranchCount(OccClauses, u, ds, k)
  <2>1. CASE Len(u) = m
    BY <1>5, <2>1
  <2>2. CASE Len(u) = m + 1 /\ BranchCount(OccClauses, u, ds, m)
    <3>1. Len(u) - 1 = m
      BY <1>1, <2>2
    <3> QED
      BY <1>2, <1>5, <2>2, <3>1
  <2> QED
    BY <2>1, <2>2
<1>7. fixed \subseteq u[1].units
  <2>1. fixed \subseteq stack[1].units
    BY <1>1 DEF CountInv, FixedAmongUnits
  <2>2. 1 = m \/ 1 \in 1 .. m - 1
    BY <1>1
  <2> QED
    BY <1>1, <2>1, <2>2
<1> QED
  BY <1>1, <1>4, <1>6, <1>7, CallsNext

\* The first branch leaves its count behind.
LEMMA FirstBranchCounts ==
  ASSUME IInv, SolveInv, CountInv, FirstBranchReturns
  PROVE  CountInv'
<1> DEFINE m == Len(stack) - 1
           c == [Caller EXCEPT !.pos = value]
           b == Branch(Caller)
<1>1. /\ Len(stack) > 1 /\ pc = "return" /\ pc' = "solve" /\ InFirstBranch
      /\ UNCHANGED <<fixed, occ, cache, value, answer>>
      /\ assumptions' = OtherBranch(assumptions) /\ stack' = CallsBelow \o <<c, b>>
  BY DEF FirstBranchReturns
<1>2. /\ m \in Nat \ {0} /\ m + 1 = Len(stack) /\ Len(assumptions) = m /\ Solved = m
      /\ Caller = stack[m] /\ assumptions[m] \in Literal
      /\ LevelCount(OccClauses, stack, assumptions, m)
      /\ BranchCount(OccClauses, stack, assumptions, m)
  BY <1>1, CallerKnown
<1>3. PICK V : stack \in Seq(Level(V)) /\ \A k \in 1 .. Len(stack) : stack[k] \in Level(V)
  BY StateFacts
<1>4. Keeps(c, Caller) /\ c.lit = Caller.lit /\ c.pos = value /\ b.ret = 1
  <2>1. m \in 1 .. Len(stack)
    BY <1>2
  <2>2. Caller \in Level(V)
    BY <1>2, <1>3, <2>1
  <2> QED
    BY <2>2, BranchNew DEF Keeps, Level
<1> HIDE DEF c, b
<1> DEFINE S == Level(V) \cup {c, b}
<1>5. stack \in Seq(S) /\ c \in S /\ b \in S
  <2>1. Level(V) \subseteq S
    OBVIOUS
  <2> QED
    BY <1>3, <2>1
<1> HIDE DEF S
<1>6. PICK u, ds, below : u = stack' /\ ds = assumptions' /\ below = SubSeq(stack, 1, Len(stack) - 2)
  OBVIOUS
<1>7. Len(u) = m + 1 /\ u[m] = c /\ u[m + 1] = b /\ \A k \in 1 .. m - 1 : u[k] = stack[k]
  <2>1. Len(stack) - 2 = m - 1 /\ m - 1 + 1 = m /\ m - 1 + 2 = m + 1
    BY <1>2
  <2>2. /\ below \in Seq(S) /\ Len(below) = Len(stack) - 2
        /\ \A k \in 1 .. Len(stack) - 2 : below[k] = stack[k]
    BY <1>1, <1>5, <1>6, DropTwoFacts
  <2>3. u = below \o <<c, b>>
    BY <1>1, <1>6 DEF CallsBelow
  <2>4. /\ Len(u) = Len(below) + 2 /\ u[Len(below) + 1] = c /\ u[Len(below) + 2] = b
        /\ \A k \in 1 .. Len(below) : u[k] = below[k]
    BY <1>5, <2>2, <2>3, PushTwoFacts
  <2> HIDE DEF m
  <2> QED
    BY <2>1, <2>2, <2>4
<1>8. ds[m] = -assumptions[m] /\ \A k \in 1 .. m - 1 : ds[k] = assumptions[k]
  <2>1. ds = [assumptions EXCEPT ![m] = -assumptions[m]] /\ assumptions \in Seq(Literal)
    BY <1>1, <1>2, <1>6 DEF OtherBranch, IInv, Typed
  <2> HIDE DEF m
  <2>2. m \in DOMAIN assumptions /\ \A k \in 1 .. m - 1 : k \in DOMAIN assumptions /\ k # m
    BY <1>2, <2>1
  <2> QED
    BY <2>1, <2>2
<1>9. assumptions[m] = Caller.lit
  BY <1>1, <1>2 DEF InFirstBranch
<1>10. value = Count(Residual(OccClauses, Caller.connected, UnitsOf(stack, m)) \cup {{assumptions[m]}},
                     Caller.connected)
  BY <1>1, ReturnedValue
<1> HIDE DEF m
<1>11. u[m].units = Caller.units /\ \A k \in 1 .. m : Keeps(u[k], stack[k])
  <2>1. \A k \in 1 .. m : k = m \/ k \in 1 .. m - 1
    BY <1>2
  <2> QED
    BY <1>2, <1>4, <1>7, <2>1 DEF Keeps
<1>12. LevelCount(OccClauses, u, ds, m)
  <2>1. \A k \in 1 .. m : LevelCount(OccClauses, stack, assumptions, k)
    BY <1>2 DEF CountInv, LevelsCount
  <2>2. \A k \in 1 .. m : LevelCount(OccClauses, u, ds, k)
    BY <1>2, <1>8, <1>11, <2>1, LevelsKept
  <2>3. m \in 1 .. m
    BY <1>2
  <2> QED
    BY <2>2, <2>3
<1>13. UnitsOf(u, m) = UnitsOf(stack, m)
  <2>1. m \in Nat /\ m \in 0 .. m /\ \A k \in 1 .. m : u[k].units = stack[k].units
    BY <1>2, <1>11 DEF Keeps
  <2> QED
    BY <2>1, UnitsKept
<1>14. BranchCount(OccClauses, u, ds, m)
  <2>1. u[m].connected = Caller.connected /\ u[m].lit = Caller.lit /\ u[m].pos = value
    BY <1>4, <1>7 DEF Keeps
  <2> QED
    BY <1>2, <1>8, <1>9, <1>10, <1>13, <2>1 DEF BranchCount
<1>15. Solved' = m
  BY <1>1, <1>2, <1>6, <1>7 DEF Solved
<1>16. CallsCount'
  BY <1>1, <1>6, <1>7, <1>8, <1>11, <1>12, <1>14, <1>15, CallsUnder DEF m
<1>17. CacheExact'
  BY <1>1, CacheKept DEF CountInv
<1>18. PlaceCount'
  <2>1. Top' = b
    BY <1>6, <1>7 DEF Top
  <2> QED
    BY <1>1, <1>4, <2>1 DEF CountInv, PlaceCount
<1> QED
  BY <1>16, <1>17, <1>18 DEF CountInv, CallsCount
\* Both branches together are the count of what they decide on.
LEMMA BothBranches ==
  ASSUME IInv, SolveInv, CountInv, pc = "return", Len(stack) > 1, ~InFirstBranch
  PROVE  value + Caller.pos = Rest(OccClauses, occ, Caller.connected)
<1> DEFINE m == Len(stack) - 1
           R == Residual(OccClauses, Caller.connected, occ)
           C == Caller.connected
           l == Caller.lit
<1>1. /\ Len(assumptions) = m /\ Caller = stack[m] /\ occ = UnitsOf(stack, m)
      /\ BranchCount(OccClauses, stack, assumptions, m) /\ C \in SUBSET Var
      /\ VarOf(assumptions[m]) \in C
  BY CallerKnown
<1>2. assumptions[m] # l
  BY <1>1 DEF InFirstBranch
<1>3. /\ l \in Literal /\ VarOf(l) \in Projected /\ assumptions[m] = -l
      /\ Caller.pos = Count(R \cup {{l}}, C)
  BY <1>1, <1>2 DEF BranchCount
<1>4. VarOf(l) \in C
  BY <1>1, <1>3, VarFacts
<1>5. value = Count(R \cup {{-l}}, C)
  BY <1>1, <1>3, ReturnedValue
<1> HIDE DEF R, C, l, m
<1>6. Count(R, C) = Count(R \cup {{l}}, C) + Count(R \cup {{-l}}, C)
  BY <1>1, <1>3, <1>4, CountBranch
<1>7. Count(R \cup {{l}}, C) \in Int /\ Count(R \cup {{-l}}, C) \in Int
  BY <1>1, CountIs
<1>8. \A i, j \in Int : i + j = j + i
  OBVIOUS
<1>9. value + Caller.pos = Count(R, C)
  BY <1>3, <1>5, <1>6, <1>7, <1>8
<1> QED
  BY <1>9 DEF R, C, Rest

LEMMA SecondBranchCounts ==
  ASSUME IInv, SolveInv, CountInv, SecondBranchReturns
  PROVE  CountInv'
<1> DEFINE m == Len(stack) - 1
           val == value + Caller.pos
           r == Caller.ret * val
           t == [Caller EXCEPT !.ret = r, !.connected = {}, !.cut = {}, !.lit = 0, !.pos = 0]
           C == Caller.connected
<1>1. /\ Len(stack) > 1 /\ pc = "return" /\ ~InFirstBranch /\ pc' = "components"
      /\ UNCHANGED <<fixed, occ, value, answer>>
      /\ assumptions' = SubSeq(assumptions, 1, Len(assumptions) - 1)
      /\ stack' = Append(SubSeq(stack, 1, Len(stack) - 2), t)
      /\ AddInCache(C, val)
  BY DEF SecondBranchReturns, EndDecisionNode, CallsBelow
<1>2. /\ m \in Nat \ {0} /\ m + 1 = Len(stack) /\ Len(assumptions) = m /\ Solved = m
      /\ Caller = stack[m] /\ occ = UnitsOf(stack, m)
      /\ LevelCount(OccClauses, stack, assumptions, m)
      /\ Settled(OccClauses, C, occ) /\ C \in SUBSET Var
      /\ Caller.todo \in SUBSET (SUBSET Var) /\ UnitFreeWeight(Caller.units, Caller.free) \in Int
  BY <1>1, CallerKnown
<1>3. val = Rest(OccClauses, occ, C)
  BY <1>1, BothBranches
<1>4. val \in Int
  BY <1>2, <1>3, RestNumber
<1> HIDE DEF val
<1>5. PICK V : stack \in Seq(Level(V)) /\ \A k \in 1 .. Len(stack) : stack[k] \in Level(V)
  BY StateFacts
<1>6. Caller.ret \in Int /\ r \in Int
  BY <1>2, <1>4 DEF LevelCount
<1> HIDE DEF r
<1>7. /\ t.set = Caller.set /\ t.units = Caller.units /\ t.free = Caller.free /\ t.ret = r
      /\ t.todo = Caller.todo /\ t.connected = {}
  <2>1. m \in 1 .. Len(stack)
    BY <1>2
  <2>2. Caller \in Level(V)
    BY <1>2, <1>5, <2>1
  <2> QED
    BY <2>2 DEF Level
<1> HIDE DEF t, C
<1> DEFINE S == Level(V) \cup {t}
<1>8. stack \in Seq(S) /\ t \in S
  <2>1. Level(V) \subseteq S
    OBVIOUS
  <2> QED
    BY <1>5, <2>1
<1> HIDE DEF S
<1>9. PICK u, ds, below : u = stack' /\ ds = assumptions' /\ below = SubSeq(stack, 1, Len(stack) - 2)
  OBVIOUS
<1>10. Len(u) = m /\ u[m] = t /\ \A k \in 1 .. m - 1 : u[k] = stack[k]
  <2>1. Len(stack) - 2 = m - 1 /\ m - 1 + 1 = m
    BY <1>2
  <2>2. /\ below \in Seq(S) /\ Len(below) = Len(stack) - 2
        /\ \A k \in 1 .. Len(stack) - 2 : below[k] = stack[k]
    BY <1>1, <1>8, <1>9, DropTwoFacts
  <2>3. u = Append(below, t)
    BY <1>1, <1>9
  <2> DEFINE w == Append(below, t)
  <2>4. /\ Len(w) = Len(below) + 1 /\ w[Len(below) + 1] = t
        /\ \A k \in 1 .. Len(below) : w[k] = below[k]
    BY <1>8, <2>2, PushFacts
  <2>5. u = w
    BY <2>3
  <2> HIDE DEF m, w
  <2> QED
    BY <2>1, <2>2, <2>4, <2>5
<1>11. \A k \in 1 .. m - 1 : ds[k] = assumptions[k]
  <2>1. assumptions \in Seq(Literal) /\ assumptions # <<>>
    BY <1>2, EmptySeq DEF IInv, Typed
  <2> HIDE DEF m
  <2> QED
    BY <1>1, <1>2, <1>9, <2>1, PopFacts
<1> HIDE DEF m
<1>12. \A k \in 1 .. m : u[k].units = stack[k].units
  <2>1. \A k \in 1 .. m : k = m \/ k \in 1 .. m - 1
    BY <1>2
  <2> QED
    BY <1>2, <1>7, <1>10, <2>1
<1>13. UnitsOf(u, m) = UnitsOf(stack, m)
  <2>1. m \in Nat /\ m \in 0 .. m
    BY <1>2
  <2> QED
    BY <1>12, <2>1, UnitsKept
<1>14. Wanted(OccClauses, u, ds, m) = Wanted(OccClauses, stack, assumptions, m)
  <2>1. SameCall(stack, assumptions, u, ds, m)
    BY <1>2, <1>7, <1>10, <1>11, <1>12 DEF SameCall
  <2> QED
    BY <2>1, WantedKept
<1>15. LevelCount(OccClauses, u, ds, m)
  <2> DEFINE w == UnitFreeWeight(Caller.units, Caller.free)
  <2>1. Due(OccClauses, w, Caller.ret, occ, C, Caller.todo)
          = Due(OccClauses, w, Caller.ret * Rest(OccClauses, occ, C), occ, {}, Caller.todo)
    BY <1>2, <1>6, DueEnd
  <2>2. Due(OccClauses, w, Caller.ret, occ, C, Caller.todo) = Due(OccClauses, w, r, occ, {}, Caller.todo)
    BY <1>3, <2>1 DEF r
  <2>3. Separate(Caller.todo)
    BY <1>2 DEF LevelCount
  <2>4. m > 1 => ds[m - 1] \in Caller.units
    <3>1. m > 1 => m - 1 \in 1 .. m - 1
      BY <1>2
    <3> QED
      BY <1>2, <1>11, <3>1 DEF LevelCount
  <2>5. Wanted(OccClauses, u, ds, m) = Due(OccClauses, w, Caller.ret, occ, C, Caller.todo)
    BY <1>2, <1>14 DEF LevelCount, C
  <2> QED
    BY <1>2, <1>6, <1>7, <1>10, <1>13, <2>2, <2>3, <2>4, <2>5 DEF LevelCount
<1>16. Solved' = m
  BY <1>1, <1>2, <1>9, <1>10 DEF Solved
<1>17. CallsCount'
  <2>1. u[m].units = Caller.units /\ Len(u) = m /\ \A k \in 1 .. m - 1 : u[k] = stack[k]
    BY <1>7, <1>10
  <2>2. UNCHANGED fixed /\ pc = "return" /\ Len(stack) > 1
    BY <1>1
  <2> QED
    BY <1>9, <1>11, <1>15, <1>16, <2>1, <2>2, CallsUnder DEF m
<1>18. CacheExact'
  BY <1>1, <1>2, <1>3, CacheGrows DEF CountInv
<1>19. PlaceCount'
  <2>1. Top' = t
    BY <1>9, <1>10 DEF Top
  <2> QED
    BY <1>1, <1>7, <2>1 DEF CountInv, PlaceCount
<1> QED
  BY <1>17, <1>18, <1>19 DEF CountInv, CallsCount

\* The search starts with nothing counted.
LEMMA InitCounts ==
  ASSUME Init
  PROVE  CountInv
<1> DEFINE b == NewLevel(Var, {})
<1>1. /\ stack = <<b>> /\ pc = "solve" /\ answer = NoAnswer /\ cache = [k \in {} |-> 0]
  BY DEF Init, InitSearch
<1>2. Len(stack) = 1 /\ stack[1] = b /\ b.ret = 1
  BY <1>1 DEF NewLevel
<1> HIDE DEF b
<1>3. Solved = 0 /\ Top = b
  BY <1>1, <1>2 DEF Solved, Top
<1>4. LevelsCount /\ BranchesCount /\ FixedAmongUnits
  BY <1>2, <1>3 DEF LevelsCount, BranchesCount, FixedAmongUnits
<1>5. CacheExact
  BY <1>1 DEF CacheExact
<1> QED
  BY <1>1, <1>2, <1>3, <1>4, <1>5 DEF CountInv, PlaceCount
-----------------------------------------------------------------------------
(* The theorems.                                                           *)

\* Every step keeps what is counted.
LEMMA StepCounts ==
  ASSUME IInv, IInv', SolveInv, CountInv, LossFree, [Next]_vars
  PROVE  CountInv'
<1>1. CASE SolveUnsat
  BY <1>1, UnsatCounts
<1>2. CASE SolveSat
  BY <1>2, SolveCounts
<1>3. CASE PositiveHit
  BY <1>3, PositiveHitCounts
<1>4. CASE NegativeHit
  BY <1>4, NegativeHitCounts
<1>5. CASE EndComponents
  BY <1>5, EndCounts
<1>6. CASE ComputePartition
  BY <1>6, PartitionCounts
<1>7. CASE SelectVariable
  BY <1>7, SelectCounts
<1>8. CASE NothingToDecide
  BY <1>8, NothingCounts
<1>9. CASE FirstBranchReturns
  BY <1>9, FirstBranchCounts
<1>10. CASE SecondBranchReturns
  BY <1>10, SecondBranchCounts
<1>11. CASE SkipPartition \/ Finish \/ UNCHANGED vars
  BY <1>11, OtherCounts
<1> QED
  BY <1>1, <1>2, <1>3, <1>4, <1>5, <1>6, <1>7, <1>8, <1>9, <1>10, <1>11 DEF Next

\* What is counted is right in every state, as long as no component without a
\* variable to decide on is worth anything but 1.
THEOREM CountInvCorrect == Spec /\ []LossFree => []CountInv
<1>1. Init => CountInv
  BY InitCounts
<1>2. IInv /\ IInv' /\ SolveInv /\ CountInv /\ LossFree /\ [Next]_vars => CountInv'
  BY StepCounts
<1> QED
  BY <1>1, <1>2, SearchCorrect, SolveCorrect, PTL DEF Spec

\* Each call returns the count of its own subproblem.
LEMMA ReturnsRight ==
  ASSUME IInv, CountInv
  PROVE  ReturnsExact
<1> SUFFICES ASSUME pc = "return"
             PROVE  value = IF Len(stack) = 1 THEN FormulaCount
                            ELSE Count(Residual(OccClauses, Top.set, occ) \cup {{assumptions[Len(assumptions)]}}, Top.set)
  BY DEF ReturnsExact
<1> DEFINE n == Len(stack)
<1>1. /\ Len(assumptions) = n - 1 /\ Top = stack[n]
      /\ value = Wanted(OccClauses, stack, assumptions, n)
      /\ occ = UnitsOf(stack, n - 1)
  BY StateFacts DEF Top, CountInv, PlaceCount, IInv, OccExact, Active
<1> QED
  BY <1>1 DEF Wanted

\* A value found in the cache is the count of the component it is found for.
LEMMA HitsRight ==
  ASSUME IInv, SolveInv, CountInv
  PROVE  HitExact
<1> SUFFICES ASSUME pc = "components", Top.todo # {}, Found(NextConnected)
             PROVE  cache[Key(OccClauses, NextConnected, occ)]
                      = Count(Residual(OccClauses, NextConnected, occ), NextConnected)
  BY DEF HitExact
<1> DEFINE C == NextConnected
<1>1. /\ Top.todo \in SUBSET (SUBSET Var) /\ {} \notin Top.todo
      /\ \A D \in Top.todo \cup {Top.connected} : Settled(OccClauses, D, occ)
  BY TopKnown
<1>2. C \in Top.todo
  BY <1>1, NextFacts
<1> HIDE DEF C
<1>3. Settled(OccClauses, C, occ)
  BY <1>1, <1>2
<1>4. Key(OccClauses, C, occ) \in DOMAIN cache
  BY DEF Found, C
<1>5. cache[Key(OccClauses, C, occ)] = Rest(OccClauses, occ, C)
  BY <1>3, <1>4, HitRight DEF CountInv
<1> QED
  BY <1>5 DEF Rest, C

\* The specification of the answer counts the same.
LEMMA SameWeight ==
  ASSUME NEW S
  PROVE  Abstract!WeightOf(S) = WeightOf(S)
<1>1. Abstract!WeightOf(S) = Fold("product", Weight, S)
  BY DEF Abstract!WeightOf, Abstract!FoldSet, Abstract!MapThenFoldSet, Fold, IsFold, FoldStep, Combine, Neutral
<1> QED
  BY <1>1, WeightIs

LEMMA SameCount == Abstract!FormulaCount = FormulaCount
<1> DEFINE X == Projections(ModelsOver(Clauses, Var))
           pick(s) == CHOOSE x \in s : TRUE
           sums(f) == [s \in SUBSET X |-> IF s = {} THEN 0 ELSE Abstract!WeightOf(pick(s)) + f[s \ {pick(s)}]]
           steps(f) == [s \in SUBSET X |-> FoldStep("sum", Weights, s, f)]
<1>1. Abstract!FormulaCount = Abstract!MapThenSumSet(Abstract!WeightOf, X)
  BY DEF Abstract!FormulaCount, Abstract!Count, Abstract!Over, Over, Abstract!ModelsOver, ModelsOver,
         Abstract!Assignments, Assignments, Abstract!VarOf, VarOf, Projections
<1>2. X \in SUBSET (SUBSET Literal)
  BY ModelsOverFacts
<1> HIDE DEF X
<1>3. \A s \in SUBSET X : s # {} => Weights[pick(s)] = Abstract!WeightOf(pick(s))
  <2>1. \A s \in SUBSET X : s # {} => pick(s) \in SUBSET Literal
    BY <1>2
  <2> HIDE DEF pick
  <2> QED
    BY <2>1, SameWeight DEF Weights
<1>4. ASSUME NEW f
      PROVE  sums(f) = steps(f)
  <2>1. \A s \in SUBSET X : FoldStep("sum", Weights, s, f)
                              = IF s = {} THEN 0 ELSE Weights[pick(s)] + f[s \ {pick(s)}]
    BY DEF FoldStep, Combine, Neutral
  <2> HIDE DEF pick
  <2> QED
    BY <1>3, <2>1
<1>5. Abstract!MapThenSumSet(Abstract!WeightOf, X) = (CHOOSE f : f = sums(f))[X]
  BY DEF Abstract!MapThenSumSet, Abstract!MapThenFoldSet
<1>6. Fold("sum", Weights, X) = (CHOOSE f : f = steps(f))[X]
  BY DEF Fold, IsFold
<1>7. FormulaCount = Total(X)
  BY CountIs DEF FormulaCount, X
<1> HIDE DEF sums, steps
<1> QED
  BY <1>1, <1>2, <1>4, <1>5, <1>6, <1>7, TotalIs

LEMMA AnswerStep ==
  ASSUME CountInv, CountInv', [Next]_vars
  PROVE  [Abstract!Next]_answer
<1>1. /\ answer = IF pc = "done" THEN FormulaCount ELSE NoAnswer
      /\ answer' = IF pc' = "done" THEN FormulaCount ELSE NoAnswer
  BY DEF CountInv, PlaceCount
<1>2. CASE pc = "done"
  <2>1. ~Next
    BY <1>2 DEF Next, SolveUnsat, SolveSat, PositiveHit, NegativeHit, EndComponents, ComputePartition,
                SkipPartition, SelectVariable, NothingToDecide, FirstBranchReturns, SecondBranchReturns, Finish
  <2> QED
    BY <2>1 DEF vars
<1>3. CASE pc # "done"
  BY <1>1, <1>3, SameCount DEF Abstract!Next
<1> QED
  BY <1>2, <1>3

\* Invariant: each call of computeNbModel_ returns the weighted count of its own
\* subproblem, the variables it was called on under the decision it was called
\* with, over every interleaving of units, components, cache hits and branches.
THEOREM ReturnsCorrect == Spec /\ []LossFree => []ReturnsExact
<1>1. IInv /\ CountInv => ReturnsExact
  BY ReturnsRight
<1> QED
  BY <1>1, CountInvCorrect, SearchCorrect, PTL

\* Invariant: a value found in the cache is the count of the component it is
\* found for, although the key omits the clauses with two literals left and was
\* made elsewhere in the search (CacheManager::searchInCache, createBucket).
THEOREM HitCorrect == Spec /\ []LossFree => []HitExact
<1>1. IInv /\ SolveInv /\ CountInv => HitExact
  BY HitsRight
<1> QED
  BY <1>1, CountInvCorrect, SearchCorrect, SolveCorrect, PTL

\* Refinement: the search answers once, with the count of the formula
\* (ModelCounter::computeNbModel implements CountSpec).
THEOREM AnswerCorrect == Spec /\ []LossFree => CountCorrect
<1>1. Init => Abstract!Init
  BY DEF Init, InitSearch, Abstract!Init
<1>2. CountInv /\ CountInv' /\ [Next]_vars => [Abstract!Next]_answer
  BY AnswerStep
<1> QED
  BY <1>1, <1>2, CountInvCorrect, PTL DEF Spec, CountCorrect, Abstract!Spec
-----------------------------------------------------------------------------
(* When nothing is lost.                                                   *)

UnitWeights == \A l \in Literal : VarOf(l) \in Projected => Weight[l] = 1

LEMMA UnitProduct ==
  ASSUME UnitWeights, NEW X \in SUBSET Literal, VarsOf(X) \subseteq Projected
  PROVE  WeightOf(X) = 1
<1> DEFINE Good == {T \in SUBSET X : WeightOf(T) = 1}
<1>1. IsFiniteSet(X)
  BY LiteralFinite, FS_Subset
<1>2. ASSUME NEW T \in SUBSET X, \A x \in T : T \ {x} \in Good
      PROVE  WeightOf(T) = 1
  <2>1. CASE T = {}
    BY <2>1, WeightFacts
  <2>2. CASE T # {}
    <3>1. PICK x \in T : TRUE
      BY <2>2
    <3> DEFINE R == T \ {x}
    <3>2. /\ R \in SUBSET Literal /\ {x} \in SUBSET Literal /\ x \in Literal /\ T = R \cup {x} /\ R \cap {x} = {}
          /\ WeightOf(R) = 1
      BY <1>2, <3>1
    <3>3. Weight[x] = 1
      BY <3>1, <3>2 DEF UnitWeights, VarsOf
    <3> HIDE DEF R
    <3>4. WeightOf(R \cup {x}) = WeightOf(R) * WeightOf({x}) /\ WeightOf({x}) = Weight[x]
      BY <3>2, WeightFacts
    <3> QED
      BY <3>2, <3>3, <3>4
  <2> QED
    BY <2>1, <2>2
<1>3. \A T \in SUBSET X : (\A x \in T : T \ {x} \in Good) => T \in Good
  BY <1>2
<1> HIDE DEF Good
<1>4. \A T \in SUBSET X : T \in Good
  BY <1>1, <1>3, SetInduction
<1>5. X \in Good
  BY <1>4
<1> QED
  BY <1>5 DEF Good

\* While a call is being counted, what is assigned follows from the decisions.
Counting == pc \in {"components", "partition", "select"}
LEMMA OccFollows ==
  ASSUME IInv, SolveInv, CountInv, Counting
  PROVE  /\ \A M \in Models : Assumed \subseteq M => fixed \cup occ \subseteq M
         /\ Satisfiable(Assumed) /\ Assumed \subseteq occ /\ fixed \subseteq occ
         /\ fixed \cup occ \in SUBSET Literal /\ Assumed \in SUBSET Literal
<1> DEFINE n == Len(stack)
           ds == assumptions
<1>1. n \in Nat \ {0} /\ Solved = n /\ Len(ds) = n - 1 /\ occ = UnitsOf(stack, n) /\ ds \in Seq(Literal)
      /\ fixed \cup occ \in SUBSET Literal /\ Assumed \in SUBSET Literal
  BY StateFacts DEF IInv, Typed, OccExact, Active, Solved, Counting
<1>2. Assumed = Before(ds, n)
  BY <1>1 DEF Assumed, Before
<1> HIDE DEF n, ds
<1>3. \A k \in 1 .. n : SolvedRight(OccClauses, stack, ds, k)
  BY <1>1 DEF SolveInv, SolvedExact, ds
<1>4. ASSUME NEW M \in Models, Assumed \subseteq M
      PROVE  fixed \cup occ \subseteq M
  <2>1. fixed \subseteq M
    BY ImpliedFacts DEF SolveInv
  <2>2. ASSUME NEW k \in 1 .. n
        PROVE  stack[k].units \subseteq M
    <3>1. stack[k].units \subseteq Implied[Before(ds, k)]
      BY <1>3 DEF SolvedRight
    <3>2. \A j \in 1 .. k - 1 : j \in 1 .. n - 1
      BY <1>1
    <3>3. Before(ds, k) \subseteq Assumed
      BY <1>2, <3>2 DEF Before
    <3>4. Before(ds, k) \subseteq M /\ Before(ds, k) \in SUBSET Literal
      BY <1>1, <1>4, <3>3
    <3>5. Implied[Before(ds, k)] \subseteq M
      BY <3>4, ImpliedFacts
    <3> QED
      BY <3>1, <3>5
  <2>3. UnitsOf(stack, n) \subseteq M
    BY <2>2 DEF UnitsOf
  <2> QED
    BY <1>1, <2>1, <2>3
<1>5. Satisfiable(Assumed)
  <2>1. n \in 1 .. n
    BY <1>1
  <2> QED
    BY <1>2, <1>3, <2>1 DEF SolvedRight
<1>6. Assumed \subseteq occ
  <2>1. ASSUME NEW j \in 1 .. n - 1
        PROVE  ds[j] \in occ
    <3>1. j + 1 \in 1 .. n /\ j + 1 > 1 /\ j + 1 - 1 = j
      BY <1>1
    <3>2. LevelCount(OccClauses, stack, ds, j + 1)
      BY <1>1, <3>1 DEF CountInv, LevelsCount, ds
    <3>3. ds[j] \in stack[j + 1].units
      BY <3>1, <3>2 DEF LevelCount
    <3> QED
      BY <1>1, <3>1, <3>3 DEF UnitsOf
  <2> QED
    BY <1>2, <2>1 DEF Before
<1>7. fixed \subseteq occ
  <2>1. 1 \in 1 .. n /\ Solved >= 1
    BY <1>1
  <2> QED
    BY <1>1, <2>1 DEF CountInv, FixedAmongUnits, UnitsOf
<1> QED
  BY <1>1, <1>4, <1>5, <1>6, <1>7

\* And so does what the solver has assigned.
TrailFollows == Counting => \A M \in Models : Assumed \subseteq M => trail \subseteq M

LEMMA TrailStep ==
  ASSUME IInv, IInv', SolveInv, CountInv, TrailFollows, [Next]_vars
  PROVE  TrailFollows'
<1>1. CASE SolveUnsat \/ EndComponents \/ SelectVariable \/ FirstBranchReturns \/ Finish
  <2>1. pc' \in {"return", "solve", "done"}
    BY <1>1 DEF SolveUnsat, EndComponents, SelectVariable, FirstBranchReturns, Finish
  <2> QED
    BY <2>1 DEF TrailFollows, Counting
<1>2. CASE PositiveHit \/ NegativeHit \/ SkipPartition \/ NothingToDecide \/ UNCHANGED vars
  <2>1. UNCHANGED <<assumptions, trail>> /\ (Counting' => Counting)
    BY <1>2 DEF PositiveHit, NegativeHit, SkipPartition, NothingToDecide, vars, Counting
  <2>2. Assumed' = Assumed
    BY <2>1 DEF Assumed
  <2> QED
    BY <2>1, <2>2 DEF TrailFollows
<1>3. CASE SolveSat
  <2>1. UNCHANGED assumptions /\ trail' \in TrailsFrom(fixed \cup occ, Assumed) /\ pc = "solve"
    BY <1>3 DEF SolveSat, Trails
  <2>2. Assumed' = Assumed
    BY <2>1 DEF Assumed
  <2>3. /\ fixed \cup occ \in SUBSET Literal /\ Assumed \in SUBSET Literal
        /\ \A M \in Models : Assumed \subseteq M => fixed \cup occ \subseteq M
    BY <2>1, AskedFacts
  <2>4. ASSUME NEW M \in Models, Assumed \subseteq M
        PROVE  trail' \subseteq M
    <3>1. Assumed \cup (fixed \cup occ) \subseteq M
      BY <2>3, <2>4
    <3> QED
      BY <2>1, <2>3, <3>1, TrailModel
  <2> QED
    BY <2>2, <2>4 DEF TrailFollows
<1>4. CASE ComputePartition
  <2>1. UNCHANGED assumptions /\ trail' \in TrailsFrom(fixed \cup occ, Assumed) \cup {trail} /\ pc = "partition"
    BY <1>4 DEF ComputePartition, Trails
  <2>2. Assumed' = Assumed
    BY <2>1 DEF Assumed
  <2>3. Counting
    BY <2>1 DEF Counting
  <2>4. /\ fixed \cup occ \in SUBSET Literal /\ Assumed \in SUBSET Literal
        /\ \A M \in Models : Assumed \subseteq M => fixed \cup occ \subseteq M
    BY <2>3, OccFollows
  <2>5. ASSUME NEW M \in Models, Assumed \subseteq M
        PROVE  trail' \subseteq M
    <3>1. Assumed \cup (fixed \cup occ) \subseteq M
      BY <2>4, <2>5
    <3>2. CASE trail' = trail
      BY <2>3, <2>5, <3>2 DEF TrailFollows
    <3>3. CASE trail' \in TrailsFrom(fixed \cup occ, Assumed)
      BY <2>4, <3>1, <3>3, TrailModel
    <3> QED
      BY <2>1, <3>2, <3>3
  <2> QED
    BY <2>2, <2>5 DEF TrailFollows
<1>5. CASE SecondBranchReturns
  <2>1. PICK ds : ds = assumptions'
    OBVIOUS
  <2>2. trail' \in TrailsBelow(fixed, ds) /\ UNCHANGED fixed
    BY <1>5, <2>1 DEF SecondBranchReturns
  <2>3. PICK n \in 0 .. Len(ds) : trail' \in TrailsFrom(fixed, {ds[k] : k \in 1 .. n})
    BY <2>2 DEF TrailsBelow
  <2>4. ds \in Seq(Literal) /\ DOMAIN ds = 1 .. Len(ds) /\ Len(ds) \in Nat
    BY <2>1 DEF IInv, Typed
  <2> DEFINE A == {ds[k] : k \in 1 .. n}
  <2>5. A \subseteq Assumed' /\ A \in SUBSET Literal
    <3>1. \A k \in 1 .. n : k \in DOMAIN ds /\ ds[k] \in Literal
      BY <2>3, <2>4
    <3> QED
      BY <2>1, <3>1 DEF Assumed
  <2>6. fixed \in SUBSET Literal /\ \A M \in Models : fixed \subseteq M
    BY ImpliedFacts DEF SolveInv, IInv, Typed
  <2> HIDE DEF A
  <2>7. trail' \in TrailsFrom(fixed, A)
    BY <2>3 DEF A
  <2>8. ASSUME NEW M \in Models, A \subseteq M
        PROVE  trail' \subseteq M
    <3>1. A \cup fixed \subseteq M
      BY <2>6, <2>8
    <3> QED
      BY <2>5, <2>6, <2>7, <3>1, TrailModel
  <2> QED
    BY <2>5, <2>8 DEF TrailFollows
<1> QED
  BY <1>1, <1>2, <1>3, <1>4, <1>5 DEF Next
\* A component of which every projected variable is assigned has one projected
\* model, and its weight is 1 if every weight is.
LEMMA LossOne ==
  ASSUME IInv, SolveInv, CountInv, TrailFollows, UnitWeights, pc = "select",
         Top.connected \cap Projected \subseteq VarsOf(trail)
  PROVE  Rest(OccClauses, occ, Top.connected) = 1
<1> DEFINE C == Top.connected
           R == Residual(OccClauses, C, occ)
           X == ModelsOver(R, C)
           P == C \cap Projected
           y == Over(trail, P)
<1>1. Settled(OccClauses, C, occ) /\ C \in SUBSET Var
  BY TopKnown
<1>2. /\ \A M \in Models : Assumed \subseteq M => fixed \cup occ \subseteq M /\ trail \subseteq M
      /\ Satisfiable(Assumed) /\ Assumed \subseteq occ /\ fixed \subseteq occ
  BY OccFollows DEF Counting, TrailFollows
<1>3. PICK M1 \in Models : Assumed \subseteq M1
  BY <1>2 DEF Satisfiable
<1>4. M1 \in SUBSET Literal /\ occ \subseteq M1 /\ fixed \subseteq M1 /\ trail \subseteq M1
  BY <1>2, <1>3, ModelFacts
<1>5. C \cap VarsOf(occ) = {} /\ Closed(OccClauses, C, occ) /\ Over(fixed, C) = {}
  BY <1>1, <1>2 DEF Settled, Over, VarsOf
<1>6. Over(M1, C) \in X
  BY <1>1, <1>3, <1>4, <1>5, ModelRest
<1> HIDE DEF P
<1>7. P \subseteq C /\ P \subseteq Projected /\ P \subseteq VarsOf(trail) /\ \A v \in C : v \in Projected => v \in P
  BY DEF P
<1>8. ASSUME NEW x \in X
      PROVE  Over(x, Projected) = y
  <2> DEFINE B == Glued(M1, C, x)
  <2>1. Gluing(M1, C, occ, x)
    BY <1>1, <1>3, <1>4, <1>5 DEF Gluing
  <2> HIDE DEF C
  <2>2. B \in Models /\ Over(B, C) = x
    BY <2>1, GlueAt
  <2>3. occ \subseteq B
    BY <1>4, <1>5 DEF Glued, VarsOf
  <2> HIDE DEF B
  <2>4. trail \subseteq B
    BY <1>2, <2>2, <2>3
  <2>5. B \in SUBSET Literal /\ ~Conflicting(B)
    BY <2>2, ModelFacts
  <2>6. ASSUME NEW l \in Over(x, Projected)
        PROVE  l \in y
    <3>1. l \in B /\ VarOf(l) \in C /\ VarOf(l) \in Projected
      BY <2>2 DEF Over
    <3>2. VarOf(l) \in P
      BY <1>7, <3>1
    <3>3. PICK k \in trail : VarOf(k) = VarOf(l)
      BY <1>7, <3>2 DEF VarsOf
    <3>4. k \in B /\ k \in Literal /\ l \in Literal
      BY <2>4, <2>5, <3>1
    <3>5. k = l \/ k = -l
      BY <3>3, <3>4, VarFacts DEF VarOf
    <3>6. k = l
      BY <2>5, <3>1, <3>4, <3>5 DEF Conflicting
    <3> QED
      BY <3>2, <3>3, <3>6 DEF Over
  <2>7. ASSUME NEW l \in y
        PROVE  l \in Over(x, Projected)
    <3>1. l \in trail /\ VarOf(l) \in P
      BY DEF Over
    <3>2. l \in B /\ VarOf(l) \in C /\ VarOf(l) \in Projected
      BY <1>7, <2>4, <3>1
    <3>3. l \in x
      BY <2>2, <3>2 DEF Over
    <3> QED
      BY <3>2, <3>3 DEF Over
  <2> QED
    BY <2>6, <2>7
<1>9. Projections(X) = {y}
  BY <1>6, <1>8 DEF Projections
<1>10. y \in SUBSET Literal /\ VarsOf(y) \subseteq Projected
  BY <1>4, <1>7 DEF Over, VarsOf
<1> HIDE DEF y
<1>11. Total({y}) = 1
  BY <1>10, TotalFacts, UnitProduct
<1>12. Count(R, C) = Total(Projections(X))
  BY <1>1, CountIs
<1> QED
  BY <1>9, <1>11, <1>12 DEF Rest

\* A step keeps what every call has if the new calls have it.
LEMMA CallsFrom ==
  ASSUME IInv, NEW P, \A k \in 1 .. Len(stack) : stack[k] \in P, NEW t \in P, NEW b \in P,
         \/ UNCHANGED stack \/ TopBecomes(t)
         \/ stack' = Append([stack EXCEPT ![Len(stack)] = t], b)
         \/ Len(stack) > 1 /\ \/ stack' = SubSeq(stack, 1, Len(stack) - 2) \o <<t, b>>
                              \/ stack' = Append(SubSeq(stack, 1, Len(stack) - 2), t)
  PROVE  \A k \in 1 .. Len(stack') : stack'[k] \in P
<1>1. stack \in Seq(P) /\ stack # <<>> /\ Len(stack) \in Nat
  <2>1. PICK V : stack \in Seq(Level(V))
    BY StateFacts
  <2> QED
    BY <2>1, StateFacts
<1>2. PICK u, s, below : /\ u = stack' /\ s = [stack EXCEPT ![Len(stack)] = t]
                         /\ below = SubSeq(stack, 1, Len(stack) - 2)
  OBVIOUS
<1>3. s \in Seq(P) /\ Append(SubSeq(stack, 1, Len(stack) - 1), t) = s
  BY <1>1, <1>2, LastFacts
<1>4. Len(stack) > 1 => below \in Seq(P)
  BY <1>1, <1>2, DropTwoFacts
<1>5. u \in Seq(P)
  <2>1. CASE u = stack \/ u = s
    BY <1>1, <1>3, <2>1
  <2>2. CASE u = Append(s, b)
    BY <1>3, <2>2
  <2>3. CASE Len(stack) > 1 /\ u = below \o <<t, b>>
    BY <1>4, <2>3
  <2>4. CASE Len(stack) > 1 /\ u = Append(below, t)
    BY <1>4, <2>4
  <2> QED
    BY <1>2, <1>3, <2>1, <2>2, <2>3, <2>4 DEF TopBecomes
<1>6. \A k \in 1 .. Len(u) : u[k] \in P
  BY <1>5, ElementOfSeq
<1> QED
  BY <1>2, <1>6
\* No component is partitioned, as with the option -pv=NO: no call has a cut, none has
\* priority variables.
NoPartition == Cardinality(Var) <= MinPartition \/ MaxPartition = 0
Uncut(a) == a.cut = {} /\ a.priority = {}
NoCuts == \A k \in 1 .. Len(stack) : Uncut(stack[k])

LEMMA UncutFrom ==
  ASSUME IInv, NoCuts, NEW t, Uncut(t), NEW b, Uncut(b),
         \/ UNCHANGED stack \/ TopBecomes(t)
         \/ stack' = Append([stack EXCEPT ![Len(stack)] = t], b)
         \/ Len(stack) > 1 /\ \/ stack' = SubSeq(stack, 1, Len(stack) - 2) \o <<t, b>>
                              \/ stack' = Append(SubSeq(stack, 1, Len(stack) - 2), t)
  PROVE  NoCuts'
<1> DEFINE P == {a \in {stack[k] : k \in 1 .. Len(stack)} \cup {t, b} : Uncut(a)}
<1>1. t \in P /\ b \in P /\ \A k \in 1 .. Len(stack) : stack[k] \in P
  BY DEF NoCuts
<1>2. \A a \in P : Uncut(a)
  OBVIOUS
<1> HIDE DEF P
<1>3. \A k \in 1 .. Len(stack') : stack'[k] \in P
  BY <1>1, CallsFrom
<1> QED
  BY <1>2, <1>3 DEF NoCuts, Uncut

LEMMA NoCutsStep ==
  ASSUME NoPartition, IInv, NoCuts, [Next]_vars
  PROVE  NoCuts'
<1>1. PICK V : Top \in Level(V) /\ \A k \in 1 .. Len(stack) : stack[k] \in Level(V)
  <2>1. Len(stack) \in 1 .. Len(stack)
    BY StateFacts
  <2> QED
    BY <2>1, StateFacts DEF Top
<1>2. Uncut(Top)
  <2>1. Len(stack) \in 1 .. Len(stack)
    BY StateFacts
  <2> QED
    BY <2>1 DEF NoCuts, Top
<1>3. Len(stack) > 1 => Caller \in Level(V) /\ Uncut(Caller)
  <2>1. Len(stack) > 1 => Len(stack) - 1 \in 1 .. Len(stack)
    BY StateFacts
  <2> QED
    BY <1>1, <2>1 DEF NoCuts, Caller
<1>4. ASSUME NEW a \in Level(V), Uncut(a)
      PROVE  Uncut(Branch(a))
  BY <1>4 DEF Uncut, Branch, NewLevel
<1>5. CASE SolveUnsat \/ EndComponents \/ SkipPartition \/ Finish \/ UNCHANGED vars
  <2>1. UNCHANGED stack
    BY <1>5 DEF SolveUnsat, EndComponents, SkipPartition, Finish, vars
  <2> QED
    BY <2>1 DEF NoCuts
<1>6. CASE SolveSat
  <2>1. PICK units, free, todo : stack' = SetTop([Top EXCEPT !.units = units, !.free = free, !.todo = todo])
    BY <1>6 DEF SolveSat
  <2> DEFINE t == [Top EXCEPT !.units = units, !.free = free, !.todo = todo]
  <2>2. Uncut(t) /\ TopBecomes(t)
    BY <1>1, <1>2, <2>1 DEF Uncut, Level, TopBecomes, SetTop
  <2> HIDE DEF t
  <2> QED
    BY <2>2, UncutFrom
<1>7. CASE PositiveHit
  <2>1. PICK todo, ret : stack' = SetTop([Top EXCEPT !.todo = todo, !.ret = ret])
    BY <1>7 DEF PositiveHit
  <2> DEFINE t == [Top EXCEPT !.todo = todo, !.ret = ret]
  <2>2. Uncut(t) /\ TopBecomes(t)
    BY <1>1, <1>2, <2>1 DEF Uncut, Level, TopBecomes, SetTop
  <2> HIDE DEF t
  <2> QED
    BY <2>2, UncutFrom
<1>8. CASE NegativeHit
  <2>1. PICK todo, C : stack' = SetTop([Top EXCEPT !.todo = todo, !.connected = C, !.cut = PrioritySubSet(C)])
    BY <1>8 DEF NegativeHit
  <2> DEFINE t == [Top EXCEPT !.todo = todo, !.connected = C, !.cut = PrioritySubSet(C)]
  <2>2. PrioritySubSet(C) = {}
    BY <1>2 DEF PrioritySubSet, Uncut
  <2>3. Uncut(t) /\ TopBecomes(t)
    BY <1>1, <1>2, <2>1, <2>2 DEF Uncut, Level, TopBecomes, SetTop
  <2> HIDE DEF t
  <2> QED
    BY <2>3, UncutFrom
<1>9. CASE ComputePartition
  <2>1. Top.connected \in SUBSET Var
    BY <1>1 DEF Level
  <2>2. /\ Cardinality(Top.connected) <= Cardinality(Var) /\ Cardinality(Top.connected) \in Nat
        /\ Cardinality(Var) \in Nat
    BY <2>1, VarAssumption, FS_Subset, FS_CardinalityType
  <2>3. /\ Cardinality(Top.connected) > MinPartition /\ Cardinality(Top.connected) < MaxPartition
        /\ MinPartition \in Nat /\ MaxPartition \in Nat
    BY <1>9, SearchAssumption DEF ComputePartition, MustPartition
  <2> QED
    BY <2>2, <2>3 DEF NoPartition
<1>10. CASE SelectVariable
  <2>1. PICK l : stack' = Append(SetTop([Top EXCEPT !.lit = l]), Branch(Top))
    BY <1>10 DEF SelectVariable
  <2> DEFINE t == [Top EXCEPT !.lit = l]
             b == Branch(Top)
  <2>2. Uncut(t) /\ stack' = Append([stack EXCEPT ![Len(stack)] = t], b)
    BY <1>1, <1>2, <2>1 DEF Uncut, Level, SetTop
  <2>3. Uncut(b)
    BY <1>1, <1>2, <1>4
  <2> HIDE DEF t, b
  <2> QED
    BY <2>2, <2>3, UncutFrom
<1>11. CASE NothingToDecide
  <2>1. PICK ret : stack' = Append(SubSeq(stack, 1, Len(stack) - 1),
                    [Top EXCEPT !.ret = ret, !.connected = {}, !.cut = {}, !.lit = 0, !.pos = 0])
    BY <1>11 DEF NothingToDecide, EndDecisionNode
  <2> DEFINE t == [Top EXCEPT !.ret = ret, !.connected = {}, !.cut = {}, !.lit = 0, !.pos = 0]
  <2>2. Uncut(t) /\ TopBecomes(t)
    BY <1>1, <1>2, <2>1 DEF Uncut, Level, TopBecomes
  <2> HIDE DEF t
  <2> QED
    BY <2>2, UncutFrom
<1>12. CASE FirstBranchReturns
  <2> DEFINE t == [Caller EXCEPT !.pos = value]
             b == Branch(Caller)
  <2>1. Len(stack) > 1 /\ stack' = SubSeq(stack, 1, Len(stack) - 2) \o <<t, b>>
    BY <1>12 DEF FirstBranchReturns, CallsBelow
  <2>2. Uncut(t)
    BY <1>3, <2>1 DEF Uncut, Level
  <2>3. Uncut(b)
    BY <1>3, <1>4, <2>1
  <2> HIDE DEF t, b
  <2> QED
    BY <2>1, <2>2, <2>3, UncutFrom
<1>13. CASE SecondBranchReturns
  <2>1. PICK ret : stack' = Append(SubSeq(stack, 1, Len(stack) - 2),
                    [Caller EXCEPT !.ret = ret, !.connected = {}, !.cut = {}, !.lit = 0, !.pos = 0])
    BY <1>13 DEF SecondBranchReturns, EndDecisionNode, CallsBelow
  <2> DEFINE t == [Caller EXCEPT !.ret = ret, !.connected = {}, !.cut = {}, !.lit = 0, !.pos = 0]
  <2>2. Len(stack) > 1
    BY <1>13 DEF SecondBranchReturns
  <2>3. Uncut(t) /\ stack' = Append(SubSeq(stack, 1, Len(stack) - 2), t)
    BY <1>3, <2>1, <2>2 DEF Uncut, Level
  <2> HIDE DEF t
  <2> QED
    BY <2>2, <2>3, UncutFrom
<1> QED
  BY <1>5, <1>6, <1>7, <1>8, <1>9, <1>10, <1>11, <1>12, <1>13 DEF Next

LEMMA InitUncut ==
  ASSUME Init
  PROVE  NoCuts
<1>1. stack = <<NewLevel(Var, {})>>
  BY DEF Init
<1> DEFINE b == NewLevel(Var, {})
<1>2. Uncut(b)
  BY DEF Uncut, NewLevel
<1> HIDE DEF b
<1>3. Len(stack) = 1 /\ stack[1] = b
  BY <1>1 DEF b
<1> QED
  BY <1>2, <1>3 DEF NoCuts

\* The partitioner cuts no variable that is assigned.
CutFree == pc \in {"partition", "select"} => Top.cut \cap VarsOf(trail) = {}

LEMMA CutFreeStep ==
  ASSUME EquivSimp, IInv, CutFree, [Next]_vars
  PROVE  CutFree'
<1>1. PICK V : Top \in Level(V)
  BY TopFacts
<1>2. CASE NegativeHit
  <2>1. PICK todo, C : stack' = SetTop([Top EXCEPT !.todo = todo, !.connected = C, !.cut = PrioritySubSet(C)])
    BY <1>2 DEF NegativeHit
  <2> DEFINE t == [Top EXCEPT !.todo = todo, !.connected = C, !.cut = PrioritySubSet(C)]
  <2>2. TopBecomes(t) /\ UNCHANGED trail /\ t.cut = PrioritySubSet(C)
    BY <1>1, <1>2, <2>1 DEF NegativeHit, TopBecomes, SetTop, Level
  <2> HIDE DEF t
  <2>3. Top' = t
    BY <2>2, TopShape DEF Top
  <2> QED
    BY <2>2, <2>3 DEF CutFree, PrioritySubSet, Unassigned
<1>3. CASE ComputePartition
  <2>1. PICK cut \in SUBSET (Top.connected \ VarsOf(trail')) : stack' = SetTop([Top EXCEPT !.cut = cut])
    BY <1>3 DEF ComputePartition
  <2> DEFINE t == [Top EXCEPT !.cut = cut]
  <2>2. TopBecomes(t) /\ t.cut = cut
    BY <1>1, <2>1 DEF TopBecomes, SetTop, Level
  <2> HIDE DEF t
  <2>3. Top' = t
    BY <2>2, TopShape DEF Top
  <2>4. cut \cap VarsOf(trail') = {} /\ VarsOf(trail)' = VarsOf(trail')
    BY <2>1 DEF VarsOf
  <2> QED
    BY <2>2, <2>3, <2>4 DEF CutFree
<1>4. CASE SkipPartition \/ UNCHANGED vars
  <2>1. UNCHANGED <<stack, trail>> /\ (pc' \in {"partition", "select"} => pc \in {"partition", "select"})
    BY <1>4 DEF SkipPartition, vars
  <2> QED
    BY <2>1 DEF CutFree, Top
<1>5. CASE \/ SolveUnsat \/ SolveSat \/ PositiveHit \/ EndComponents \/ SelectVariable \/ NothingToDecide
           \/ FirstBranchReturns \/ SecondBranchReturns \/ Finish
  <2>1. pc' \notin {"partition", "select"}
    BY <1>5 DEF SolveUnsat, SolveSat, PositiveHit, EndComponents, SelectVariable, NothingToDecide, EndDecisionNode,
                FirstBranchReturns, SecondBranchReturns, Finish
  <2> QED
    BY <2>1 DEF CutFree
<1> QED
  BY <1>2, <1>3, <1>4, <1>5 DEF Next
\* Plain counting, or projected counting without partitioning (-pv=NO).
Plain == UnitWeights /\ (NoPartition \/ (EquivSimp /\ Projected = Var))
PlainInv == TrailFollows /\ (NoPartition => NoCuts) /\ (EquivSimp => CutFree)

LEMMA PlainLossFree ==
  ASSUME Plain, IInv, SolveInv, CountInv, PlainInv
  PROVE  LossFree
<1> SUFFICES ASSUME pc = "select", Candidates = {}
             PROVE  Rest(OccClauses, occ, Top.connected) = 1
  BY DEF LossFree
<1>1. Top.connected \in SUBSET Var
  BY TopKnown
<1>2. Top.cut \subseteq Top.connected
  BY TopFacts DEF Fits
<1>3. Top.cut = {}
  <2>1. CASE NoPartition
    <3>1. Len(stack) \in 1 .. Len(stack)
      BY StateFacts
    <3> QED
      BY <2>1, <3>1 DEF PlainInv, NoCuts, Uncut, Top
  <2>2. CASE EquivSimp /\ Projected = Var
    <3>1. Top.cut \cap VarsOf(trail) = {}
      BY <2>2 DEF PlainInv, CutFree
    <3>2. \A v \in Top.cut : v \in Candidates
      BY <1>1, <1>2, <2>2, <3>1 DEF Candidates, Unassigned
    <3> QED
      BY <3>2
  <2> QED
    BY <2>1, <2>2 DEF Plain
<1>4. Top.connected \cap Projected \subseteq VarsOf(trail)
  BY <1>3 DEF Candidates, Unassigned
<1> QED
  BY <1>4, LossOne DEF Plain, PlainInv

\* Invariant: without weights nothing is lost, if every variable is projected
\* and the partitioner looks for failed literals or if nothing is partitioned:
\* a component that computeDecisionNode finds without a variable to decide on
\* then has exactly one projected model (ModelCounter::computeDecisionNode).
THEOREM PlainCorrect ==
  ASSUME Plain
  PROVE  Spec => [](CountInv /\ PlainInv /\ LossFree)
<1>1. Init => CountInv /\ PlainInv
  <2> SUFFICES ASSUME Init
               PROVE  CountInv /\ PlainInv
    OBVIOUS
  <2>1. pc = "solve"
    BY DEF Init
  <2> QED
    BY <2>1, InitCounts, InitUncut DEF PlainInv, TrailFollows, Counting, CutFree
<1>2. IInv /\ SolveInv /\ CountInv /\ PlainInv => LossFree
  BY PlainLossFree
<1>3. IInv /\ IInv' /\ SolveInv /\ CountInv /\ PlainInv /\ LossFree /\ [Next]_vars => (CountInv /\ PlainInv)'
  <2> SUFFICES ASSUME IInv, IInv', SolveInv, CountInv, PlainInv, LossFree, [Next]_vars
               PROVE  CountInv' /\ PlainInv'
    OBVIOUS
  <2>1. CountInv'
    BY StepCounts
  <2>2. TrailFollows'
    BY TrailStep DEF PlainInv
  <2>3. NoPartition => NoCuts'
    BY NoCutsStep DEF PlainInv
  <2>4. EquivSimp => CutFree'
    BY CutFreeStep DEF PlainInv
  <2> QED
    BY <2>1, <2>2, <2>3, <2>4 DEF PlainInv, NoPartition
<1> QED
  BY <1>1, <1>2, <1>3, SearchCorrect, SolveCorrect, PTL DEF Spec

\* Then the answer is the count without any further condition, and so is what
\* each call returns and what is found in the cache.
THEOREM PlainAnswerCorrect ==
  ASSUME Plain
  PROVE  Spec => CountCorrect /\ []ReturnsExact /\ []HitExact
BY PlainCorrect, AnswerCorrect, ReturnsCorrect, HitCorrect, PTL
=============================================================================
