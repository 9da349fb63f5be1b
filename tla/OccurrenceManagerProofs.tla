----------------------- MODULE OccurrenceManagerProofs -----------------------
(***************************************************************************)
(* IInv is an invariant of OccurrenceManager, and what follows from it, for *)
(* every set of variables, every formula and every bound on the calls.     *)
(***************************************************************************)
EXTENDS OccurrenceManagerInv, SequenceFacts, FunctionTheorems, FiniteSetTheorems, TLAPS

USE VarAssumption, NbClauseAssumption, LitsAssumption

-----------------------------------------------------------------------------
(* Literals, and sequences that grow and shrink at their end.              *)

\* A literal, its complement and its variable (SolverTypes: mkLit, var, ~).
LEMMA LiteralFacts ==
  ASSUME NEW l \in Literal
  PROVE  /\ VarOf(l) \in Var /\ -l \in Literal /\ VarOf(-l) = VarOf(l)
         /\ -l # l /\ -(-l) = l /\ l \in Int
         /\ TruthOf(l) \in {"true", "false"} /\ TruthOf(l) # TruthOf(-l)
BY DEF Literal, VarOf, TruthOf

\* Two literals of one variable are equal or complementary.
LEMMA SameVar ==
  ASSUME NEW l \in Literal, NEW x \in Literal, VarOf(l) = VarOf(x)
  PROVE  x = l \/ x = -l
BY DEF Literal, VarOf

\* An index set is a set of natural numbers, and a clause a set of literals.
LEMMA ClauseFacts ==
  ASSUME NEW c \in Idx
  PROVE  c \in Nat /\ Lits[c] \in SUBSET Literal
BY DEF Idx

\* Undoing the last assignment drops the last entry of the trail.
LEMMA RemoveFacts ==
  ASSUME NEW S, NEW s \in Seq(S), s # <<>>
  PROVE  /\ Remove(s, Len(s)) \in Seq(S)
         /\ Len(Remove(s, Len(s))) = Len(s) - 1
         /\ \A k \in 1 .. Len(s) - 1 : Remove(s, Len(s))[k] = s[k]
<1>1. Len(s) \in Nat \ {0} /\ s \in [1 .. Len(s) -> S]
  BY EmptySeq, LenProperties
<1>2. Remove(s, Len(s)) \in [1 .. Len(s) - 1 -> S]
  BY <1>1 DEF Remove
<1>3. \A k \in 1 .. Len(s) - 1 : Remove(s, Len(s))[k] = s[k]
  BY <1>1 DEF Remove
<1>4. Len(s) - 1 \in Nat
  BY <1>1
<1>5. Remove(s, Len(s)) \in Seq(S) /\ Len(Remove(s, Len(s))) = Len(s) - 1
  BY <1>2, <1>4, FunctionIsSeq
<1> QED
  BY <1>3, <1>5

-----------------------------------------------------------------------------
(* Type correctness.                                                       *)

Frame == [kind : {"lits", "component"}, base : Nat, scope : SUBSET Var,
          saved : [clauses : SUBSET Idx, occList : [Literal -> SUBSET Idx],
                   nbSat : [Idx -> Int], nbUnsat : [Idx -> Int]]]

\* A pushed frame is well formed.
LEMMA PushFrameType ==
  ASSUME TypeOK, NEW kind \in {"lits", "component"}, NEW scope \in SUBSET Var,
         PushFrame(kind, scope)
  PROVE  /\ frames' \in Seq(Frame)
         /\ Len(frames') = Len(frames) + 1
         /\ \A f \in 1 .. Len(frames) : frames'[f] = frames[f]
         /\ frames'[Len(frames) + 1] = [kind |-> kind, base |-> Len(trail),
                                        scope |-> scope, saved |-> Observed]
<1>1. CurrentClauses \in SUBSET Idx
  BY DEF TypeOK, CurrentClauses, Idx
<1>2. Len(trail) \in Nat
  BY LenProperties DEF TypeOK
<1>3. [kind |-> kind, base |-> Len(trail), scope |-> scope, saved |-> Observed] \in Frame
  BY <1>1, <1>2 DEF Frame, Observed, TypeOK
<1> QED
  BY <1>3, PushFacts DEF TypeOK, PushFrame, Frame

\* The innermost frame.
LEMMA TopFrame ==
  ASSUME TypeOK, frames # <<>>
  PROVE  /\ Len(frames) \in Nat \ {0}
         /\ frames[Len(frames)] \in Frame
         /\ Base \in Nat
<1>1. frames \in Seq(Frame)
  BY DEF TypeOK, Frame
<1>2. Len(frames) \in Nat \ {0} /\ frames[Len(frames)] \in Frame
  BY <1>1, PopFacts
<1> QED
  BY <1>2 DEF Base, Frame

\* A popped size and a popped frame leave well-formed stacks.
LEMMA PopType ==
  ASSUME TypeOK
  PROVE  /\ PopSize => /\ currentSize' \in 0 .. NbClause
                       /\ stackSize' \in Seq(0 .. NbClause)
         /\ PopFrame /\ frames # <<>> => frames' \in Seq(Frame)
<1>1. PopSize => currentSize' \in 0 .. NbClause /\ stackSize' \in Seq(0 .. NbClause)
  BY PopFacts DEF TypeOK, PopSize
<1>2. PopFrame /\ frames # <<>> => frames' \in Seq(Frame)
  <2>1. frames \in Seq(Frame)
    BY DEF TypeOK, Frame
  <2> QED
    BY <2>1, PopFacts DEF PopFrame
<1> QED
  BY <1>1, <1>2

\* The first state is well typed (initFormula).
LEMMA TypeInit ==
  ASSUME Init
  PROVE  TypeOK
<1>1. watcher \in [Idx -> Literal]
  <2>1. \A c \in Idx : FirstOf(c, Lits[c]) \in Lits[c]
    BY NoEmptyClauseAssumption, FirstOfAssumption
  <2> QED
    BY <2>1 DEF Init
<1>2. currentIdx \in [Idx -> Idx] /\ currentSize \in 0 .. NbClause
  BY DEF Init
<1> QED
  BY <1>1, <1>2, EmptySeq DEF Init, TypeOK

\* Every step keeps the types: in particular the partition loop and the two
\* loops over literals never index outside their arrays.
LEMMA TypeStep ==
  ASSUME TypeOK, FrameInv, [Next]_vars
  PROVE  TypeOK'
<1> USE DEF TypeOK, Frame
<1>1. ASSUME NEW ls \in Batches, PreUpdate(ls)
      PROVE  TypeOK'
  <2>1. ls \in Seq(Literal)
    <3>1. PICK n \in 0 .. MaxBatch : ls \in [1 .. n -> Literal]
      BY <1>1 DEF Batches
    <3>2. n \in Nat
      BY BoundAssumption
    <3> QED
      BY <3>1, <3>2, FunctionIsSeq
  <2>2. Scope \in SUBSET Var
    BY TopFrame DEF Scope
  <2>3. frames' \in Seq(Frame)
    BY <1>1, <2>2, PushFrameType DEF PreUpdate
  <2> QED
    BY <1>1, <2>1, <2>3 DEF PreUpdate, formula, clauseSet
<1>2. CASE AssignLit
  <2> DEFINE l == Head(lits)
  <2>1. l \in Literal /\ Tail(lits) \in Seq(Literal)
    BY <1>2, HeadTailProperties DEF AssignLit
  <2>2. Append(trail, l) \in Seq(Literal)
    BY <2>1, PushFacts
  <2>3. -l \in Literal /\ VarOf(l) \in Var /\ TruthOf(l) \in {"undef", "true", "false"}
    BY <2>1, LiteralFacts
  <2>4. currentValue' \in [Var -> {"undef", "true", "false"}]
    BY <1>2, <2>3 DEF AssignLit
  <2>5. nbSat' \in [Idx -> Int] /\ nbUnsat' \in [Idx -> Int]
    BY <1>2 DEF AssignLit
  <2>6. occList' \in [Literal -> SUBSET Idx]
    BY <1>2 DEF AssignLit
  <2>7. reviewWatcher' \in SUBSET Idx
    BY <1>2, <2>3 DEF AssignLit, LostWatcher
  <2> QED
    BY <1>2, <2>1, <2>2, <2>4, <2>5, <2>6, <2>7 DEF AssignLit, clauseSet
<1>3. CASE ReviewWatchers
  <2>1. watcher' \in [Idx -> Literal]
    <3>1. \A c \in Idx : Unassigned(c) # {} => FirstOf(c, Unassigned(c)) \in Literal
      <4>1. \A c \in Idx : Unassigned(c) \in SUBSET Lits[c] /\ Lits[c] \in SUBSET Literal
        BY DEF Unassigned
      <4> QED
        BY <4>1, FirstOfAssumption
    <3> QED
      BY <1>3, <3>1 DEF ReviewWatchers, MustMove
  <2>2. stackSize' \in Seq(0 .. NbClause)
    BY <1>3, PushFacts DEF ReviewWatchers, StartPartition
  <2> QED
    BY <1>3, <2>1, <2>2 DEF ReviewWatchers, StartPartition
<1>4. ASSUME NEW C \in SUBSET Var, UpdateCurrentClauseSet(C)
      PROVE  TypeOK'
  <2>1. frames' \in Seq(Frame)
    BY <1>4, PushFrameType DEF UpdateCurrentClauseSet
  <2>2. stackSize' \in Seq(0 .. NbClause)
    BY <1>4, PushFacts DEF UpdateCurrentClauseSet, StartPartition
  <2> QED
    BY <1>4, <2>1, <2>2 DEF UpdateCurrentClauseSet, StartPartition, formula
<1>5. CASE KeepClause
  BY <1>5 DEF KeepClause, formula
<1>6. CASE DropClause
  <2>1. i \in Idx /\ currentSize - 1 \in Idx
    BY <1>6 DEF DropClause, Idx
  <2>2. currentIdx' \in [Idx -> Idx]
    BY <1>6, <2>1 DEF DropClause
  <2>3. currentSize' \in 0 .. NbClause
    BY <1>6 DEF DropClause
  <2> QED
    BY <1>6, <2>2, <2>3 DEF DropClause, formula
<1>7. CASE EndPartition
  BY <1>7 DEF EndPartition, formula
<1>8. CASE PopPreviousClauseSet
  BY <1>8, PopType DEF PopPreviousClauseSet, formula, TopIs, PopSize
<1>9. CASE PostUpdate
  BY <1>9 DEF PostUpdate, formula, clauseSet
<1>10. CASE UnassignLit
  <2>1. frames # <<>> /\ Base \in Nat
    BY <1>10, TopFrame DEF UnassignLit, FrameInv, TopIs
  <2>2. trail # <<>> /\ Len(trail) \in Nat
    BY <1>10, <2>1, EmptySeq, LenProperties DEF UnassignLit
  <2> DEFINE l == trail[Len(trail)]
  <2>3. l \in Literal
    BY <2>2, PopFacts
  <2>4. VarOf(l) \in Var
    BY <2>3, LiteralFacts
  <2>5. trail' \in Seq(Literal)
    BY <1>10, <2>2, RemoveFacts DEF UnassignLit, NextToUndo
  <2>6. nbSat' \in [Idx -> Int] /\ nbUnsat' \in [Idx -> Int]
    BY <1>10 DEF UnassignLit
  <2>7. occList' \in [Literal -> SUBSET Idx]
    BY <1>10, <2>3 DEF UnassignLit, PutBack, NextToUndo
  <2>8. currentValue' \in [Var -> {"undef", "true", "false"}]
    BY <1>10, <2>4 DEF UnassignLit, NextToUndo
  <2> QED
    BY <1>10, <2>5, <2>6, <2>7, <2>8 DEF UnassignLit, clauseSet
<1>11. CASE EndPostUpdate
  BY <1>11, PopType DEF EndPostUpdate, formula, TopIs, PopSize, FrameInv
<1>12. CASE UNCHANGED vars
  BY <1>12 DEF vars, formula, clauseSet
<1> QED
  BY <1>1, <1>2, <1>3, <1>4, <1>5, <1>6, <1>7, <1>8, <1>9, <1>10, <1>11, <1>12 DEF Next

-----------------------------------------------------------------------------
(* What one more assignment changes in the functions of the trail.         *)

\* The first n entries of the trail decide.
LEMMA SamePrefix ==
  ASSUME NEW t, NEW u, NEW n \in Nat, \A k \in 1 .. n : t[k] = u[k]
  PROVE  /\ \A v : AssignedBy(t, v, n) <=> AssignedBy(u, v, n)
         /\ \A c \in Idx : SatBy(t, c, n) <=> SatBy(u, c, n)
         /\ ListsAt(t, n) = ListsAt(u, n)
         /\ SatCount(t, n) = SatCount(u, n)
         /\ UnsatCount(t, n) = UnsatCount(u, n)
<1>1. \A m \in 0 .. n : /\ \A v : AssignedBy(t, v, m) <=> AssignedBy(u, v, m)
                        /\ \A c \in Idx : SatBy(t, c, m) <=> SatBy(u, c, m)
  BY DEF AssignedBy, SatBy
<1>2. \A c \in Idx, x \in Literal : InList(t, c, x, n) <=> InList(u, c, x, n)
  BY <1>1 DEF InList
<1>3. \A c \in Idx : FalseSteps(t, c, n) = FalseSteps(u, c, n)
  BY <1>1 DEF FalseSteps
<1> QED
  BY <1>1, <1>2, <1>3 DEF ListsAt, SatCount, UnsatCount

\* The trail one literal longer.
LEMMA ExtendTrail ==
  ASSUME NEW t, NEW n \in Nat
  PROVE  /\ \A v : AssignedBy(t, v, n + 1) <=> AssignedBy(t, v, n) \/ VarOf(t[n + 1]) = v
         /\ \A c \in Idx : SatBy(t, c, n + 1) <=> SatBy(t, c, n) \/ t[n + 1] \in Lits[c]
         /\ \A c \in Idx, x \in Literal :
              InList(t, c, x, n + 1) <=>
                /\ InList(t, c, x, n)
                /\ t[n + 1] \in Lits[c] => AssignedBy(t, VarOf(x), n + 1)
         /\ \A c \in Idx : FalseSteps(t, c, n + 1) =
              IF -t[n + 1] \in Lits[c] /\ ~SatBy(t, c, n)
              THEN FalseSteps(t, c, n) \cup {n + 1} ELSE FalseSteps(t, c, n)
<1>1. 1 .. n + 1 = (1 .. n) \cup {n + 1}
  OBVIOUS
<1>2. \A v : AssignedBy(t, v, n + 1) <=> AssignedBy(t, v, n) \/ VarOf(t[n + 1]) = v
  BY <1>1 DEF AssignedBy
<1>3. \A c \in Idx : SatBy(t, c, n + 1) <=> SatBy(t, c, n) \/ t[n + 1] \in Lits[c]
  BY <1>1 DEF SatBy
<1>4. \A c \in Idx, x \in Literal :
              InList(t, c, x, n + 1) <=>
                /\ InList(t, c, x, n)
                /\ t[n + 1] \in Lits[c] => AssignedBy(t, VarOf(x), n + 1)
  BY <1>1 DEF InList
<1>5. n + 1 - 1 = n
  OBVIOUS
<1>6. \A c \in Idx : FalseSteps(t, c, n + 1) =
              IF -t[n + 1] \in Lits[c] /\ ~SatBy(t, c, n)
              THEN FalseSteps(t, c, n) \cup {n + 1} ELSE FalseSteps(t, c, n)
  BY <1>1, <1>5 DEF FalseSteps
<1> QED
  BY <1>2, <1>3, <1>4, <1>6

\* Counting the false literals of a clause one by one.
LEMMA FalseStepsCount ==
  ASSUME NEW t, NEW n \in Nat, NEW c \in Idx
  PROVE  /\ IsFiniteSet(FalseSteps(t, c, n))
         /\ Cardinality(FalseSteps(t, c, n)) \in Nat
         /\ Cardinality(FalseSteps(t, c, n + 1)) =
              IF -t[n + 1] \in Lits[c] /\ ~SatBy(t, c, n)
              THEN Cardinality(FalseSteps(t, c, n)) + 1
              ELSE Cardinality(FalseSteps(t, c, n))
<1>1. FalseSteps(t, c, n) \in SUBSET (1 .. n)
  BY DEF FalseSteps
<1>2. IsFiniteSet(1 .. n)
  BY FS_Interval
<1>3. IsFiniteSet(FalseSteps(t, c, n))
  BY <1>1, <1>2, FS_Subset
<1>4. Cardinality(FalseSteps(t, c, n)) \in Nat
  BY <1>3, FS_CardinalityType
<1>5. n + 1 \notin FalseSteps(t, c, n)
  BY <1>1
<1>6. Cardinality(FalseSteps(t, c, n) \cup {n + 1}) = Cardinality(FalseSteps(t, c, n)) + 1
  BY <1>3, <1>5, FS_AddElement
<1> QED
  BY <1>3, <1>4, <1>6, ExtendTrail

\* Of the clauses S, those with literal x.
WithLit(S, x) == {c \in S : x \in Lits[c]}

\* What the lists hold after n and after n + 1 assignments: the list of an
\* unassigned literal its unsatisfied clauses, any other what it held before.
LEMMA ListMembers ==
  ASSUME NEW t \in Seq(Literal), OnceEach(t), NEW n \in Nat, n < Len(t)
  PROVE  /\ \A x \in Literal : AssignedBy(t, VarOf(x), n + 1) => ListsAt(t, n + 1)[x] = ListsAt(t, n)[x]
         /\ \A x \in Literal : ~AssignedBy(t, VarOf(x), n + 1) =>
              /\ ListsAt(t, n)[x] = {c \in Idx : x \in Lits[c] /\ ~SatBy(t, c, n)}
              /\ ListsAt(t, n + 1)[x] = {c \in Idx : x \in Lits[c] /\ ~SatBy(t, c, n + 1)}
         /\ ListsAt(t, n)[t[n + 1]] = {c \in Idx : t[n + 1] \in Lits[c] /\ ~SatBy(t, c, n)}
         /\ ListsAt(t, n)[-t[n + 1]] = {c \in Idx : -t[n + 1] \in Lits[c] /\ ~SatBy(t, c, n)}
         /\ ListsAt(t, n + 1)[t[n + 1]] = ListsAt(t, n)[t[n + 1]]
         /\ ListsAt(t, n + 1)[-t[n + 1]] = ListsAt(t, n)[-t[n + 1]]
<1> DEFINE l == t[n + 1]
<1>1. /\ Len(t) \in Nat /\ n + 1 \in 1 .. Len(t)
      /\ l \in Literal /\ -l \in Literal /\ VarOf(-l) = VarOf(l)
  BY LenProperties, ElementOfSeq, LiteralFacts
<1>2. ~AssignedBy(t, VarOf(l), n)
  BY <1>1 DEF OnceEach, AssignedBy
<1>3. \A m \in 1 .. n : ~AssignedBy(t, VarOf(l), m)
  BY <1>2 DEF AssignedBy
<1>4. \A c \in Idx : InList(t, c, l, n) <=> l \in Lits[c] /\ ~SatBy(t, c, n)
  BY <1>3 DEF InList, SatBy
<1>5. \A c \in Idx : InList(t, c, -l, n) <=> -l \in Lits[c] /\ ~SatBy(t, c, n)
  BY <1>1, <1>3 DEF InList, SatBy
<1>6. \A x \in Literal : ~AssignedBy(t, VarOf(x), n + 1) =>
        /\ \A c \in Idx : InList(t, c, x, n) <=> x \in Lits[c] /\ ~SatBy(t, c, n)
        /\ \A c \in Idx : InList(t, c, x, n + 1) <=> x \in Lits[c] /\ ~SatBy(t, c, n + 1)
  <2>1. \A x \in Literal : ~AssignedBy(t, VarOf(x), n + 1) =>
          \A m \in 1 .. n + 1 : ~AssignedBy(t, VarOf(x), m)
    BY DEF AssignedBy
  <2> QED
    BY <2>1 DEF InList, SatBy
<1>7. \A x \in Literal : AssignedBy(t, VarOf(x), n + 1) =>
        \A c \in Idx : InList(t, c, x, n + 1) <=> InList(t, c, x, n)
  BY ExtendTrail
<1>8. AssignedBy(t, VarOf(l), n + 1) /\ AssignedBy(t, VarOf(-l), n + 1)
  BY <1>1 DEF AssignedBy
<1>9. \A x \in Literal : AssignedBy(t, VarOf(x), n + 1) => ListsAt(t, n + 1)[x] = ListsAt(t, n)[x]
  BY <1>7 DEF ListsAt
<1>10. /\ ListsAt(t, n)[l] = {c \in Idx : l \in Lits[c] /\ ~SatBy(t, c, n)}
       /\ ListsAt(t, n)[-l] = {c \in Idx : -l \in Lits[c] /\ ~SatBy(t, c, n)}
  BY <1>1, <1>4, <1>5 DEF ListsAt
<1>11. \A x \in Literal : ~AssignedBy(t, VarOf(x), n + 1) =>
          /\ ListsAt(t, n)[x] = {c \in Idx : x \in Lits[c] /\ ~SatBy(t, c, n)}
          /\ ListsAt(t, n + 1)[x] = {c \in Idx : x \in Lits[c] /\ ~SatBy(t, c, n + 1)}
  BY <1>6 DEF ListsAt
<1> QED
  BY <1>1, <1>8, <1>9, <1>10, <1>11

\* The update preUpdate makes for one literal leads from the lists and counters
\* of n assignments to those of n + 1.
LEMMA ListsStep ==
  ASSUME NEW t \in Seq(Literal), OnceEach(t), NEW n \in Nat, n < Len(t)
  PROVE  /\ \A x \in Literal : ListsAt(t, n + 1)[x] =
               IF AssignedBy(t, VarOf(x), n + 1) THEN ListsAt(t, n)[x]
               ELSE ListsAt(t, n)[x] \ WithLit(ListsAt(t, n)[t[n + 1]], x)
         /\ \A c \in Idx : SatCount(t, n + 1)[c] =
               IF c \in ListsAt(t, n)[t[n + 1]] THEN SatCount(t, n)[c] + 1 ELSE SatCount(t, n)[c]
         /\ \A c \in Idx : UnsatCount(t, n + 1)[c] =
               IF c \in ListsAt(t, n)[-t[n + 1]] THEN UnsatCount(t, n)[c] + 1 ELSE UnsatCount(t, n)[c]
<1>1. \A c \in Idx : SatBy(t, c, n + 1) <=> SatBy(t, c, n) \/ t[n + 1] \in Lits[c]
  BY ExtendTrail
<1>2. /\ ListsAt(t, n)[t[n + 1]] = {c \in Idx : t[n + 1] \in Lits[c] /\ ~SatBy(t, c, n)}
      /\ ListsAt(t, n)[-t[n + 1]] = {c \in Idx : -t[n + 1] \in Lits[c] /\ ~SatBy(t, c, n)}
  BY ListMembers
<1>3. \A x \in Literal : AssignedBy(t, VarOf(x), n + 1) => ListsAt(t, n + 1)[x] = ListsAt(t, n)[x]
  BY ListMembers
<1>4. \A x \in Literal : ~AssignedBy(t, VarOf(x), n + 1) =>
        ListsAt(t, n + 1)[x] = ListsAt(t, n)[x] \ WithLit(ListsAt(t, n)[t[n + 1]], x)
  BY <1>1, <1>2, ListMembers DEF WithLit
<1>5. \A c \in Idx : SatCount(t, n + 1)[c] =
        IF c \in ListsAt(t, n)[t[n + 1]] THEN SatCount(t, n)[c] + 1 ELSE SatCount(t, n)[c]
  BY <1>1, <1>2 DEF SatCount
<1>6. \A c \in Idx : UnsatCount(t, n + 1)[c] =
        IF c \in ListsAt(t, n)[-t[n + 1]] THEN UnsatCount(t, n)[c] + 1 ELSE UnsatCount(t, n)[c]
  BY <1>2, FalseStepsCount DEF UnsatCount
<1> QED
  BY <1>3, <1>4, <1>5, <1>6

\* The update postUpdate makes for one literal is the way back.
LEMMA UndoListsStep ==
  ASSUME NEW t \in Seq(Literal), OnceEach(t), NEW n \in Nat, n < Len(t), NEW x \in Literal
  PROVE  ListsAt(t, n)[x] =
           IF AssignedBy(t, VarOf(x), n + 1) THEN ListsAt(t, n + 1)[x]
           ELSE ListsAt(t, n + 1)[x] \cup WithLit(ListsAt(t, n + 1)[t[n + 1]], x)
<1>1. \A c \in Idx : SatBy(t, c, n + 1) <=> SatBy(t, c, n) \/ t[n + 1] \in Lits[c]
  BY ExtendTrail
<1>2. ListsAt(t, n + 1)[t[n + 1]] = {c \in Idx : t[n + 1] \in Lits[c] /\ ~SatBy(t, c, n)}
  BY ListMembers
<1>3. CASE AssignedBy(t, VarOf(x), n + 1)
  BY <1>3, ListMembers
<1>4. CASE ~AssignedBy(t, VarOf(x), n + 1)
  BY <1>1, <1>2, <1>4, ListMembers DEF WithLit
<1> QED
  BY <1>3, <1>4

-----------------------------------------------------------------------------
(* The two steps that change the assignment.                               *)

\* One literal of preUpdate's argument moves to the end of the trail.
LEMMA AssignFacts ==
  ASSUME TypeOK, LitsInv, AssignLit
  PROVE  LET l == Head(lits)
             n == Len(trail)
         IN  /\ n \in Nat /\ l \in Literal /\ Undef(l)
             /\ trail' \in Seq(Literal) /\ Len(trail') = n + 1 /\ trail'[n + 1] = l
             /\ \A k \in 1 .. n : trail'[k] = trail[k]
             /\ Len(lits) \in Nat /\ lits[1] = l /\ Len(lits') = Len(lits) - 1
             /\ \A k \in 1 .. Len(lits') : lits'[k] = lits[k + 1]
<1>1. lits \in Seq(Literal) /\ lits # <<>> /\ trail \in Seq(Literal)
  BY DEF TypeOK, AssignLit
<1>2. /\ Head(lits) \in Literal /\ Head(lits) = lits[1] /\ Len(lits) \in Nat \ {0}
      /\ Len(Tail(lits)) = Len(lits) - 1
      /\ \A k \in 1 .. Len(Tail(lits)) : Tail(lits)[k] = lits[k + 1]
  BY <1>1, HeadTailProperties, EmptySeq
<1>3. Undef(Head(lits))
  BY <1>2 DEF LitsInv
<1>4. trail' = Append(trail, Head(lits)) /\ lits' = Tail(lits)
  BY DEF AssignLit
<1> QED
  BY <1>1, <1>2, <1>3, <1>4, PushFacts

\* The last literal of the trail leaves it.
LEMMA UnassignFacts ==
  ASSUME TypeOK, FrameInv, UnassignLit
  PROVE  LET n == Len(trail) - 1
             l == trail[Len(trail)]
         IN  /\ n \in Nat /\ n + 1 = Len(trail) /\ l \in Literal
             /\ trail' \in Seq(Literal) /\ Len(trail') = n
             /\ \A k \in 1 .. n : trail'[k] = trail[k]
             /\ frames # <<>> /\ Base \in Nat /\ Base <= n
             /\ NextToUndo = n + 1
<1>1. frames # <<>> /\ Base \in Nat /\ Len(trail) > Base
  BY TopFrame DEF UnassignLit, FrameInv, TopIs
<1>2. trail \in Seq(Literal) /\ trail # <<>> /\ Len(trail) \in Nat \ {0}
  BY <1>1, EmptySeq, LenProperties DEF TypeOK
<1>3. trail' = Remove(trail, Len(trail))
  BY DEF UnassignLit, NextToUndo
<1> QED
  BY <1>1, <1>2, <1>3, PopFacts, RemoveFacts DEF NextToUndo

\* Every other step leaves the assignment, the lists and the counters alone.
LEMMA OtherSteps ==
  ASSUME [Next]_vars
  PROVE  AssignLit \/ UnassignLit \/ UNCHANGED <<currentValue, nbSat, nbUnsat, occList, trail>>
BY DEF Next, vars, formula, clauseSet, PreUpdate, ReviewWatchers, UpdateCurrentClauseSet,
       KeepClause, DropClause, EndPartition, PopPreviousClauseSet, PostUpdate, EndPostUpdate

\* The trail stays the current assignment.
LEMMA TrailStep ==
  ASSUME IInv, [Next]_vars
  PROVE  TrailInv'
<1> USE DEF IInv
<1>1. CASE AssignLit
  <2> DEFINE l == Head(lits)
             n == Len(trail)
  <2>1. /\ n \in Nat /\ l \in Literal /\ Undef(l)
        /\ Len(trail') = n + 1 /\ trail'[n + 1] = l
        /\ \A k \in 1 .. n : trail'[k] = trail[k]
    BY <1>1, AssignFacts
  <2>2. VarOf(l) \in Var /\ TruthOf(l) # "undef"
    BY <2>1, LiteralFacts
  <2>3. \A k \in 1 .. n : trail[k] \in Literal
    BY <2>1, ElementOfSeq DEF TypeOK
  <2>4. \A k \in 1 .. n : VarOf(trail[k]) \in Var /\ VarOf(trail[k]) # VarOf(l)
    BY <2>1, <2>3, LiteralFacts DEF TrailInv, Undef
  <2>5. currentValue' = [currentValue EXCEPT ![VarOf(l)] = TruthOf(l)]
    BY <1>1 DEF AssignLit
  <2> HIDE DEF l, n
  <2>6. \A k \in 1 .. n + 1 : currentValue'[VarOf(trail'[k])] = TruthOf(trail'[k])
    <3>1. \A k \in 1 .. n : currentValue[VarOf(trail[k])] = TruthOf(trail[k])
      BY DEF TrailInv, n
    <3>2. \A v \in Var : v # VarOf(l) => currentValue'[v] = currentValue[v]
      BY <2>5 DEF TypeOK
    <3>3. \A k \in 1 .. n : currentValue'[VarOf(trail[k])] = TruthOf(trail[k])
      BY <2>4, <3>1, <3>2
    <3>4. \A k \in 1 .. n : currentValue'[VarOf(trail'[k])] = TruthOf(trail'[k])
      BY <2>1, <3>3
    <3>5. currentValue'[VarOf(l)] = TruthOf(l)
      BY <2>2, <2>5 DEF TypeOK
    <3>6. \A k \in 1 .. n + 1 : k \in 1 .. n \/ k = n + 1
      BY <2>1
    <3> QED
      BY <2>1, <3>4, <3>5, <3>6
  <2>7. OnceEach(trail')
    BY <2>1, <2>4 DEF TrailInv, OnceEach, n
  <2>8. \A v \in Var : currentValue'[v] # "undef" => AssignedBy(trail', v, n + 1)
    <3>1. \A v \in Var : AssignedBy(trail, v, n) => AssignedBy(trail', v, n + 1)
      BY <2>1, SamePrefix, ExtendTrail
    <3>2. AssignedBy(trail', VarOf(l), n + 1)
      BY <2>1 DEF AssignedBy
    <3> QED
      BY <2>2, <2>5, <3>1, <3>2 DEF TypeOK, TrailInv, n
  <2> QED
    BY <2>1, <2>6, <2>7, <2>8 DEF TrailInv
<1>2. CASE UnassignLit
  <2> DEFINE n == Len(trail) - 1
             l == trail[Len(trail)]
  <2>1. /\ n \in Nat /\ n + 1 = Len(trail) /\ l \in Literal
        /\ Len(trail') = n
        /\ \A k \in 1 .. n : trail'[k] = trail[k]
        /\ NextToUndo = n + 1
    BY <1>2, UnassignFacts
  <2>2. VarOf(l) \in Var
    BY <2>1, LiteralFacts
  <2>3. currentValue' = [currentValue EXCEPT ![VarOf(l)] = "undef"]
    BY <1>2, <2>1 DEF UnassignLit
  <2>4. \A k \in 1 .. n : VarOf(trail[k]) \in Var /\ VarOf(trail[k]) # VarOf(l)
    <3>1. \A k \in 1 .. n : trail[k] \in Literal
      BY <2>1, ElementOfSeq DEF TypeOK
    <3> QED
      BY <2>1, <3>1, LiteralFacts DEF TrailInv, OnceEach
  <2>5. l = trail[n + 1]
    BY <2>1
  <2> HIDE DEF l, n
  <2>6. \A k \in 1 .. n : currentValue'[VarOf(trail'[k])] = TruthOf(trail'[k])
    <3>1. \A k \in 1 .. n : currentValue[VarOf(trail[k])] = TruthOf(trail[k])
      BY <2>1 DEF TrailInv
    <3>2. \A v \in Var : v # VarOf(l) => currentValue'[v] = currentValue[v]
      BY <2>3 DEF TypeOK
    <3>3. \A k \in 1 .. n : currentValue'[VarOf(trail[k])] = TruthOf(trail[k])
      BY <2>4, <3>1, <3>2
    <3> QED
      BY <2>1, <3>3
  <2>7. OnceEach(trail')
    BY <2>1 DEF TrailInv, OnceEach
  <2>8. \A v \in Var : currentValue'[v] # "undef" => AssignedBy(trail', v, n)
    <3>1. \A v \in Var : AssignedBy(trail, v, n + 1) =>
            AssignedBy(trail', v, n) \/ v = VarOf(l)
      BY <2>1, <2>5, SamePrefix, ExtendTrail
    <3> QED
      BY <2>1, <2>2, <2>3, <3>1 DEF TypeOK, TrailInv
  <2> QED
    BY <2>1, <2>6, <2>7, <2>8 DEF TrailInv
<1>3. CASE UNCHANGED <<currentValue, trail>>
  BY <1>3 DEF TrailInv, OnceEach, AssignedBy
<1> QED
  BY <1>1, <1>2, <1>3, OtherSteps

\* Lists and counters stay the ones the trail determines.
LEMMA CountStep ==
  ASSUME IInv, [Next]_vars
  PROVE  CountInv'
<1> USE DEF IInv
<1>1. TypeOK' /\ TrailInv'
  BY TypeStep, TrailStep
<1>2. CASE AssignLit
  <2> DEFINE l == Head(lits)
             n == Len(trail)
  <2>1. /\ n \in Nat /\ l \in Literal /\ trail' \in Seq(Literal)
        /\ Len(trail') = n + 1 /\ trail'[n + 1] = l
        /\ \A k \in 1 .. n : trail'[k] = trail[k]
    BY <1>2, AssignFacts
  <2>2. OnceEach(trail')
    BY <1>1 DEF TrailInv
  <2>3. /\ occList = ListsAt(trail', n) /\ nbSat = SatCount(trail', n)
        /\ nbUnsat = UnsatCount(trail', n)
    BY <2>1, SamePrefix DEF CountInv
  <2>4. \A x \in Literal : currentValue'[VarOf(x)] = "undef" <=> ~AssignedBy(trail', VarOf(x), n + 1)
    <3>1. \A k \in 1 .. n + 1 : trail'[k] \in Literal
      BY <2>1, ElementOfSeq
    <3>2. \A k \in 1 .. n + 1 : currentValue'[VarOf(trail'[k])] # "undef"
      BY <1>1, <2>1, <3>1, LiteralFacts DEF TrailInv
    <3> QED
      BY <1>1, <2>1, <3>2, LiteralFacts DEF TrailInv, AssignedBy
  <2>5. -l \in Literal
    BY <2>1, LiteralFacts
  <2>6. /\ occList' = [x \in Literal |-> IF currentValue'[VarOf(x)] = "undef"
                                         THEN occList[x] \ TakenOut(x, l) ELSE occList[x]]
        /\ nbSat' = [c \in Idx |-> IF c \in occList[l] THEN nbSat[c] + 1 ELSE nbSat[c]]
        /\ nbUnsat' = [c \in Idx |-> IF c \in occList[-l] THEN nbUnsat[c] + 1 ELSE nbUnsat[c]]
    BY <1>2 DEF AssignLit
  <2> HIDE DEF l, n
  <2>7. n < Len(trail')
    BY <2>1
  <2>8. \A x \in Literal : ListsAt(trail', n + 1)[x] =
          IF AssignedBy(trail', VarOf(x), n + 1) THEN occList[x]
          ELSE occList[x] \ WithLit(occList[l], x)
    <3>1. \A x \in Literal : ListsAt(trail', n + 1)[x] =
            IF AssignedBy(trail', VarOf(x), n + 1) THEN ListsAt(trail', n)[x]
            ELSE ListsAt(trail', n)[x] \ WithLit(ListsAt(trail', n)[trail'[n + 1]], x)
      <4>1. trail' \in Seq(Literal) /\ n \in Nat /\ n < Len(trail') /\ OnceEach(trail')
        BY <2>1, <2>2, <2>7
      <4> QED
        BY <4>1, ListsStep
    <3>2. ListsAt(trail', n)[l] = occList[l] /\ trail'[n + 1] = l
      BY <2>1, <2>3
    <3> QED
      BY <2>3, <3>1, <3>2
  <2>9. \A c \in Idx :
          /\ SatCount(trail', n + 1)[c] = IF c \in occList[l] THEN nbSat[c] + 1 ELSE nbSat[c]
          /\ UnsatCount(trail', n + 1)[c] = IF c \in occList[-l] THEN nbUnsat[c] + 1 ELSE nbUnsat[c]
    BY <2>1, <2>2, <2>3, <2>7, ListsStep
  <2>10. occList' = ListsAt(trail', n + 1)
    BY <2>4, <2>6, <2>8 DEF ListsAt, TakenOut, WithLit
  <2>11. nbSat' = SatCount(trail', n + 1) /\ nbUnsat' = UnsatCount(trail', n + 1)
    BY <2>6, <2>9 DEF SatCount, UnsatCount
  <2> QED
    BY <2>1, <2>10, <2>11 DEF CountInv
<1>3. CASE UnassignLit
  <2> DEFINE n == Len(trail) - 1
             l == trail[Len(trail)]
  <2>1. /\ n \in Nat /\ n + 1 = Len(trail) /\ l \in Literal
        /\ Len(trail') = n
        /\ \A k \in 1 .. n : trail'[k] = trail[k]
        /\ NextToUndo = n + 1
    BY <1>3, UnassignFacts
  <2>2. OnceEach(trail) /\ trail \in Seq(Literal) /\ n < Len(trail) /\ l = trail[n + 1]
    BY <2>1 DEF TrailInv, TypeOK
  <2>3. /\ occList = ListsAt(trail, n + 1) /\ nbSat = SatCount(trail, n + 1)
        /\ nbUnsat = UnsatCount(trail, n + 1)
    BY <2>1 DEF CountInv
  <2>4. \A x \in Literal : Undef(x) <=> ~AssignedBy(trail, VarOf(x), n + 1)
    <3>1. \A k \in 1 .. n + 1 : trail[k] \in Literal
      BY <2>1, <2>2, ElementOfSeq
    <3>2. \A k \in 1 .. n + 1 : currentValue[VarOf(trail[k])] # "undef"
      BY <2>1, <3>1, LiteralFacts DEF TrailInv
    <3> QED
      BY <2>1, <3>2, LiteralFacts DEF TrailInv, AssignedBy, Undef
  <2>5. /\ occList' = [x \in Literal |-> IF Undef(x) THEN occList[x] \cup PutBack(x, l)
                                                     ELSE occList[x]]
        /\ nbSat' = [c \in Idx |-> IF c \in occList[l] THEN nbSat[c] - 1 ELSE nbSat[c]]
        /\ nbUnsat' = [c \in Idx |-> IF c \in occList[-l] THEN nbUnsat[c] - 1 ELSE nbUnsat[c]]
    BY <1>3, <2>1 DEF UnassignLit
  <2> HIDE DEF l, n
  <2>6. \A x \in Literal : ListsAt(trail, n)[x] =
          IF AssignedBy(trail, VarOf(x), n + 1) THEN occList[x]
          ELSE occList[x] \cup WithLit(occList[l], x)
    <3>1. \A x \in Literal : ListsAt(trail, n)[x] =
            IF AssignedBy(trail, VarOf(x), n + 1) THEN ListsAt(trail, n + 1)[x]
            ELSE ListsAt(trail, n + 1)[x] \cup WithLit(ListsAt(trail, n + 1)[trail[n + 1]], x)
      BY <2>1, <2>2, UndoListsStep
    <3> QED
      BY <2>2, <2>3, <3>1
  <2>7. \A c \in Idx :
          /\ nbSat[c] = IF c \in occList[l] THEN SatCount(trail, n)[c] + 1 ELSE SatCount(trail, n)[c]
          /\ nbUnsat[c] = IF c \in occList[-l] THEN UnsatCount(trail, n)[c] + 1
                                               ELSE UnsatCount(trail, n)[c]
    <3>1. occList[l] = ListsAt(trail, n)[trail[n + 1]] /\ occList[-l] = ListsAt(trail, n)[-trail[n + 1]]
      BY <2>1, <2>2, <2>3, ListMembers
    <3> QED
      BY <2>1, <2>2, <2>3, <3>1, ListsStep
  <2>8. \A c \in Idx : SatCount(trail, n)[c] \in Nat /\ UnsatCount(trail, n)[c] \in Nat
    BY <2>1, FalseStepsCount DEF SatCount, UnsatCount
  <2>9. occList' = ListsAt(trail, n)
    BY <2>4, <2>5, <2>6 DEF ListsAt, PutBack, WithLit
  <2>10. nbSat' = SatCount(trail, n) /\ nbUnsat' = UnsatCount(trail, n)
    <3>1. \A c \in Idx : nbSat'[c] = SatCount(trail, n)[c] /\ nbUnsat'[c] = UnsatCount(trail, n)[c]
      BY <2>5, <2>7, <2>8
    <3> QED
      BY <2>5, <3>1 DEF SatCount, UnsatCount
  <2> QED
    BY <2>1, <2>9, <2>10, SamePrefix DEF CountInv
<1>4. CASE UNCHANGED <<currentValue, nbSat, nbUnsat, occList, trail>>
  BY <1>4 DEF CountInv
<1> QED
  BY <1>2, <1>3, <1>4, OtherSteps

\* Assigned and satisfied, read off the trail.
LEMMA ReadTrail ==
  ASSUME TypeOK, TrailInv
  PROVE  /\ Len(trail) \in Nat
         /\ \A k \in 1 .. Len(trail) : trail[k] \in Literal
         /\ \A v \in Var : currentValue[v] = "undef" <=> ~AssignedBy(trail, v, Len(trail))
         /\ \A x \in Literal : LitTrue(x) <=> \E k \in 1 .. Len(trail) : trail[k] = x
         /\ \A c \in Idx : Satisfied(c) <=> SatBy(trail, c, Len(trail))
<1>1. Len(trail) \in Nat /\ \A k \in 1 .. Len(trail) : trail[k] \in Literal
  BY LenProperties, ElementOfSeq DEF TypeOK
<1>2. \A k \in 1 .. Len(trail) : /\ VarOf(trail[k]) \in Var
                                 /\ currentValue[VarOf(trail[k])] = TruthOf(trail[k])
                                 /\ TruthOf(trail[k]) # "undef"
  BY <1>1, LiteralFacts DEF TrailInv
<1>3. \A v \in Var : currentValue[v] = "undef" <=> ~AssignedBy(trail, v, Len(trail))
  BY <1>2 DEF TrailInv, AssignedBy
<1>4. ASSUME NEW x \in Literal
      PROVE  LitTrue(x) <=> \E k \in 1 .. Len(trail) : trail[k] = x
  <2>1. VarOf(x) \in Var /\ TruthOf(x) # "undef" /\ TruthOf(x) # TruthOf(-x)
    BY LiteralFacts
  <2>2. ASSUME LitTrue(x)
        PROVE  \E k \in 1 .. Len(trail) : trail[k] = x
    <3>1. PICK k \in 1 .. Len(trail) : VarOf(trail[k]) = VarOf(x)
      BY <1>3, <2>1, <2>2 DEF AssignedBy, LitTrue
    <3>2. trail[k] = x \/ trail[k] = -x
      BY <1>1, <3>1, SameVar
    <3>3. TruthOf(trail[k]) = TruthOf(x)
      BY <1>2, <2>2, <3>1 DEF LitTrue
    <3> QED
      BY <2>1, <3>2, <3>3
  <2> QED
    BY <1>2, <2>2 DEF LitTrue
<1>5. \A c \in Idx : Satisfied(c) <=> SatBy(trail, c, Len(trail))
  BY <1>4, ClauseFacts DEF Satisfied, SatBy
<1> QED
  BY <1>1, <1>3, <1>4, <1>5

\* What preUpdate has left to assign stays free of assigned literals and of
\* conflicts.
LEMMA LitsStep ==
  ASSUME IInv, [Next]_vars
  PROVE  LitsInv'
<1> USE DEF IInv
<1>1. ASSUME NEW ls \in Batches, PreUpdate(ls)
      PROVE  LitsInv'
  <2>1. /\ lits' = ls /\ currentValue' = currentValue /\ pc' = "assign" /\ Batch(ls)
    BY <1>1 DEF PreUpdate, formula
  <2> QED
    BY <2>1 DEF LitsInv, Batch, OnceEach, FalsifiedAfter, LitTrue, Undef
<1>2. CASE AssignLit
  <2> DEFINE l == Head(lits)
  <2>1. /\ l \in Literal /\ Len(lits) \in Nat /\ lits[1] = l /\ Len(lits') = Len(lits) - 1
        /\ \A k \in 1 .. Len(lits') : lits'[k] = lits[k + 1]
        /\ lits # <<>>
    BY <1>2, AssignFacts DEF AssignLit
  <2>2. currentValue' = [currentValue EXCEPT ![VarOf(l)] = TruthOf(l)] /\ pc' = "assign"
    BY <1>2 DEF AssignLit
  <2>3. VarOf(l) \in Var
    BY <2>1, LiteralFacts
  <2>4. 1 \in 1 .. Len(lits) /\ \A k \in 1 .. Len(lits') : k + 1 \in 1 .. Len(lits) /\ k + 1 # 1
    BY <2>1, EmptySeq DEF TypeOK
  <2>5. \A k \in 1 .. Len(lits') : VarOf(lits[k + 1]) # VarOf(l) /\ VarOf(lits[k + 1]) \in Var
    <3>1. \A k \in 1 .. Len(lits) : lits[k] \in Literal
      BY ElementOfSeq DEF TypeOK
    <3> QED
      BY <2>1, <2>4, <3>1, LiteralFacts DEF LitsInv, OnceEach
  <2> HIDE DEF l
  <2>6. \A v \in Var : v # VarOf(l) => currentValue'[v] = currentValue[v]
    BY <2>2 DEF TypeOK
  <2>7. \A k \in 1 .. Len(lits') : Undef(lits[k + 1])
    BY <2>4 DEF LitsInv
  <2>8. \A k \in 1 .. Len(lits') : currentValue'[VarOf(lits'[k])] = "undef"
    BY <2>1, <2>5, <2>6, <2>7 DEF Undef
  <2>9. OnceEach(lits')
    BY <2>1, <2>4 DEF LitsInv, OnceEach
  <2>10. \A x \in Literal : currentValue'[VarOf(x)] = TruthOf(x) => LitTrue(x) \/ x = l
    <3>1. \A x \in Literal : VarOf(x) # VarOf(l) /\ currentValue'[VarOf(x)] = TruthOf(x) => LitTrue(x)
      BY <2>6, LiteralFacts DEF LitTrue
    <3>2. \A x \in Literal : VarOf(x) = VarOf(l) => x = l \/ x = -l
      BY <2>1, SameVar
    <3>3. currentValue'[VarOf(l)] = TruthOf(l)
      BY <2>2, <2>3 DEF TypeOK
    <3>4. TruthOf(l) # TruthOf(-l) /\ VarOf(-l) = VarOf(l)
      BY <2>1, LiteralFacts
    <3> QED
      BY <3>1, <3>2, <3>3, <3>4
  <2>11. ASSUME NEW c \in Idx, FalsifiedAfter(c, lits)'
         PROVE  FalsifiedAfter(c, lits)
    <3>1. \A x \in Lits[c] : -x \in Literal
      BY ClauseFacts, LiteralFacts
    <3>2. \A x \in Lits[c] : currentValue'[VarOf(-x)] = TruthOf(-x)
                             \/ \E k \in 1 .. Len(lits') : lits'[k] = -x
      BY <2>11 DEF FalsifiedAfter, LitTrue
    <3>3. \A x \in Lits[c] : LitTrue(-x) \/ -x = l
                             \/ \E k \in 1 .. Len(lits') : lits[k + 1] = -x
      BY <2>1, <2>10, <3>1, <3>2
    <3>4. \A x \in Lits[c] : LitTrue(-x) \/ \E k \in 1 .. Len(lits) : lits[k] = -x
      BY <2>1, <2>4, <3>3
    <3> QED
      BY <3>4 DEF FalsifiedAfter
  <2> QED
    BY <2>2, <2>8, <2>9, <2>11 DEF LitsInv, Undef
<1>3. CASE ReviewWatchers
  BY <1>3 DEF ReviewWatchers, LitsInv, StartPartition, FalsifiedAfter, LitTrue, Undef, OnceEach
<1>4. CASE UnassignLit
  <2> DEFINE l == trail[Len(trail)]
  <2>1. l \in Literal /\ currentValue' = [currentValue EXCEPT ![VarOf(l)] = "undef"]
    BY <1>4, UnassignFacts DEF UnassignLit, NextToUndo
  <2>2. lits' = lits /\ reviewWatcher' = reviewWatcher /\ pc' = "unassign" /\ pc = "unassign"
    BY <1>4 DEF UnassignLit
  <2>3. lits = <<>> /\ reviewWatcher = {}
    BY <2>2 DEF LitsInv
  <2> HIDE DEF l
  <2>4. \A x \in Literal : currentValue'[VarOf(x)] = TruthOf(x) => LitTrue(x)
    BY <2>1, LiteralFacts DEF TypeOK, LitTrue
  <2>5. ASSUME NEW c \in Idx, FalsifiedAfter(c, lits)'
        PROVE  FalsifiedAfter(c, lits)
    <3>1. \A x \in Lits[c] : -x \in Literal
      BY ClauseFacts, LiteralFacts
    <3> QED
      BY <2>2, <2>4, <2>5, <3>1 DEF FalsifiedAfter, LitTrue
  <2>6. Len(lits') = 0 /\ 1 .. Len(lits') = {}
    BY <2>2, <2>3
  <2>7. \A c \in Idx : ~FalsifiedAfter(c, lits)'
    BY <2>5 DEF LitsInv
  <2> QED
    BY <2>2, <2>3, <2>6, <2>7 DEF LitsInv, OnceEach
<1>5. CASE UNCHANGED <<currentValue, lits, reviewWatcher>> /\ (pc = "assign" => pc' = "assign")
  <2>1. \A c \in Idx : FalsifiedAfter(c, lits)' <=> FalsifiedAfter(c, lits)
    BY <1>5 DEF FalsifiedAfter, LitTrue
  <2>2. OnceEach(lits)' <=> OnceEach(lits)
    BY <1>5 DEF OnceEach
  <2>3. \A k \in 1 .. Len(lits) : Undef(lits[k])' <=> Undef(lits[k])
    BY <1>5 DEF Undef
  <2> QED
    BY <1>5, <2>1, <2>2, <2>3 DEF LitsInv
<1>6. \/ \E ls \in Batches : PreUpdate(ls)
      \/ AssignLit \/ ReviewWatchers \/ UnassignLit
      \/ UNCHANGED <<currentValue, lits, reviewWatcher>> /\ (pc = "assign" => pc' = "assign")
  BY DEF Next, vars, formula, clauseSet, UpdateCurrentClauseSet, StartPartition,
         KeepClause, DropClause, EndPartition, Partitioning, PopPreviousClauseSet, PostUpdate,
         EndPostUpdate
<1> QED
  BY <1>1, <1>2, <1>3, <1>4, <1>5, <1>6

\* The frames of pending calls.
LEMMA FrameFacts ==
  ASSUME TypeOK
  PROVE  /\ Len(frames) \in Nat /\ DOMAIN frames = 1 .. Len(frames)
         /\ \A f \in 1 .. Len(frames) : frames[f] \in Frame /\ frames[f].base \in Nat
         /\ TopIs("lits") => frames # <<>> /\ Len(frames) \in 1 .. Len(frames)
                              /\ frames[Len(frames)].kind = "lits"
         /\ TopIs("component") => frames # <<>> /\ Len(frames) \in 1 .. Len(frames)
                              /\ frames[Len(frames)].kind = "component"
<1>1. frames \in Seq(Frame)
  BY DEF TypeOK, Frame
<1>2. Len(frames) \in Nat /\ DOMAIN frames = 1 .. Len(frames) /\ (frames # <<>> => Len(frames) # 0)
  BY <1>1, LenProperties, EmptySeq
<1>3. \A f \in 1 .. Len(frames) : frames[f] \in Frame
  BY <1>1, ElementOfSeq
<1> QED
  BY <1>2, <1>3 DEF TopIs, Frame

\* A call that starts pushes what its undo has to bring back.
LEMMA FramePush ==
  ASSUME IInv, NEW kind \in {"lits", "component"}, NEW scope \in SUBSET Var,
         PushFrame(kind, scope), trail' = trail,
         kind = "component" => TopIs("lits"), pc = "idle",
         kind = "lits" => pc' \in {"assign", "keepUnsatisfied", "unassign"},
         kind = "component" => pc' = "keepComponent"
  PROVE  FrameInv'
<1> USE DEF IInv
<1> DEFINE m == Len(frames)
<1>1. /\ m \in Nat /\ frames' \in Seq(Frame) /\ Len(frames') = m + 1
      /\ \A f \in 1 .. m : frames'[f] = frames[f]
      /\ frames'[m + 1] = [kind |-> kind, base |-> Len(trail), scope |-> scope, saved |-> Observed]
  BY PushFrameType, FrameFacts
<1>2. DOMAIN frames = 1 .. m /\ DOMAIN frames' = (1 .. m) \cup {m + 1} /\ frames' # <<>>
  BY <1>1, FrameFacts, LenProperties, EmptySeq
<1>3. /\ frames'[m + 1].kind = kind /\ frames'[m + 1].base = Len(trail)
      /\ frames'[m + 1].saved = Observed
  BY <1>1
<1>4. /\ Observed.occList = ListsAt(trail, Len(trail)) /\ Observed.nbSat = SatCount(trail, Len(trail))
      /\ Observed.nbUnsat = UnsatCount(trail, Len(trail))
  BY DEF Observed, CountInv
<1>5. Len(trail) \in Nat /\ \A f \in 1 .. m : frames[f].base \in Nat
  BY ReadTrail, FrameFacts
<1>6. \A f \in DOMAIN frames' :
        /\ frames'[f].base <= Len(trail)
        /\ frames'[f].saved.occList = ListsAt(trail, frames'[f].base)
        /\ frames'[f].saved.nbSat = SatCount(trail, frames'[f].base)
        /\ frames'[f].saved.nbUnsat = UnsatCount(trail, frames'[f].base)
  <2>1. \A f \in 1 .. m :
          /\ frames[f].base <= Len(trail)
          /\ frames[f].saved.occList = ListsAt(trail, frames[f].base)
          /\ frames[f].saved.nbSat = SatCount(trail, frames[f].base)
          /\ frames[f].saved.nbUnsat = UnsatCount(trail, frames[f].base)
    BY <1>2 DEF FrameInv
  <2> HIDE DEF m
  <2> QED
    BY <1>1, <1>2, <1>3, <1>4, <1>5, <2>1
<1>7. \A f, g \in DOMAIN frames' : f <= g => frames'[f].base <= frames'[g].base
  <2>1. \A f, g \in 1 .. m : f <= g => frames[f].base <= frames[g].base
    BY <1>2 DEF FrameInv
  <2>2. \A f \in 1 .. m : frames[f].base <= Len(trail)
    BY <1>2 DEF FrameInv
  <2> HIDE DEF m
  <2> QED
    BY <1>1, <1>2, <1>3, <1>5, <2>1, <2>2
<1>8. \A f \in DOMAIN frames' : frames'[f].kind = "component" =>
        IF f = m + 1 THEN frames'[f].base = Len(trail) ELSE frames'[f + 1].base = frames'[f].base
  <2>1. \A f \in 1 .. m : frames[f].kind = "component" =>
          IF f = m THEN frames[f].base = Len(trail) ELSE frames[f + 1].base = frames[f].base
    BY <1>2 DEF FrameInv
  <2> HIDE DEF m
  <2>2. \A f \in 1 .. m : f # m => f + 1 \in 1 .. m
    BY <1>1
  <2> QED
    BY <1>1, <1>2, <1>3, <2>1, <2>2
<1>9. (TopIs(kind))'
  BY <1>1, <1>2, <1>3 DEF TopIs
<1>10. /\ pc' \in {"assign", "keepUnsatisfied", "unassign"} => TopIs("lits")'
       /\ pc' = "keepComponent" => TopIs("component")'
  BY <1>9
<1> QED
  BY <1>1, <1>6, <1>7, <1>8, <1>10 DEF FrameInv

\* A call that has been undone takes its frame away.
LEMMA FramePop ==
  ASSUME IInv, frames # <<>>, PopFrame, trail' = trail, Len(trail) = Base, pc' = "idle"
  PROVE  FrameInv'
<1> USE DEF IInv
<1> DEFINE m == Len(frames) - 1
<1>1. frames \in Seq(Frame)
  BY DEF TypeOK, Frame
<1>2. /\ m \in Nat /\ m + 1 = Len(frames) /\ frames' \in Seq(Frame) /\ Len(frames') = m
      /\ \A f \in 1 .. m : frames'[f] = frames[f]
  BY <1>1, PopFacts DEF PopFrame
<1>3. DOMAIN frames = 1 .. m + 1 /\ DOMAIN frames' = 1 .. m
  BY <1>2, LenProperties, FrameFacts
<1>4. Base = frames[m + 1].base
  BY <1>2 DEF Base
<1> HIDE DEF m
<1>5. \A f \in 1 .. m : f \in 1 .. m + 1 /\ f + 1 \in 1 .. m + 1 /\ f # m + 1 /\ (f # m => f + 1 \in 1 .. m)
  BY <1>2
<1>6. \A f \in 1 .. m :
        /\ frames'[f].base <= Len(trail)
        /\ frames'[f].saved.occList = ListsAt(trail, frames'[f].base)
        /\ frames'[f].saved.nbSat = SatCount(trail, frames'[f].base)
        /\ frames'[f].saved.nbUnsat = UnsatCount(trail, frames'[f].base)
  BY <1>2, <1>3, <1>5 DEF FrameInv
<1>7. \A f, g \in 1 .. m : f <= g => frames'[f].base <= frames'[g].base
  BY <1>2, <1>3, <1>5 DEF FrameInv
<1>8. \A f \in 1 .. m : frames'[f].kind = "component" =>
        IF f = m THEN frames'[f].base = Len(trail) ELSE frames'[f + 1].base = frames'[f].base
  <2>1. \A f \in 1 .. m : frames[f].kind = "component" => frames[f + 1].base = frames[f].base
    BY <1>2, <1>3, <1>5 DEF FrameInv
  <2> QED
    BY <1>2, <1>4, <1>5, <2>1
<1> QED
  BY <1>2, <1>3, <1>6, <1>7, <1>8 DEF FrameInv

\* The frames stay consistent with the trail.
LEMMA FrameStep ==
  ASSUME IInv, [Next]_vars
  PROVE  FrameInv'
<1> USE DEF IInv
<1>1. ASSUME NEW ls \in Batches, PreUpdate(ls)
      PROVE  FrameInv'
  <2>1. Scope \in SUBSET Var
    BY TopFrame DEF Scope, Frame
  <2> QED
    BY <1>1, <2>1, FramePush DEF PreUpdate
<1>2. CASE AssignLit
  <2>1. /\ Len(trail) \in Nat /\ Len(trail') = Len(trail) + 1
        /\ \A k \in 1 .. Len(trail) : trail'[k] = trail[k]
    BY <1>2, AssignFacts
  <2>2. frames' = frames /\ pc' = "assign" /\ TopIs("lits")
    BY <1>2 DEF AssignLit, FrameInv
  <2>3. \A f \in DOMAIN frames : /\ frames[f].base \in Nat /\ frames[f].base <= Len(trail)
                                 /\ frames[f].kind = "component" => f # Len(frames)
    BY <2>2, FrameFacts DEF FrameInv
  <2>4. \A f \in DOMAIN frames :
          /\ frames[f].base <= Len(trail')
          /\ ListsAt(trail', frames[f].base) = ListsAt(trail, frames[f].base)
          /\ SatCount(trail', frames[f].base) = SatCount(trail, frames[f].base)
          /\ UnsatCount(trail', frames[f].base) = UnsatCount(trail, frames[f].base)
    <3>1. \A f \in DOMAIN frames : \A k \in 1 .. frames[f].base : trail'[k] = trail[k]
      BY <2>1, <2>3
    <3>2. \A f \in DOMAIN frames : frames[f].base <= Len(trail')
      BY <2>1, <2>3
    <3> QED
      BY <2>3, <3>1, <3>2, SamePrefix
  <2>5. TopIs("lits")'
    BY <2>2 DEF TopIs
  <2> QED
    BY <2>2, <2>3, <2>4, <2>5 DEF FrameInv
<1>3. CASE UnassignLit
  <2>1. /\ Len(trail) - 1 \in Nat /\ Len(trail') = Len(trail) - 1 /\ Base <= Len(trail) - 1
        /\ \A k \in 1 .. Len(trail) - 1 : trail'[k] = trail[k]
    BY <1>3, UnassignFacts
  <2>2. frames' = frames /\ pc' = "unassign" /\ TopIs("lits")
    BY <1>3 DEF UnassignLit, FrameInv
  <2>3. \A f \in DOMAIN frames : /\ frames[f].base \in Nat /\ frames[f].base <= Base
                                 /\ frames[f].kind = "component" => f # Len(frames)
    BY <2>2, FrameFacts DEF FrameInv, Base
  <2>4. \A f \in DOMAIN frames :
          /\ frames[f].base <= Len(trail')
          /\ ListsAt(trail', frames[f].base) = ListsAt(trail, frames[f].base)
          /\ SatCount(trail', frames[f].base) = SatCount(trail, frames[f].base)
          /\ UnsatCount(trail', frames[f].base) = UnsatCount(trail, frames[f].base)
    <3>1. Base \in Nat
      BY <2>2, TopFrame DEF TopIs
    <3>2. \A f \in DOMAIN frames : frames[f].base <= Len(trail')
      BY <2>1, <2>3, <3>1
    <3>3. \A f \in DOMAIN frames : \A k \in 1 .. frames[f].base : trail'[k] = trail[k]
      BY <2>1, <2>3, <3>2
    <3> QED
      BY <2>1, <2>3, <3>2, <3>3, SamePrefix
  <2>5. TopIs("lits")'
    BY <2>2 DEF TopIs
  <2> QED
    BY <2>2, <2>3, <2>4, <2>5 DEF FrameInv
<1>4. ASSUME NEW C \in SUBSET Var, UpdateCurrentClauseSet(C)
      PROVE  FrameInv'
  BY <1>4, FramePush DEF UpdateCurrentClauseSet, StartPartition
<1>5. CASE PopPreviousClauseSet
  <2>1. Len(trail) = Base
    BY <1>5, FrameFacts DEF PopPreviousClauseSet, FrameInv, Base
  <2> QED
    BY <1>5, <2>1, FramePop DEF PopPreviousClauseSet, TopIs
<1>6. CASE EndPostUpdate
  BY <1>6, FramePop DEF EndPostUpdate, FrameInv, TopIs
<1>7. CASE /\ UNCHANGED <<trail, frames>>
           /\ pc' \in {"assign", "keepUnsatisfied", "unassign"} => TopIs("lits")
           /\ pc' = "keepComponent" => TopIs("component")
  BY <1>7 DEF FrameInv, TopIs
<1>8. \/ \E ls \in Batches : PreUpdate(ls)
      \/ AssignLit \/ UnassignLit
      \/ \E C \in SUBSET Var : UpdateCurrentClauseSet(C)
      \/ PopPreviousClauseSet \/ EndPostUpdate
      \/ /\ UNCHANGED <<trail, frames>>
         /\ pc' \in {"assign", "keepUnsatisfied", "unassign"} => TopIs("lits")
         /\ pc' = "keepComponent" => TopIs("component")
  BY DEF Next, vars, formula, clauseSet, ReviewWatchers, StartPartition, KeepClause, DropClause,
         EndPartition, PostUpdate, FrameInv
<1> QED
  BY <1>1, <1>2, <1>3, <1>4, <1>5, <1>6, <1>7, <1>8

\* The stack of sizes.
LEMMA SizeFacts ==
  ASSUME TypeOK
  PROVE  /\ Len(stackSize) \in Nat /\ DOMAIN stackSize = 1 .. Len(stackSize)
         /\ \A f \in 1 .. Len(stackSize) : stackSize[f] \in 0 .. NbClause
         /\ CurrentClauses = Prefix(currentSize)
BY LenProperties, ElementOfSeq DEF TypeOK, CurrentClauses, Prefix

\* What a pushed frame records.
LEMMA PushSaved ==
  ASSUME TypeOK, NEW kind \in {"lits", "component"}, NEW scope \in SUBSET Var,
         PushFrame(kind, scope)
  PROVE  /\ Len(frames') = Len(frames) + 1
         /\ \A f \in 1 .. Len(frames) : frames'[f] = frames[f]
         /\ frames'[Len(frames')].saved = Observed
         /\ frames'[Len(frames) + 1].saved = Observed
         /\ frames'[Len(frames) + 1].base = Len(trail)
<1>1. /\ Len(frames') = Len(frames) + 1
      /\ \A f \in 1 .. Len(frames) : frames'[f] = frames[f]
      /\ frames'[Len(frames) + 1] = [kind |-> kind, base |-> Len(trail),
                                     scope |-> scope, saved |-> Observed]
  BY PushFrameType
<1> QED
  BY <1>1

\* Swapping two entries below n leaves the set of the first n as it was.
LEMMA SwapPrefix ==
  ASSUME TypeOK, NEW n \in Nat, n <= NbClause, NEW a \in 0 .. n - 1, NEW b \in 0 .. n - 1,
         currentIdx' = [currentIdx EXCEPT ![b] = currentIdx[a], ![a] = currentIdx[b]]
  PROVE  Prefix(n)' = Prefix(n)
<1>1. 0 .. n - 1 \subseteq Idx /\ a \in Idx /\ b \in Idx
  BY DEF Idx
<1>2. /\ currentIdx'[a] = currentIdx[b] /\ currentIdx'[b] = currentIdx[a]
      /\ \A k \in Idx : k # a /\ k # b => currentIdx'[k] = currentIdx[k]
  BY <1>1 DEF TypeOK
<1>3. \A k \in 0 .. n - 1 : \E j \in 0 .. n - 1 : currentIdx'[k] = currentIdx[j]
  BY <1>1, <1>2
<1>4. \A k \in 0 .. n - 1 : \E j \in 0 .. n - 1 : currentIdx[k] = currentIdx'[j]
  BY <1>1, <1>2
<1>5. Prefix(n)' = {currentIdx'[k] : k \in 0 .. n - 1}
  BY DEF Prefix
<1>6. ASSUME NEW x
      PROVE  x \in {currentIdx'[k] : k \in 0 .. n - 1} <=> x \in {currentIdx[k] : k \in 0 .. n - 1}
  <2>1. ASSUME NEW k \in 0 .. n - 1, x = currentIdx'[k]
        PROVE  x \in {currentIdx[j] : j \in 0 .. n - 1}
    BY <1>3, <2>1
  <2>2. ASSUME NEW k \in 0 .. n - 1, x = currentIdx[k]
        PROVE  x \in {currentIdx'[j] : j \in 0 .. n - 1}
    BY <1>4, <2>2
  <2> QED
    BY <2>1, <2>2
<1> QED
  BY <1>5, <1>6 DEF Prefix

\* The sizes to go back to keep delimiting the clauses saved with them.
LEMMA SizeStep ==
  ASSUME IInv, [Next]_vars
  PROVE  SizeInv'
<1> USE DEF IInv
<1> DEFINE m == Len(stackSize)
<1>0. /\ m \in Nat /\ DOMAIN stackSize = 1 .. m /\ Len(frames) \in Nat
      /\ \A f \in 1 .. m : stackSize[f] \in 0 .. NbClause
      /\ currentSize \in 0 .. NbClause
      /\ CurrentClauses = Prefix(currentSize)
      /\ frames \in Seq(Frame)
  BY SizeFacts, FrameFacts DEF TypeOK, Frame
<1>1. ASSUME NEW ls \in Batches, PreUpdate(ls)
      PROVE  SizeInv'
  <2>1. /\ pc = "idle" /\ pc' = "assign" /\ PushFrame("lits", Scope)
        /\ UNCHANGED <<currentIdx, currentSize, stackSize>>
    BY <1>1 DEF PreUpdate, clauseSet
  <2>2. Scope \in SUBSET Var
    BY TopFrame DEF Scope, Frame
  <2>3. /\ Len(frames') = Len(frames) + 1 /\ m = Len(frames)
        /\ \A f \in 1 .. m : frames'[f] = frames[f]
        /\ frames'[Len(frames')].saved = Observed
    <3>1. m = Len(frames)
      BY <2>1 DEF SizeInv
    <3> QED
      BY <2>1, <2>2, <3>1, PushSaved
  <2>4. CurrentClauses' = frames'[Len(frames')].saved.clauses
    BY <2>1, <2>3 DEF Observed, CurrentClauses
  <2> QED
    BY <1>0, <2>1, <2>3, <2>4 DEF SizeInv, Prefix
<1>2. CASE ReviewWatchers
  <2>1. /\ pc = "assign" /\ pc' = "keepUnsatisfied" /\ stackSize' = Append(stackSize, currentSize)
        /\ UNCHANGED <<currentIdx, currentSize, frames>>
    BY <1>2 DEF ReviewWatchers, StartPartition
  <2>2. /\ Len(stackSize') = m + 1 /\ DOMAIN stackSize' = 1 .. m + 1
        /\ stackSize'[m + 1] = currentSize /\ \A f \in 1 .. m : stackSize'[f] = stackSize[f]
    BY <2>1, PushFacts DEF TypeOK
  <2>3. /\ Len(frames) = m + 1 /\ CurrentClauses = frames[m + 1].saved.clauses
    BY <1>0, <2>1 DEF SizeInv
  <2>4. /\ \A f \in 1 .. m : Prefix(stackSize[f]) = frames[f].saved.clauses /\ currentSize <= stackSize[f]
        /\ \A f, g \in 1 .. m : f <= g => stackSize[g] <= stackSize[f]
    BY <1>0 DEF SizeInv
  <2>5. \A k : Prefix(k)' = {currentIdx[j] : j \in 0 .. k - 1}
    BY <2>1 DEF Prefix
  <2>6. \A f \in 1 .. m + 1 : f \in 1 .. m \/ f = m + 1
    BY <1>0
  <2>7. \A f \in 1 .. m + 1 : Prefix(stackSize'[f]) = frames[f].saved.clauses /\ currentSize <= stackSize'[f]
    <3>1. /\ Prefix(stackSize'[m + 1]) = frames[m + 1].saved.clauses
          /\ currentSize <= stackSize'[m + 1]
      BY <1>0, <2>2, <2>3
    <3> QED
      BY <2>2, <2>4, <2>6, <3>1
  <2>8. \A f, g \in 1 .. m + 1 : f <= g => stackSize'[g] <= stackSize'[f]
    <3>1. \A f, g \in 1 .. m + 1 : f <= g /\ g = m + 1 => stackSize'[g] <= stackSize'[f]
      BY <1>0, <2>2, <2>7
    <3>2. \A f, g \in 1 .. m : f <= g => stackSize'[g] <= stackSize'[f]
      BY <2>2, <2>4
    <3>3. \A f \in 1 .. m : ~(m + 1 <= f)
      BY <1>0
    <3> QED
      BY <2>6, <3>1, <3>2, <3>3
  <2> QED
    BY <2>1, <2>2, <2>3, <2>7, <2>8 DEF SizeInv, Prefix
<1>3. ASSUME NEW C \in SUBSET Var, UpdateCurrentClauseSet(C)
      PROVE  SizeInv'
  <2>1. /\ pc = "idle" /\ pc' = "keepComponent" /\ stackSize' = Append(stackSize, currentSize)
        /\ UNCHANGED <<currentIdx, currentSize>> /\ PushFrame("component", C)
    BY <1>3 DEF UpdateCurrentClauseSet, StartPartition
  <2>2. /\ Len(stackSize') = m + 1 /\ DOMAIN stackSize' = 1 .. m + 1
        /\ stackSize'[m + 1] = currentSize /\ \A f \in 1 .. m : stackSize'[f] = stackSize[f]
    BY <2>1, PushFacts DEF TypeOK
  <2>3. /\ Len(frames') = m + 1 /\ \A f \in 1 .. m : frames'[f] = frames[f]
        /\ frames'[m + 1].saved.clauses = CurrentClauses
    <3>1. m = Len(frames)
      BY <2>1 DEF SizeInv
    <3> QED
      BY <2>1, <3>1, PushSaved DEF Observed
  <2>4. /\ \A f \in 1 .. m : Prefix(stackSize[f]) = frames[f].saved.clauses /\ currentSize <= stackSize[f]
        /\ \A f, g \in 1 .. m : f <= g => stackSize[g] <= stackSize[f]
    BY <1>0 DEF SizeInv
  <2>6. \A f \in 1 .. m + 1 : f \in 1 .. m \/ f = m + 1
    BY <1>0
  <2>7. \A f \in 1 .. m + 1 : Prefix(stackSize'[f]) = frames'[f].saved.clauses /\ currentSize <= stackSize'[f]
    <3>1. Prefix(stackSize'[m + 1]) = frames'[m + 1].saved.clauses /\ currentSize <= stackSize'[m + 1]
      BY <1>0, <2>2, <2>3
    <3>2. \A f \in 1 .. m : /\ Prefix(stackSize'[f]) = frames'[f].saved.clauses
                            /\ currentSize <= stackSize'[f]
      <4> HIDE DEF m
      <4> QED
        BY <2>2, <2>3, <2>4
    <3> HIDE DEF m
    <3> QED
      BY <2>6, <3>1, <3>2
  <2>8. \A f, g \in 1 .. m + 1 : f <= g => stackSize'[g] <= stackSize'[f]
    <3>1. \A f, g \in 1 .. m + 1 : f <= g /\ g = m + 1 => stackSize'[g] <= stackSize'[f]
      BY <1>0, <2>2, <2>7
    <3>2. \A f, g \in 1 .. m : f <= g => stackSize'[g] <= stackSize'[f]
      BY <2>2, <2>4
    <3>3. \A f \in 1 .. m : ~(m + 1 <= f)
      BY <1>0
    <3> QED
      BY <2>6, <3>1, <3>2, <3>3
  <2> QED
    BY <2>1, <2>2, <2>3, <2>7, <2>8 DEF SizeInv, Prefix
<1>4. CASE DropClause
  <2>1. /\ pc' = pc /\ pc # "assign" /\ stackSize' = stackSize /\ frames' = frames
        /\ i \in Nat /\ i < currentSize /\ currentSize' = currentSize - 1
        /\ currentIdx' = [currentIdx EXCEPT ![currentSize - 1] = currentIdx[i],
                                            ![i] = currentIdx[currentSize - 1]]
    BY <1>4 DEF DropClause, Partitioning, TypeOK
  <2>2. \A f \in 1 .. m : Prefix(stackSize[f]) = frames[f].saved.clauses /\ currentSize <= stackSize[f]
    BY <1>0 DEF SizeInv
  <2>3. \A f \in 1 .. m : Prefix(stackSize[f])' = Prefix(stackSize[f]) /\ currentSize' <= stackSize[f]
    <3> TAKE f \in 1 .. m
    <3>1. /\ stackSize[f] \in Nat /\ stackSize[f] <= NbClause
          /\ i \in 0 .. stackSize[f] - 1 /\ currentSize - 1 \in 0 .. stackSize[f] - 1
          /\ currentSize - 1 <= stackSize[f]
      BY <1>0, <2>1, <2>2
    <3> DEFINE n == stackSize[f]
    <3>2. n' = n
      BY <2>1
    <3> HIDE DEF n
    <3>3. {currentIdx'[k] : k \in 0 .. n - 1} = Prefix(n)
      BY <2>1, <3>1, SwapPrefix DEF n, Prefix
    <3> QED
      BY <2>1, <3>1, <3>2, <3>3 DEF Prefix, n
  <2>4. Len(stackSize') = Len(frames')
    BY <2>1 DEF SizeInv
  <2>5. \A f, g \in DOMAIN stackSize' : f <= g => stackSize'[g] <= stackSize'[f]
    BY <2>1 DEF SizeInv
  <2> QED
    BY <1>0, <2>1, <2>2, <2>3, <2>4, <2>5 DEF SizeInv
<1>5. CASE PopSize /\ PopFrame /\ frames # <<>> /\ pc # "assign" /\ pc' # "assign"
  <2>1. /\ stackSize # <<>> /\ currentSize' = stackSize[m] /\ UNCHANGED currentIdx
        /\ stackSize' = SubSeq(stackSize, 1, m - 1) /\ frames' = SubSeq(frames, 1, Len(frames) - 1)
        /\ frames # <<>> /\ pc' # "assign" /\ m = Len(frames)
    BY <1>5 DEF PopSize, PopFrame, SizeInv
  <2>2. m - 1 \in Nat /\ Len(stackSize') = m - 1 /\ \A f \in 1 .. m - 1 : stackSize'[f] = stackSize[f]
    BY <2>1, PopFacts DEF TypeOK
  <2>3. Len(frames') = m - 1 /\ \A f \in 1 .. m - 1 : frames'[f] = frames[f]
    BY <1>0, <2>1, PopFacts
  <2>4. DOMAIN stackSize' = 1 .. m - 1
    <3>1. stackSize' \in Seq(0 .. NbClause)
      BY <1>5, PopType
    <3> QED
      BY <2>2, <3>1, LenProperties
  <2>5. \A f \in 1 .. m - 1 : f \in 1 .. m /\ m \in 1 .. m /\ f <= m
    BY <2>2
  <2> HIDE DEF m
  <2>6. /\ \A f \in 1 .. m : Prefix(stackSize[f]) = frames[f].saved.clauses
        /\ \A f, g \in 1 .. m : f <= g => stackSize[g] <= stackSize[f]
    BY <1>0 DEF SizeInv
  <2>7. \A f \in 1 .. m - 1 : Prefix(stackSize[f]) = frames'[f].saved.clauses /\ currentSize' <= stackSize'[f]
    BY <2>1, <2>2, <2>3, <2>5, <2>6
  <2>8. \A f, g \in 1 .. m - 1 : f <= g => stackSize'[g] <= stackSize'[f]
    BY <2>2, <2>5, <2>6
  <2>9. \A f \in 1 .. m - 1 : Prefix(stackSize[f])' = Prefix(stackSize[f])
    BY <2>1, <2>2 DEF Prefix
  <2> QED
    BY <2>1, <2>2, <2>3, <2>4, <2>7, <2>8, <2>9 DEF SizeInv, Prefix
<1>6. CASE UNCHANGED <<currentIdx, currentSize, stackSize, frames>> /\ (pc = "assign" <=> pc' = "assign")
  BY <1>6 DEF SizeInv, Prefix, CurrentClauses
<1>7. ASSUME PopPreviousClauseSet \/ EndPostUpdate
      PROVE  PopSize /\ PopFrame /\ frames # <<>> /\ pc # "assign" /\ pc' # "assign"
  BY <1>7 DEF PopPreviousClauseSet, EndPostUpdate, TopIs, FrameInv
<1>8. \/ \E ls \in Batches : PreUpdate(ls)
      \/ ReviewWatchers \/ \E C \in SUBSET Var : UpdateCurrentClauseSet(C)
      \/ DropClause \/ PopPreviousClauseSet \/ EndPostUpdate
      \/ UNCHANGED <<currentIdx, currentSize, stackSize, frames>> /\ (pc = "assign" <=> pc' = "assign")
  BY DEF Next, vars, clauseSet, AssignLit, KeepClause, EndPartition, Partitioning, PostUpdate, UnassignLit
<1> QED
  BY <1>1, <1>2, <1>3, <1>4, <1>5, <1>6, <1>7, <1>8

\* Every clause the search can come back to unsatisfied is watched there.
LEMMA WatchStep ==
  ASSUME IInv, [Next]_vars
  PROVE  WatchInv'
<1> USE DEF IInv
<1>1. FrameInv'
  BY FrameStep
<1>2. \A f \in 1 .. Len(frames) : frames[f].base \in Nat /\ frames[f].base <= Len(trail)
  BY FrameFacts DEF FrameInv
<1>3. Len(trail) \in Nat /\ DOMAIN frames = 1 .. Len(frames) /\ Len(frames) \in Nat
  BY ReadTrail, FrameFacts
<1>4. ASSUME pc = "idle", NEW kind \in {"lits", "component"}, NEW scope \in SUBSET Var,
             PushFrame(kind, scope), UNCHANGED <<watcher, trail>>
      PROVE  WatchInv'
  <2>1. /\ frames' \in Seq(Frame) /\ Len(frames') = Len(frames) + 1
        /\ \A f \in 1 .. Len(frames) : frames'[f] = frames[f]
        /\ frames'[Len(frames) + 1].base = Len(trail)
    BY <1>4, PushFrameType, PushSaved
  <2>2. DOMAIN frames' = 1 .. Len(frames) + 1
    BY <2>1, LenProperties
  <2>3. \A c \in Idx : /\ watcher[c] \in Lits[c]
                       /\ \A f \in 1 .. Len(frames) : WatchedAt(trail, watcher, c, frames[f].base)
                       /\ WatchedAt(trail, watcher, c, Len(trail))
    BY <1>3, <1>4 DEF WatchInv
  <2>4. \A f \in 1 .. Len(frames) + 1 : f \in 1 .. Len(frames) \/ f = Len(frames) + 1
    BY <1>3
  <2>5. \A c \in Idx : \A f \in DOMAIN frames' : WatchedAt(trail, watcher, c, frames'[f].base)
    BY <2>1, <2>2, <2>3, <2>4
  <2> QED
    BY <1>4, <2>3, <2>5 DEF WatchInv
<1>5. ASSUME NEW ls \in Batches, PreUpdate(ls)
      PROVE  WatchInv'
  <2>1. Scope \in SUBSET Var
    BY TopFrame DEF Scope, Frame
  <2> QED
    BY <1>4, <1>5, <2>1 DEF PreUpdate, formula
<1>6. ASSUME NEW C \in SUBSET Var, UpdateCurrentClauseSet(C)
      PROVE  WatchInv'
  BY <1>4, <1>6 DEF UpdateCurrentClauseSet, formula
<1>7. CASE AssignLit
  <2> DEFINE l == Head(lits)
             n == Len(trail)
  <2>1. /\ n \in Nat /\ l \in Literal /\ trail' \in Seq(Literal)
        /\ Len(trail') = n + 1 /\ trail'[n + 1] = l
        /\ \A k \in 1 .. n : trail'[k] = trail[k]
    BY <1>7, AssignFacts
  <2>2. /\ UNCHANGED <<watcher, frames, pc>> /\ pc = "assign"
        /\ reviewWatcher' = reviewWatcher \cup LostWatcher(l)
    BY <1>7 DEF AssignLit
  <2>3. OnceEach(trail')
    BY TrailStep DEF TrailInv
  <2>4. occList[-l] = {c \in Idx : -l \in Lits[c] /\ ~SatBy(trail', c, n)}
    <3>1. occList = ListsAt(trail', n)
      BY <2>1, SamePrefix DEF CountInv
    <3>2. n < Len(trail')
      BY <2>1
    <3> QED
      BY <2>1, <2>3, <3>1, <3>2, ListMembers
  <2>5. \A f \in DOMAIN frames : \A c \in Idx :
          WatchedAt(trail', watcher, c, frames[f].base) <=> WatchedAt(trail, watcher, c, frames[f].base)
    <3>1. \A f \in DOMAIN frames : \A k \in 1 .. frames[f].base : trail'[k] = trail[k]
      BY <1>2, <1>3, <2>1
    <3> QED
      BY <1>2, <1>3, <3>1, SamePrefix DEF WatchedAt
  <2> HIDE DEF l, n
  <2>6. \A c \in Idx : watcher[c] \in Lits[c] /\ watcher[c] \in Literal
    BY ClauseFacts DEF WatchInv
  <2>7. ASSUME NEW c \in Idx, ~WatchedAt(trail', watcher, c, n + 1)
        PROVE  c \in reviewWatcher'
    <3>1. ~SatBy(trail', c, n) /\ l \notin Lits[c]
      BY <2>1, <2>7, ExtendTrail DEF WatchedAt
    <3>2. AssignedBy(trail', VarOf(watcher[c]), n) \/ VarOf(l) = VarOf(watcher[c])
      BY <2>1, <2>7, ExtendTrail DEF WatchedAt
    <3>3. CASE AssignedBy(trail', VarOf(watcher[c]), n)
      <4>1. ~WatchedAt(trail, watcher, c, n)
        BY <2>1, <3>1, <3>3, SamePrefix DEF WatchedAt
      <4> QED
        BY <2>2, <4>1 DEF WatchInv, n
    <3>4. CASE VarOf(l) = VarOf(watcher[c])
      <4>1. watcher[c] = -l
        BY <2>1, <2>6, <3>1, <3>4, SameVar
      <4> QED
        BY <2>2, <2>4, <2>6, <3>1, <4>1 DEF LostWatcher
    <3> QED
      BY <3>2, <3>3, <3>4
  <2> QED
    BY <2>1, <2>2, <2>5, <2>6, <2>7 DEF WatchInv
<1>8. CASE ReviewWatchers
  <2>1. /\ UNCHANGED <<trail, frames>> /\ pc = "assign" /\ lits = <<>> /\ pc' = "keepUnsatisfied"
        /\ watcher' = [c \in Idx |-> IF MustMove(c) THEN FirstOf(c, Unassigned(c)) ELSE watcher[c]]
    BY <1>8 DEF ReviewWatchers, StartPartition
  <2>2. \A c \in Idx : Unassigned(c) # {} => FirstOf(c, Unassigned(c)) \in Unassigned(c)
    BY FirstOfAssumption DEF Unassigned
  <2>3. \A c \in Idx : \A x \in Unassigned(c) :
          /\ x \in Lits[c] /\ ~AssignedBy(trail, VarOf(x), Len(trail))
          /\ \A n \in 0 .. Len(trail) : ~AssignedBy(trail, VarOf(x), n)
    <3>1. \A c \in Idx : \A x \in Unassigned(c) : x \in Lits[c] /\ ~AssignedBy(trail, VarOf(x), Len(trail))
      BY ReadTrail, ClauseFacts, LiteralFacts DEF Unassigned, Undef
    <3> QED
      BY <1>3, <3>1 DEF AssignedBy
  <2>4. ASSUME NEW c \in Idx
        PROVE  /\ watcher'[c] \in Lits[c]
               /\ \A f \in 1 .. Len(frames) : WatchedAt(trail, watcher', c, frames[f].base)
               /\ WatchedAt(trail, watcher', c, Len(trail))
    <3>1. CASE MustMove(c)
      <4>1. watcher'[c] \in Unassigned(c)
        BY <2>1, <2>2, <3>1 DEF MustMove
      <4> QED
        BY <1>2, <1>3, <2>3, <4>1 DEF WatchedAt
    <3>2. CASE ~MustMove(c)
      <4>1. watcher'[c] = watcher[c]
        BY <2>1, <3>2
      <4>2. WatchedAt(trail, watcher, c, Len(trail))
        <5>1. CASE c \notin reviewWatcher
          BY <2>1, <5>1 DEF WatchInv
        <5>2. CASE nbSat[c] # 0
          BY <5>2 DEF CountInv, SatCount, WatchedAt
        <5>3. CASE Unassigned(c) = {} /\ ~SatBy(trail, c, Len(trail))
          <6>1. \A x \in Lits[c] : x \in Literal /\ ~Undef(x) /\ ~LitTrue(x)
            BY <5>3, ReadTrail, ClauseFacts DEF Unassigned, Satisfied
          <6>2. \A x \in Lits[c] : LitTrue(-x)
            BY <6>1, LiteralFacts DEF LitTrue, Undef, TruthOf, TypeOK
          <6>3. FalsifiedAfter(c, lits)
            BY <6>2 DEF FalsifiedAfter
          <6> QED
            BY <6>3 DEF LitsInv
        <5> QED
          BY <3>2, <5>1, <5>2, <5>3 DEF MustMove, WatchedAt
      <4>3. \A f \in 1 .. Len(frames) : WatchedAt(trail, watcher, c, frames[f].base) /\ watcher[c] \in Lits[c]
        BY <1>3 DEF WatchInv
      <4>4. watcher[c] \in Lits[c]
        BY DEF WatchInv
      <4> QED
        BY <4>1, <4>2, <4>3, <4>4 DEF WatchedAt
    <3> QED
      BY <3>1, <3>2
  <2> QED
    BY <1>3, <2>1, <2>4 DEF WatchInv
<1>9. CASE UnassignLit
  <2>1. /\ Len(trail) - 1 \in Nat /\ Len(trail') = Len(trail) - 1
        /\ \A k \in 1 .. Len(trail) - 1 : trail'[k] = trail[k]
    BY <1>9, UnassignFacts
  <2>2. UNCHANGED <<watcher, frames>> /\ pc' = "unassign"
    BY <1>9 DEF UnassignLit
  <2>3. \A f \in DOMAIN frames : frames[f].base \in Nat /\ frames[f].base <= Len(trail) - 1
    BY <1>1, <1>2, <1>3, <2>1, <2>2 DEF FrameInv
  <2>4. \A f \in DOMAIN frames : \A k \in 1 .. frames[f].base : trail'[k] = trail[k]
    BY <2>1, <2>3
  <2>5. \A f \in DOMAIN frames : \A c \in Idx :
          WatchedAt(trail', watcher, c, frames[f].base) <=> WatchedAt(trail, watcher, c, frames[f].base)
    BY <2>3, <2>4, SamePrefix DEF WatchedAt
  <2> QED
    BY <2>2, <2>5 DEF WatchInv
<1>10. CASE PopFrame /\ frames # <<>> /\ UNCHANGED <<watcher, trail>> /\ Len(trail) = Base
            /\ pc' = "idle"
  <2>1. /\ Len(frames) - 1 \in Nat /\ frames' \in Seq(Frame) /\ Len(frames') = Len(frames) - 1
        /\ \A f \in 1 .. Len(frames) - 1 : frames'[f] = frames[f]
    <3>1. frames \in Seq(Frame)
      BY DEF TypeOK, Frame
    <3> QED
      BY <1>10, <3>1, PopFacts DEF PopFrame
  <2>2. DOMAIN frames' = 1 .. Len(frames) - 1 /\ Len(frames) \in DOMAIN frames
    BY <1>3, <2>1, LenProperties
  <2>3. \A c \in Idx : WatchedAt(trail, watcher, c, Len(trail))
    BY <1>10, <2>2 DEF WatchInv, Base
  <2>4. \A f \in 1 .. Len(frames) - 1 : f \in DOMAIN frames
    BY <1>3, <2>1
  <2> QED
    BY <1>10, <2>1, <2>2, <2>3, <2>4 DEF WatchInv
<1>11. PopPreviousClauseSet \/ EndPostUpdate =>
         PopFrame /\ frames # <<>> /\ UNCHANGED <<watcher, trail>> /\ Len(trail) = Base /\ pc' = "idle"
  BY FrameFacts DEF PopPreviousClauseSet, EndPostUpdate, FrameInv, TopIs, formula, Base
<1>12. CASE UNCHANGED <<watcher, trail, frames, reviewWatcher>> /\ pc' = pc
  BY <1>12 DEF WatchInv
<1>13. CASE UNCHANGED <<watcher, trail, frames>> /\ pc' \in {"idle", "unassign"}
            /\ pc \notin {"assign", "unassign"}
  BY <1>13 DEF WatchInv
<1>14. \/ \E ls \in Batches : PreUpdate(ls)
       \/ \E C \in SUBSET Var : UpdateCurrentClauseSet(C)
       \/ AssignLit \/ ReviewWatchers \/ UnassignLit
       \/ PopPreviousClauseSet \/ EndPostUpdate
       \/ UNCHANGED <<watcher, trail, frames, reviewWatcher>> /\ pc' = pc
       \/ /\ UNCHANGED <<watcher, trail, frames>> /\ pc' \in {"idle", "unassign"}
          /\ pc \notin {"assign", "unassign"}
  BY DEF Next, vars, formula, KeepClause, DropClause, EndPartition, Partitioning, PostUpdate
<1> QED
  BY <1>5, <1>6, <1>7, <1>8, <1>9, <1>10, <1>11, <1>12, <1>13, <1>14

-----------------------------------------------------------------------------
(* The current clauses.                                                    *)

\* The first n entries of the trail decide which variables are free.
LEMMA SameFree ==
  ASSUME NEW t, NEW u, NEW n \in Nat, \A k \in 1 .. n : t[k] = u[k]
  PROVE  /\ \A c \in Idx : FreeAt(t, c, n) = FreeAt(u, c, n)
         /\ \A S : ClosedAt(t, n, S) <=> ClosedAt(u, n, S)
         /\ \A S : ClausesAt(t, n, S) = ClausesAt(u, n, S)
<1>1. /\ \A v : AssignedBy(t, v, n) <=> AssignedBy(u, v, n)
      /\ \A c \in Idx : SatBy(t, c, n) <=> SatBy(u, c, n)
  BY SamePrefix
<1>2. \A c \in Idx : FreeAt(t, c, n) = FreeAt(u, c, n)
  BY <1>1 DEF FreeAt
<1> QED
  BY <1>1, <1>2 DEF ClosedAt, ClausesAt

\* As literals are assigned clauses become satisfied and variables cease to be
\* free; what was cut off stays cut off.
LEMMA FreeShrinks ==
  ASSUME NEW t, NEW n \in Nat, NEW m \in Nat, n <= m
  PROVE  /\ \A c \in Idx : SatBy(t, c, n) => SatBy(t, c, m)
         /\ \A c \in Idx : FreeAt(t, c, m) \subseteq FreeAt(t, c, n)
         /\ \A S : ClosedAt(t, n, S) => ClosedAt(t, m, S)
<1>1. 1 .. n \subseteq 1 .. m
  OBVIOUS
<1>2. \A c \in Idx : SatBy(t, c, n) => SatBy(t, c, m)
  BY <1>1 DEF SatBy
<1>3. \A v : AssignedBy(t, v, n) => AssignedBy(t, v, m)
  BY <1>1 DEF AssignedBy
<1>4. \A c \in Idx : FreeAt(t, c, m) \subseteq FreeAt(t, c, n)
  BY <1>3 DEF FreeAt
<1>5. ASSUME NEW S, ClosedAt(t, n, S)
      PROVE  ClosedAt(t, m, S)
  <2>1. ASSUME NEW c \in Idx
        PROVE  SatBy(t, c, m) \/ FreeAt(t, c, m) \subseteq S \/ FreeAt(t, c, m) \cap S = {}
    <3>1. SatBy(t, c, n) \/ FreeAt(t, c, n) \subseteq S \/ FreeAt(t, c, n) \cap S = {}
      BY <1>5 DEF ClosedAt
    <3> QED
      BY <1>2, <1>4, <3>1
  <2> QED
    BY <2>1 DEF ClosedAt
<1> QED
  BY <1>2, <1>4, <1>5

\* The free variables of a clause now are its unassigned ones.
LEMMA ReadFree ==
  ASSUME TypeOK, TrailInv
  PROVE  /\ Len(trail) \in Nat
         /\ \A c \in Idx : FreeVars(c) = FreeAt(trail, c, Len(trail))
         /\ \A c \in Idx : FreeVars(c) \subseteq Var
<1>1. Len(trail) \in Nat
  BY ReadTrail
<1>2. \A c \in Idx : \A x \in Lits[c] :
        VarOf(x) \in Var /\ (Undef(x) <=> ~AssignedBy(trail, VarOf(x), Len(trail)))
  BY ReadTrail, ClauseFacts, LiteralFacts DEF Undef
<1> QED
  BY <1>1, <1>2 DEF FreeVars, Unassigned, FreeAt

\* Around every call that is pending the subproblem is cut off, and so it is now.
LEMMA ScopeFacts ==
  ASSUME TypeOK, TrailInv, FrameInv, NestInv
  PROVE  /\ Scope = ScopeAt(Len(frames)) /\ Scope \subseteq Var
         /\ ClosedAt(trail, Len(trail), Scope)
<1>1. Len(frames) \in Nat /\ (frames = <<>> <=> Len(frames) = 0)
  BY FrameFacts, EmptySeq DEF TypeOK
<1>2. Scope = ScopeAt(Len(frames))
  BY <1>1 DEF Scope, ScopeAt
<1>3. CASE frames = <<>>
  <2>1. Scope = Var
    BY <1>3 DEF Scope
  <2>2. \A c \in Idx : FreeAt(trail, c, Len(trail)) \subseteq Var
    BY ReadFree
  <2> QED
    BY <1>2, <2>1, <2>2 DEF ClosedAt
<1>4. CASE frames # <<>>
  <2> DEFINE m == Len(frames)
  <2>1. m \in DOMAIN frames /\ frames[m] \in Frame /\ frames[m].base \in Nat
    BY <1>1, <1>4, FrameFacts
  <2>2. Scope = frames[m].scope /\ Scope \subseteq Var
    BY <1>4, <2>1 DEF Scope, Frame
  <2>3. ClosedAt(trail, frames[m].base, Scope) /\ frames[m].base <= Len(trail)
    BY <2>1, <2>2 DEF NestInv, FrameInv
  <2>4. Len(trail) \in Nat
    BY ReadTrail
  <2>5. ClosedAt(trail, Len(trail), Scope)
    BY <2>1, <2>3, <2>4, FreeShrinks
  <2> QED
    BY <1>2, <2>2, <2>5
<1> QED
  BY <1>3, <1>4

\* A call that starts is nested in the one around it.
LEMMA NestPush ==
  ASSUME IInv, NEW kind \in {"lits", "component"}, NEW scope \in SUBSET Scope,
         PushFrame(kind, scope), trail' = trail, pc = "idle",
         kind = "lits" => scope = Scope,
         ClosedAt(trail, Len(trail), scope)
  PROVE  NestInv' /\ Scope' = scope
<1> USE DEF IInv
<1> DEFINE m == Len(frames)
<1>1. /\ m \in Nat /\ DOMAIN frames = 1 .. m
      /\ Scope = ScopeAt(m) /\ scope \in SUBSET Var
  BY FrameFacts, ScopeFacts
<1>2. /\ frames' \in Seq(Frame) /\ Len(frames') = m + 1
      /\ \A f \in 1 .. m : frames'[f] = frames[f]
      /\ frames'[m + 1] = [kind |-> kind, base |-> Len(trail), scope |-> scope, saved |-> Observed]
  BY <1>1, PushFrameType
<1>3. /\ DOMAIN frames' = (1 .. m) \cup {m + 1} /\ frames' # <<>>
      /\ frames'[m + 1].kind = kind /\ frames'[m + 1].base = Len(trail)
      /\ frames'[m + 1].scope = scope /\ frames'[m + 1].saved.clauses = CurrentClauses
  BY <1>1, <1>2, LenProperties, EmptySeq DEF Observed
<1>4. CurrentClauses = ClausesAt(trail, Len(trail), ScopeAt(m))
  BY <1>1 DEF ClausesInv
<1>5. \A f \in 0 .. m : ScopeAt(f)' = ScopeAt(f)
  BY <1>1, <1>2 DEF ScopeAt
<1>6. \A f \in 1 .. m : f - 1 \in 0 .. m
  BY <1>1
<1>7. \A f \in 1 .. m :
        /\ frames[f].scope \subseteq ScopeAt(f - 1)
        /\ frames[f].kind = "lits" => frames[f].scope = ScopeAt(f - 1)
        /\ ClosedAt(trail, frames[f].base, frames[f].scope)
        /\ frames[f].saved.clauses = ClausesAt(trail, frames[f].base, ScopeAt(f - 1))
  BY <1>1 DEF NestInv
<1>8. m \in 0 .. m /\ (m + 1) - 1 = m
  BY <1>1
<1>9. Scope' = scope
  BY <1>2, <1>3 DEF Scope
<1> HIDE DEF m
<1>10. ASSUME NEW f \in DOMAIN frames'
       PROVE  /\ frames'[f].scope \subseteq ScopeAt(f - 1)'
              /\ frames'[f].kind = "lits" => frames'[f].scope = ScopeAt(f - 1)'
              /\ ClosedAt(trail', frames'[f].base, frames'[f].scope)
              /\ frames'[f].saved.clauses = ClausesAt(trail', frames'[f].base, ScopeAt(f - 1)')
  <2>1. CASE f \in 1 .. m
    <3>1. frames'[f] = frames[f] /\ ScopeAt(f - 1)' = ScopeAt(f - 1)
      BY <1>2, <1>5, <1>6, <2>1
    <3> QED
      BY <1>7, <2>1, <3>1
  <2>2. CASE f = m + 1
    <3>1. ScopeAt(f - 1)' = ScopeAt(m)
      BY <1>5, <1>8, <2>2
    <3> QED
      BY <1>1, <1>3, <1>4, <2>2, <3>1
  <2> QED
    BY <1>3, <2>1, <2>2
<1> QED
  BY <1>9, <1>10 DEF NestInv

\* A call that has been undone leaves the subproblem around it.
LEMMA NestPop ==
  ASSUME IInv, frames # <<>>, PopFrame, trail' = trail
  PROVE  /\ NestInv'
         /\ Scope' = ScopeAt(Len(frames) - 1)
<1> USE DEF IInv
<1> DEFINE m == Len(frames) - 1
<1>1. frames \in Seq(Frame)
  BY DEF TypeOK, Frame
<1>2. /\ m \in Nat /\ frames' \in Seq(Frame) /\ Len(frames') = m
      /\ \A f \in 1 .. m : frames'[f] = frames[f]
  BY <1>1, PopFacts DEF PopFrame
<1>3. DOMAIN frames' = 1 .. m /\ DOMAIN frames = 1 .. m + 1 /\ (frames' = <<>> <=> m = 0)
  BY <1>2, LenProperties, EmptySeq, FrameFacts
<1>4. \A f \in 0 .. m : ScopeAt(f)' = ScopeAt(f)
  BY <1>2 DEF ScopeAt
<1>5. \A f \in 1 .. m : f - 1 \in 0 .. m /\ f \in 1 .. m + 1 /\ m \in 0 .. m
  BY <1>2
<1>6. Scope' = ScopeAt(m)
  <2>1. CASE m = 0
    BY <1>3, <2>1 DEF Scope, ScopeAt
  <2>2. CASE m # 0
    BY <1>2, <1>3, <2>2 DEF Scope, ScopeAt
  <2> QED
    BY <2>1, <2>2
<1> HIDE DEF m
<1>7. \A f \in 1 .. m :
        /\ frames[f].scope \subseteq ScopeAt(f - 1)
        /\ frames[f].kind = "lits" => frames[f].scope = ScopeAt(f - 1)
        /\ ClosedAt(trail, frames[f].base, frames[f].scope)
        /\ frames[f].saved.clauses = ClausesAt(trail, frames[f].base, ScopeAt(f - 1))
  BY <1>3, <1>5 DEF NestInv
<1>8. \A f \in 1 .. m : frames'[f] = frames[f] /\ ScopeAt(f - 1)' = ScopeAt(f - 1)
  BY <1>2, <1>4, <1>5
<1>9. NestInv'
  BY <1>3, <1>7, <1>8 DEF NestInv
<1> QED
  BY <1>6, <1>9 DEF m

\* Subproblems stay nested, closed, and saved with the clauses they had.
LEMMA NestStep ==
  ASSUME IInv, [Next]_vars
  PROVE  NestInv'
<1> USE DEF IInv
<1>1. ASSUME NEW ls \in Batches, PreUpdate(ls)
      PROVE  NestInv'
  <2>1. ClosedAt(trail, Len(trail), Scope)
    BY ScopeFacts
  <2> QED
    BY <1>1, <2>1, NestPush DEF PreUpdate
<1>2. ASSUME NEW C \in SUBSET Var, UpdateCurrentClauseSet(C)
      PROVE  NestInv'
  <2>1. Component(C)
    BY <1>2 DEF UpdateCurrentClauseSet
  <2>2. ClosedAt(trail, Len(trail), C)
    BY <2>1, ReadTrail, ReadFree DEF Component, ClosedAt
  <2> QED
    BY <1>2, <2>1, <2>2, NestPush DEF UpdateCurrentClauseSet, Component
<1>3. CASE /\ UNCHANGED frames
           /\ \A f \in DOMAIN frames : \A k \in 1 .. frames[f].base : trail'[k] = trail[k]
  <2>1. \A f \in DOMAIN frames : frames[f].base \in Nat
    BY FrameFacts
  <2>2. \A f : ScopeAt(f)' = ScopeAt(f)
    BY <1>3 DEF ScopeAt
  <2>3. \A f \in DOMAIN frames : \A S :
          /\ ClosedAt(trail', frames[f].base, S) <=> ClosedAt(trail, frames[f].base, S)
          /\ ClausesAt(trail', frames[f].base, S) = ClausesAt(trail, frames[f].base, S)
    BY <1>3, <2>1, SameFree
  <2> QED
    BY <1>3, <2>2, <2>3 DEF NestInv
<1>4. CASE AssignLit
  <2>1. /\ Len(trail) \in Nat /\ frames' = frames
        /\ \A k \in 1 .. Len(trail) : trail'[k] = trail[k]
    BY <1>4, AssignFacts DEF AssignLit
  <2>2. \A f \in DOMAIN frames : frames[f].base \in Nat /\ frames[f].base <= Len(trail)
    BY FrameFacts DEF FrameInv
  <2>3. \A f \in DOMAIN frames : \A k \in 1 .. frames[f].base : trail'[k] = trail[k]
    BY <2>1, <2>2
  <2> QED
    BY <1>3, <2>1, <2>3
<1>5. CASE UnassignLit
  <2>1. /\ Len(trail) - 1 \in Nat /\ Base \in Nat /\ Base <= Len(trail) - 1 /\ frames' = frames
        /\ frames # <<>>
        /\ \A k \in 1 .. Len(trail) - 1 : trail'[k] = trail[k]
    BY <1>5, UnassignFacts DEF UnassignLit
  <2>2. \A f \in DOMAIN frames : frames[f].base \in Nat /\ frames[f].base <= Base
    <3>1. Len(frames) \in DOMAIN frames /\ \A f \in DOMAIN frames : f <= Len(frames)
      BY <2>1, FrameFacts, TopFrame
    <3> QED
      BY <3>1, FrameFacts DEF FrameInv, Base
  <2>3. \A f \in DOMAIN frames : \A k \in 1 .. frames[f].base : trail'[k] = trail[k]
    BY <2>1, <2>2
  <2> QED
    BY <1>3, <2>1, <2>3
<1>6. CASE PopPreviousClauseSet \/ EndPostUpdate
  BY <1>6, NestPop DEF PopPreviousClauseSet, EndPostUpdate, TopIs, FrameInv
<1>7. CASE UNCHANGED <<frames, trail>>
  BY <1>3, <1>7
<1>8. \/ \E ls \in Batches : PreUpdate(ls)
      \/ \E C \in SUBSET Var : UpdateCurrentClauseSet(C)
      \/ AssignLit \/ UnassignLit \/ PopPreviousClauseSet \/ EndPostUpdate
      \/ UNCHANGED <<frames, trail>>
  BY DEF Next, vars, ReviewWatchers, KeepClause, DropClause, EndPartition, PostUpdate
<1> QED
  BY <1>1, <1>2, <1>4, <1>5, <1>6, <1>7, <1>8

\* The loop keeps apart the clauses it has kept and the clauses it has dropped.
LEMMA PartitionStep ==
  ASSUME IInv, [Next]_vars
  PROVE  PartitionInv'
<1> USE DEF IInv
<1> DEFINE m == Len(stackSize)
<1>0. /\ m \in Nat /\ DOMAIN stackSize = 1 .. m /\ stackSize \in Seq(0 .. NbClause)
      /\ currentSize \in 0 .. NbClause /\ NbClause \in Nat
      /\ currentIdx \in [Idx -> Idx] /\ i \in Nat
  BY SizeFacts DEF TypeOK
<1>1. CASE KeepClause \/ DropClause
  <2>1. /\ Partitioning /\ i < currentSize /\ Partitioning'
        /\ stackSize' = stackSize
        /\ \A c : Keep(c)' <=> Keep(c)
    BY <1>1 DEF KeepClause, DropClause, Partitioning, formula, Keep,
         IsNotSatisfiedClauseAndInComponent
  <2>2. /\ \A k \in 0 .. i - 1 : Keep(currentIdx[k])
        /\ \A k \in currentSize .. stackSize[m] - 1 : ~Keep(currentIdx[k])
    BY <2>1 DEF PartitionInv
  <2>3. stackSize[m] \in Nat /\ currentSize <= stackSize[m] /\ stackSize[m] <= NbClause
    <3>1. Len(frames) # 0 /\ pc # "assign" /\ Len(frames) \in Nat
      BY <2>1, FrameFacts DEF Partitioning, FrameInv, TopIs
    <3>2. m \in 1 .. m
      BY <1>0, <3>1 DEF SizeInv
    <3> QED
      BY <1>0, <3>2, SizeFacts DEF SizeInv
  <2>4. CASE KeepClause
    <3>1. i' = i + 1 /\ UNCHANGED <<currentIdx, currentSize>> /\ Keep(currentIdx[i])
      BY <2>4 DEF KeepClause
    <3>2. \A k \in 0 .. i' - 1 : Keep(currentIdx[k])
      <4>1. \A k \in 0 .. i' - 1 : k \in 0 .. i - 1 \/ k = i
        BY <1>0, <3>1
      <4> QED
        BY <2>2, <3>1, <4>1
    <3> QED
      BY <1>0, <2>1, <2>2, <3>1, <3>2 DEF PartitionInv
  <2>5. CASE DropClause
    <3>1. /\ i' = i /\ currentSize' = currentSize - 1 /\ ~Keep(currentIdx[i])
          /\ currentIdx' = [currentIdx EXCEPT ![currentSize - 1] = currentIdx[i],
                                              ![i] = currentIdx[currentSize - 1]]
      BY <2>5 DEF DropClause
    <3>2. i \in Idx /\ currentSize - 1 \in Idx
      BY <1>0, <2>1 DEF Idx
    <3>3. /\ currentIdx'[currentSize - 1] = currentIdx[i]
          /\ \A k \in Idx : k # i /\ k # currentSize - 1 => currentIdx'[k] = currentIdx[k]
      BY <1>0, <3>1, <3>2
    <3>4. \A k \in 0 .. i - 1 : Keep(currentIdx'[k])
      <4>1. \A k \in 0 .. i - 1 : k \in Idx /\ k # i /\ k # currentSize - 1
        BY <1>0, <2>1 DEF Idx
      <4> QED
        BY <2>2, <3>3, <4>1
    <3> DEFINE n == stackSize[m]
    <3>5. n \in Nat /\ currentSize <= n /\ n <= NbClause /\ n' = stackSize'[Len(stackSize')]
      BY <2>1, <2>3
    <3>6. \A k \in currentSize .. n - 1 : ~Keep(currentIdx[k])
      BY <2>2
    <3> HIDE DEF n, m
    <3>7. \A k \in currentSize - 1 .. n - 1 : ~Keep(currentIdx'[k])
      <4>1. \A k \in currentSize .. n - 1 : k \in Idx /\ k # i /\ k # currentSize - 1
        BY <1>0, <2>1, <3>5 DEF Idx
      <4>2. \A k \in currentSize - 1 .. n - 1 : k = currentSize - 1 \/ k \in currentSize .. n - 1
        BY <1>0, <3>5
      <4> QED
        BY <3>1, <3>3, <3>6, <4>1, <4>2
    <3>8. stackSize'[Len(stackSize')] = n /\ i' <= currentSize' /\ i' = i
      BY <1>0, <2>1, <3>1 DEF n, m
    <3>9. UNCHANGED <<pc, nbSat, watcher, inCurrentComponent>>
      BY <2>5 DEF DropClause, formula
    <3>10. /\ \A k \in 0 .. i - 1 : Keep(currentIdx[k])'
           /\ \A k \in currentSize - 1 .. n - 1 : ~Keep(currentIdx[k])'
      BY <3>4, <3>7, <3>9 DEF Keep, IsNotSatisfiedClauseAndInComponent
    <3> QED
      BY <3>1, <3>8, <3>10 DEF PartitionInv
  <2> QED
    BY <1>1, <2>4, <2>5
<1>2. CASE \E loop : StartPartition(loop)
  <2>1. /\ stackSize' = Append(stackSize, currentSize) /\ i' = 0 /\ currentSize' = currentSize
    BY <1>2 DEF StartPartition
  <2>2. stackSize'[Len(stackSize')] = currentSize
    BY <1>0, <2>1, PushFacts
  <2>3. 0 .. i' - 1 = {} /\ currentSize' .. stackSize'[Len(stackSize')] - 1 = {} /\ i' <= currentSize'
    BY <1>0, <2>1, <2>2
  <2> QED
    BY <2>3 DEF PartitionInv
<1>3. CASE ~Partitioning'
  BY <1>3 DEF PartitionInv
<1>4. CASE UNCHANGED vars
  BY <1>4 DEF PartitionInv, vars, formula, clauseSet, Partitioning, Keep,
       IsNotSatisfiedClauseAndInComponent
<1>5. \/ KeepClause \/ DropClause \/ (\E loop : StartPartition(loop)) \/ ~Partitioning'
      \/ UNCHANGED vars
  <2>1. \A ls \in Batches : PreUpdate(ls) => ~Partitioning'
    BY DEF PreUpdate, Partitioning
  <2>2. AssignLit \/ EndPartition \/ PopPreviousClauseSet \/ PostUpdate \/ UnassignLit \/ EndPostUpdate
          => ~Partitioning'
    BY DEF AssignLit, EndPartition, PopPreviousClauseSet, PostUpdate, UnassignLit, EndPostUpdate,
         Partitioning
  <2>3. ReviewWatchers => \E loop : StartPartition(loop)
    BY DEF ReviewWatchers
  <2>4. \A C \in SUBSET Var : UpdateCurrentClauseSet(C) => \E loop : StartPartition(loop)
    BY DEF UpdateCurrentClauseSet
  <2> QED
    BY <2>1, <2>2, <2>3, <2>4 DEF Next
<1> QED
  BY <1>1, <1>2, <1>3, <1>4, <1>5

\* At its end, the loop has kept the clauses that pass the test.
LEMMA PartitionEnd ==
  ASSUME IInv, EndPartition
  PROVE  /\ frames # <<>>
         /\ CurrentClauses = {c \in frames[Len(frames)].saved.clauses : Keep(c)}
<1> USE DEF IInv
<1> DEFINE m == Len(stackSize)
           n == stackSize[m]
<1>1. /\ Partitioning /\ i >= currentSize /\ i <= currentSize
      /\ \A k \in 0 .. i - 1 : Keep(currentIdx[k])
      /\ \A k \in currentSize .. n - 1 : ~Keep(currentIdx[k])
      /\ i \in Nat /\ currentSize \in Nat
  BY DEF EndPartition, PartitionInv, TypeOK
<1>2. frames # <<>> /\ Len(frames) \in Nat \ {0} /\ Len(frames) = m
  BY <1>1, TopFrame DEF Partitioning, FrameInv, TopIs, SizeInv
<1>3. m \in DOMAIN stackSize /\ n \in Nat
  BY <1>2, SizeFacts
<1>4. Prefix(n) = frames[Len(frames)].saved.clauses /\ currentSize <= n
  BY <1>2, <1>3 DEF SizeInv
<1> HIDE DEF n, m
<1>5. \A k \in 0 .. n - 1 : k \in 0 .. currentSize - 1 \/ k \in currentSize .. n - 1
  BY <1>1, <1>3
<1>6. \A k \in 0 .. currentSize - 1 : k \in 0 .. n - 1 /\ k \in 0 .. i - 1
  BY <1>1, <1>3, <1>4
<1>7. CurrentClauses = {c \in Prefix(n) : Keep(c)}
  BY <1>1, <1>5, <1>6, <1>3 DEF CurrentClauses, Prefix, n, m
<1> QED
  BY <1>2, <1>4, <1>7

\* preUpdate has kept the clauses still unsatisfied: they are the clauses of the
\* same subproblem, for what is unsatisfied has a free variable left, and all its
\* free variables on one side of the cut.
LEMMA KeptUnsatisfied ==
  ASSUME IInv, pc = "keepUnsatisfied"
  PROVE  {c \in frames[Len(frames)].saved.clauses : Keep(c)} = ClausesAt(trail, Len(trail), Scope)
<1> USE DEF IInv
<1> DEFINE m == Len(frames)
           b == frames[m].base
           n == Len(trail)
           S == frames[m].scope
<1>1. /\ m \in DOMAIN frames /\ frames # <<>> /\ b \in Nat /\ n \in Nat /\ b <= n
      /\ frames[m].kind = "lits" /\ Scope = S
  BY FrameFacts, ReadTrail DEF FrameInv, Scope
<1>2. frames[m].saved.clauses = ClausesAt(trail, b, S) /\ ClosedAt(trail, b, S)
  BY <1>1 DEF NestInv
<1>3. \A c \in Idx : Keep(c) <=> ~SatBy(trail, c, n)
  BY DEF CountInv, SatCount, Keep
<1>4. \A c \in Idx : ~SatBy(trail, c, n) => FreeAt(trail, c, n) # {}
  <2>1. ASSUME NEW c \in Idx, ~Satisfied(c)
        PROVE  FreeVars(c) # {}
    <3>1. lits = <<>> /\ ~FalsifiedAfter(c, lits)
      BY DEF LitsInv
    <3>2. PICK x \in Lits[c] : ~LitTrue(-x)
      BY <3>1 DEF FalsifiedAfter
    <3>3. x \in Literal /\ ~LitTrue(x)
      BY <2>1, ClauseFacts DEF Satisfied
    <3>4. /\ VarOf(x) \in Var /\ VarOf(-x) = VarOf(x) /\ TruthOf(x) # TruthOf(-x)
          /\ TruthOf(x) \in {"true", "false"} /\ TruthOf(-x) \in {"true", "false"}
      BY <3>3, LiteralFacts
    <3>5. currentValue[VarOf(x)] \in {"undef", "true", "false"}
      BY <3>4 DEF TypeOK
    <3>6. Undef(x)
      BY <3>2, <3>3, <3>4, <3>5 DEF Undef, LitTrue
    <3> QED
      BY <3>6 DEF FreeVars, Unassigned
  <2> QED
    BY <2>1, ReadTrail, ReadFree
<1> HIDE DEF m, b, n, S
<1>5. /\ \A c \in Idx : SatBy(trail, c, b) => SatBy(trail, c, n)
      /\ \A c \in Idx : FreeAt(trail, c, n) \subseteq FreeAt(trail, c, b)
  BY <1>1, FreeShrinks
<1>6. ASSUME NEW c \in Idx, ~SatBy(trail, c, n)
      PROVE  ~SatBy(trail, c, b) /\
             (FreeAt(trail, c, b) \cap S # {} <=> FreeAt(trail, c, n) \cap S # {})
  <2>1. FreeAt(trail, c, b) \subseteq S \/ FreeAt(trail, c, b) \cap S = {}
    BY <1>2, <1>5, <1>6 DEF ClosedAt
  <2> QED
    BY <1>4, <1>5, <1>6, <2>1
<1>7. {c \in frames[m].saved.clauses : Keep(c)} = ClausesAt(trail, n, S)
  BY <1>2, <1>3, <1>6 DEF ClausesAt
<1> QED
  BY <1>1, <1>7 DEF m, n

\* updateCurrentClauseSet has kept the clauses of the component: an unsatisfied
\* clause that reaches into the component lies in it, its watcher with it.
LEMMA KeptComponent ==
  ASSUME IInv, pc = "keepComponent"
  PROVE  {c \in frames[Len(frames)].saved.clauses : Keep(c)} = ClausesAt(trail, Len(trail), Scope)
<1> USE DEF IInv
<1> DEFINE m == Len(frames)
           n == Len(trail)
           S == frames[m].scope
<1>1. /\ m \in DOMAIN frames /\ frames # <<>> /\ n \in Nat
      /\ frames[m].kind = "component" /\ Scope = S
  BY FrameFacts, ReadTrail DEF FrameInv, Scope
<1>2. frames[m].base = n
  BY <1>1 DEF FrameInv
<1>3. /\ frames[m].saved.clauses = ClausesAt(trail, n, ScopeAt(m - 1))
      /\ S \subseteq ScopeAt(m - 1) /\ ClosedAt(trail, n, S)
  BY <1>1, <1>2 DEF NestInv
<1>4. \A c \in Idx : Keep(c) <=> ~SatBy(trail, c, n) /\ VarOf(watcher[c]) \in S
  BY <1>1 DEF CountInv, SatCount, Keep, IsNotSatisfiedClauseAndInComponent, ClausesInv
<1>5. \A c \in Idx : ~SatBy(trail, c, n) => VarOf(watcher[c]) \in FreeAt(trail, c, n)
  BY DEF WatchInv, WatchedAt, FreeAt
<1> HIDE DEF m, n, S
<1>6. \A c \in Idx : ~SatBy(trail, c, n) =>
        (VarOf(watcher[c]) \in S <=> FreeAt(trail, c, n) \cap S # {})
  BY <1>3, <1>5 DEF ClosedAt
<1>7. {c \in frames[m].saved.clauses : Keep(c)} = ClausesAt(trail, n, S)
  BY <1>3, <1>4, <1>6 DEF ClausesAt
<1> QED
  BY <1>1, <1>7 DEF m, n

\* Every call ends with the clauses of the subproblem it leads to.
LEMMA ClausesStep ==
  ASSUME IInv, [Next]_vars
  PROVE  ClausesInv'
<1> USE DEF IInv
<1>1. ASSUME NEW C \in SUBSET Var, UpdateCurrentClauseSet(C)
      PROVE  ClausesInv'
  <2>1. Component(C)
    BY <1>1 DEF UpdateCurrentClauseSet
  <2>2. ClosedAt(trail, Len(trail), C)
    BY <2>1, ReadTrail, ReadFree DEF Component, ClosedAt
  <2>3. Scope' = C
    BY <1>1, <2>1, <2>2, NestPush DEF UpdateCurrentClauseSet, Component
  <2>4. inCurrentComponent' = C /\ pc' = "keepComponent"
    BY <1>1 DEF UpdateCurrentClauseSet, StartPartition
  <2> QED
    BY <2>3, <2>4 DEF ClausesInv
<1>2. CASE EndPartition
  <2>1. /\ pc \in {"keepUnsatisfied", "keepComponent"} /\ pc' = "idle"
        /\ UNCHANGED <<currentIdx, currentSize, trail, frames>>
    BY <1>2 DEF EndPartition, Partitioning
  <2>2. CurrentClauses = ClausesAt(trail, Len(trail), Scope)
    BY <1>2, <2>1, PartitionEnd, KeptUnsatisfied, KeptComponent
  <2>3. CurrentClauses' = CurrentClauses /\ Scope' = Scope
    BY <2>1 DEF CurrentClauses, Scope
  <2> QED
    BY <2>1, <2>2, <2>3 DEF ClausesInv
<1>3. CASE PopPreviousClauseSet \/ EndPostUpdate
  <2>1. /\ frames # <<>> /\ PopFrame /\ PopSize /\ Len(trail) = Base /\ pc # "assign"
        /\ pc' = "idle" /\ trail' = trail
    BY <1>3, FrameFacts DEF PopPreviousClauseSet, EndPostUpdate, FrameInv, TopIs, formula, Base
  <2> DEFINE m == Len(frames)
  <2>2. m \in Nat \ {0} /\ m \in DOMAIN frames /\ frames[m].base = Len(trail)
    BY <2>1, TopFrame, FrameFacts DEF Base
  <2>3. m = Len(stackSize) /\ m \in DOMAIN stackSize
    BY <2>1, <2>2, SizeFacts DEF SizeInv
  <2>4. CurrentClauses' = frames[m].saved.clauses
    <3>1. Prefix(stackSize[m]) = frames[m].saved.clauses
      BY <2>3 DEF SizeInv
    <3> QED
      BY <2>1, <2>3, <3>1 DEF PopSize, CurrentClauses, Prefix
  <2>5. Scope' = ScopeAt(m - 1)
    BY <2>1, NestPop
  <2>6. frames[m].saved.clauses = ClausesAt(trail, Len(trail), ScopeAt(m - 1))
    BY <2>2 DEF NestInv
  <2> QED
    BY <2>1, <2>4, <2>5, <2>6 DEF ClausesInv
<1>4. CASE pc' \notin {"idle", "keepComponent"}
  BY <1>4 DEF ClausesInv
<1>5. CASE UNCHANGED <<inCurrentComponent, frames>> /\ pc' = "keepComponent" /\ pc = "keepComponent"
  BY <1>5 DEF ClausesInv, Scope
<1>6. CASE UNCHANGED vars
  BY <1>6 DEF vars, clauseSet, ClausesInv, Scope, CurrentClauses
<1>7. \/ \E C \in SUBSET Var : UpdateCurrentClauseSet(C)
      \/ EndPartition \/ PopPreviousClauseSet \/ EndPostUpdate
      \/ pc' \notin {"idle", "keepComponent"}
      \/ UNCHANGED <<inCurrentComponent, frames>> /\ pc' = "keepComponent" /\ pc = "keepComponent"
      \/ UNCHANGED vars
  <2>1. KeepClause \/ DropClause =>
          \/ pc' \notin {"idle", "keepComponent"}
          \/ UNCHANGED <<inCurrentComponent, frames>> /\ pc' = "keepComponent" /\ pc = "keepComponent"
    BY DEF KeepClause, DropClause, Partitioning
  <2>2. (\E ls \in Batches : PreUpdate(ls)) \/ AssignLit \/ ReviewWatchers \/ PostUpdate \/ UnassignLit
          => pc' \notin {"idle", "keepComponent"}
    BY DEF PreUpdate, AssignLit, ReviewWatchers, StartPartition, PostUpdate, UnassignLit
  <2> QED
    BY <2>1, <2>2 DEF Next
<1> QED
  BY <1>1, <1>2, <1>3, <1>4, <1>5, <1>6, <1>7

-----------------------------------------------------------------------------
(* The invariant, and the properties that follow from it.                  *)

\* IInv holds when the manager has been built (initFormula).
LEMMA InvInit ==
  ASSUME Init
  PROVE  IInv
<1>1. TypeOK
  BY TypeInit
<1>2. /\ lits = <<>> /\ frames = <<>> /\ stackSize = <<>> /\ trail = <<>> /\ pc = "idle"
      /\ reviewWatcher = {} /\ Len(trail) = 0
      /\ DOMAIN frames = {} /\ DOMAIN stackSize = {} /\ Len(frames) = 0 /\ Len(stackSize) = 0
      /\ 1 .. Len(lits) = {} /\ 1 .. Len(trail) = {} /\ 1 .. 0 = {}
  BY DEF Init
<1>3. TrailInv
  BY <1>2 DEF Init, TrailInv, OnceEach
<1>4. LitsInv
  <2>1. \A v \in Var : currentValue[v] = "undef"
    BY DEF Init
  <2>2. \A c \in Idx : Lits[c] # {} /\ \A x \in Lits[c] : VarOf(-x) \in Var /\ TruthOf(-x) # "undef"
    BY NoEmptyClauseAssumption, ClauseFacts, LiteralFacts
  <2>3. \A c \in Idx : ~FalsifiedAfter(c, lits)
    BY <1>2, <2>1, <2>2 DEF FalsifiedAfter, LitTrue
  <2> QED
    BY <1>2, <2>3 DEF LitsInv, OnceEach
<1>5. CountInv
  <2>1. \A c \in Idx : ~SatBy(trail, c, 0) /\ \A x \in Literal : InList(trail, c, x, 0) <=> x \in Lits[c]
    BY <1>2 DEF SatBy, InList
  <2>2. \A c \in Idx : FalseSteps(trail, c, 0) = {}
    BY <1>2 DEF FalseSteps
  <2>3. Cardinality({}) = 0
    BY FS_EmptySet
  <2> QED
    BY <1>2, <2>1, <2>2, <2>3 DEF Init, CountInv, ListsAt, SatCount, UnsatCount
<1>6. FrameInv
  BY <1>2 DEF FrameInv
<1>7. SizeInv
  BY <1>2 DEF SizeInv
<1>8. WatchInv
  <2>1. \A c \in Idx : watcher[c] \in Lits[c]
    BY NoEmptyClauseAssumption, FirstOfAssumption DEF Init
  <2>2. \A v : ~AssignedBy(trail, v, 0)
    BY <1>2 DEF AssignedBy
  <2> QED
    BY <1>2, <2>1, <2>2 DEF WatchInv, WatchedAt
<1>9. NestInv /\ PartitionInv
  BY <1>2 DEF NestInv, PartitionInv, Partitioning
<1>10. ClausesInv
  <2>1. CurrentClauses = Idx /\ Scope = Var
    BY <1>2 DEF Init, CurrentClauses, Scope, Idx
  <2>2. \A c \in Idx : ~SatBy(trail, c, 0)
    BY <1>2 DEF SatBy
  <2>3. \A c \in Idx : FreeAt(trail, c, 0) \cap Var # {}
    <3>1. \A c \in Idx : \E x \in Lits[c] : VarOf(x) \in Var
      BY NoEmptyClauseAssumption, ClauseFacts, LiteralFacts
    <3>2. \A v : ~AssignedBy(trail, v, 0)
      BY <1>2 DEF AssignedBy
    <3> QED
      BY <3>1, <3>2 DEF FreeAt
  <2> QED
    BY <1>2, <2>1, <2>2, <2>3 DEF ClausesInv, ClausesAt
<1> QED
  BY <1>1, <1>3, <1>4, <1>5, <1>6, <1>7, <1>8, <1>9, <1>10 DEF IInv

\* Every step of every call preserves IInv.
LEMMA InvStep ==
  ASSUME IInv, [Next]_vars
  PROVE  IInv'
BY TypeStep, TrailStep, LitsStep, CountStep, FrameStep, SizeStep, WatchStep,
   NestStep, ClausesStep, PartitionStep DEF IInv

\* The inductive invariant: at every moment, in the middle of a call too, the
\* lists, counters, watchers, sizes and clause sets are the ones the trail and the
\* pending calls determine.
THEOREM Invariant == Spec => []IInv
<1>1. Init => IInv
  BY InvInit
<1>2. IInv /\ [Next]_vars => IInv'
  BY InvStep
<1> QED
  BY <1>1, <1>2, PTL DEF Spec

\* No call indexes outside its arrays, whatever the calls before it were.
THEOREM TypeCorrect == Spec => []TypeOK
<1>1. IInv => TypeOK
  BY DEF IInv
<1> QED
  BY <1>1, Invariant, PTL

\* Of an unassigned literal, the list by the trail is its unsatisfied clauses.
LEMMA ListsOfUnassigned ==
  ASSUME IInv
  PROVE  OccListsExact
<1> USE DEF IInv
<1>1. ASSUME NEW x \in Literal, Undef(x)
      PROVE  occList[x] = {c \in Idx : x \in Lits[c] /\ ~Satisfied(c)}
  <2>1. ~AssignedBy(trail, VarOf(x), Len(trail)) /\ Len(trail) \in Nat
    BY <1>1, ReadTrail, LiteralFacts DEF Undef
  <2>2. \A k \in 1 .. Len(trail) : ~AssignedBy(trail, VarOf(x), k)
    BY <2>1 DEF AssignedBy
  <2>3. \A c \in Idx : InList(trail, c, x, Len(trail)) <=> x \in Lits[c] /\ ~SatBy(trail, c, Len(trail))
    BY <2>2 DEF InList, SatBy
  <2>4. occList[x] = {c \in Idx : InList(trail, c, x, Len(trail))}
    BY DEF CountInv, ListsAt
  <2> QED
    BY <2>3, <2>4, ReadTrail
<1> QED
  BY <1>1 DEF OccListsExact

\* Between any two iterations of any call, the list of an unassigned literal
\* holds exactly its unsatisfied clauses (the in-list tests of debug()).
THEOREM OccListsCorrect == Spec => []OccListsExact
<1>1. IInv => OccListsExact
  BY ListsOfUnassigned
<1> QED
  BY <1>1, Invariant, PTL

\* nbSat is 1 for a satisfied clause and 0 for any other, so "nbSat = 0" is the
\* test for an unsatisfied clause the code takes it for.
THEOREM NbSatCorrect == Spec => []NbSatExact
<1>1. ASSUME IInv
      PROVE  NbSatExact
  BY <1>1, ReadTrail DEF IInv, CountInv, SatCount, NbSatExact
<1> QED
  BY <1>1, Invariant, PTL

\* The steps that counted a literal of an unsatisfied clause correspond to its
\* false literals.
LEMMA CountFalse ==
  ASSUME IInv
  PROVE  NbUnsatExact
<1> USE DEF IInv
<1> SUFFICES ASSUME NEW c \in Idx, ~Satisfied(c)
             PROVE  nbUnsat[c] = Cardinality({l \in Lits[c] : LitTrue(-l)})
  BY DEF NbUnsatExact
<1> DEFINE n == Len(trail)
           Steps == FalseSteps(trail, c, n)
           Falses == {l \in Lits[c] : LitTrue(-l)}
           F == [k \in Steps |-> -trail[k]]
<1>1. /\ n \in Nat /\ ~SatBy(trail, c, n) /\ Lits[c] \in SUBSET Literal
      /\ \A k \in 1 .. n : trail[k] \in Literal
  BY ReadTrail, ClauseFacts
<1>2. \A k \in 1 .. n : ~SatBy(trail, c, k - 1)
  BY <1>1 DEF SatBy
<1>3. Steps = {k \in 1 .. n : -trail[k] \in Lits[c]}
  BY <1>2 DEF FalseSteps
<1>4. \A k \in Steps : F[k] \in Falses
  <2>1. ASSUME NEW k \in Steps
        PROVE  -trail[k] \in Lits[c] /\ LitTrue(-(-trail[k]))
    <3>1. k \in 1 .. n /\ -trail[k] \in Lits[c] /\ -(-trail[k]) = trail[k] /\ trail[k] \in Literal
      BY <1>1, <1>3, LiteralFacts
    <3> QED
      BY <3>1, ReadTrail
  <2> QED
    BY <2>1
<1>5. \A j, k \in Steps : F[j] = F[k] => j = k
  <2>1. \A j, k \in Steps : -trail[j] = -trail[k] => trail[j] = trail[k]
    <3>1. \A a, b \in Literal : -a = -b => a = b
      BY LiteralFacts
    <3>2. \A k \in Steps : trail[k] \in Literal
      BY <1>1, <1>3
    <3> QED
      BY <3>1, <3>2
  <2> QED
    BY <1>3, <2>1 DEF TrailInv, OnceEach
<1>6. \A l \in Falses : \E k \in Steps : F[k] = l
  <2>1. ASSUME NEW l \in Lits[c], LitTrue(-l)
        PROVE  \E k \in Steps : -trail[k] = l
    <3>1. -l \in Literal /\ -(-l) = l
      BY <1>1, LiteralFacts
    <3>2. PICK k \in 1 .. n : trail[k] = -l
      BY <2>1, <3>1, ReadTrail
    <3>3. k \in Steps /\ -trail[k] = l
      BY <1>3, <3>1, <3>2
    <3> QED
      BY <3>3
  <2> QED
    BY <2>1
<1> HIDE DEF Steps, Falses
<1>7. F \in Bijection(Steps, Falses)
  BY <1>4, <1>5, <1>6, Fun_IsBij
<1>8. ExistsBijection(Steps, Falses)
  BY <1>7, Fun_ExistsBij
<1>9. Cardinality(Falses) = Cardinality(Steps)
  BY <1>1, <1>8, FalseStepsCount, FS_Bijection DEF Steps
<1>10. nbUnsat[c] = Cardinality(Steps)
  BY DEF CountInv, UnsatCount, Steps
<1> QED
  BY <1>9, <1>10 DEF Falses

\* nbUnsat is the number of false literals of an unsatisfied clause (debug()).
THEOREM NbUnsatCorrect == Spec => []NbUnsatExact
<1>1. IInv => NbUnsatExact
  BY CountFalse
<1> QED
  BY <1>1, Invariant, PTL

\* The three together: what debug() tests, and what every reader of the lists and
\* counters relies on.
THEOREM ListsAndCountersCorrect == Spec => []ListsAndCountersExact
<1>1. OccListsExact /\ NbSatExact /\ NbUnsatExact => ListsAndCountersExact
  BY DEF ListsAndCountersExact
<1> QED
  BY <1>1, OccListsCorrect, NbSatCorrect, NbUnsatCorrect, PTL

\* The assertion of isNotSatisfiedClauseAndInComponent never fails, though no
\* undo restores a watcher.
THEOREM WatcherCorrect == Spec => []WatcherUnassigned
<1>1. ASSUME IInv
      PROVE  WatcherUnassigned
  <2> USE DEF IInv
  <2>1. ASSUME NEW c \in Idx, WatchedAt(trail, watcher, c, Len(trail))
        PROVE  Satisfied(c) \/ (watcher[c] \in Lits[c] /\ Undef(watcher[c]))
    <3>1. watcher[c] \in Lits[c] /\ VarOf(watcher[c]) \in Var
      BY <1>1, ClauseFacts, LiteralFacts DEF WatchInv
    <3> QED
      BY <1>1, <2>1, <3>1, ReadTrail DEF WatchedAt, Undef
  <2> QED
    BY <1>1, <2>1 DEF WatcherUnassigned, WatchInv
<1> QED
  BY <1>1, Invariant, PTL

\* Between calls, after any sequence of updates and undos, the current clauses are
\* the unsatisfied clauses of the current subproblem: the key the cache is asked
\* for (the assertion of getCurrentClauses).
THEOREM CurrentClausesCorrect == Spec => []CurrentClausesExact
<1>1. ASSUME IInv
      PROVE  CurrentClausesExact
  <2> USE DEF IInv
  <2>1. ASSUME pc = "idle"
        PROVE  CurrentClauses = {c \in Idx : ~Satisfied(c) /\ FreeVars(c) \cap Scope # {}}
    <3>1. CurrentClauses = ClausesAt(trail, Len(trail), Scope)
      BY <1>1, <2>1 DEF ClausesInv
    <3>2. \A c \in Idx : /\ Satisfied(c) <=> SatBy(trail, c, Len(trail))
                         /\ FreeVars(c) = FreeAt(trail, c, Len(trail))
      BY <1>1, ReadTrail, ReadFree
    <3> QED
      BY <3>1, <3>2 DEF ClausesAt
  <2> QED
    BY <2>1 DEF CurrentClausesExact
<1> QED
  BY <1>1, Invariant, PTL

\* removeIdxFromOccList always finds its index, and postUpdate never duplicates
\* one (the assertions of removeIdxFromOccList and of debug()).
THEOREM ListUpdatesCorrect == Spec => []ListUpdatesDefined
<1>1. ASSUME IInv
      PROVE  ListUpdatesDefined
  <2> USE DEF IInv
  <2>1. \A x \in Literal : Undef(x) => occList[x] = {c \in Idx : x \in Lits[c] /\ ~Satisfied(c)}
    BY <1>1, ListsOfUnassigned DEF OccListsExact
  <2>2. ASSUME pc = "assign", lits # <<>>
        PROVE  \A c \in occList[Head(lits)] : \A x \in Lits[c] :
                 Undef(x) /\ VarOf(x) # VarOf(Head(lits)) => c \in occList[x]
    <3>1. Head(lits) \in Literal /\ Undef(Head(lits))
      BY <1>1, <2>2, HeadTailProperties, EmptySeq DEF TypeOK, LitsInv
    <3> QED
      BY <1>1, <2>1, <3>1, ClauseFacts
  <2>3. ASSUME pc = "unassign", Len(trail) > Base
        PROVE  \A c \in occList[trail[NextToUndo]] : \A x \in Lits[c] : Undef(x) => c \notin occList[x]
    <3> DEFINE l == trail[Len(trail)]
               n == Len(trail) - 1
    <3>1. Len(trail) \in Nat /\ Base \in Nat
      BY <1>1, <2>3, ReadTrail, TopFrame DEF FrameInv, TopIs
    <3>2. n \in Nat /\ n + 1 = Len(trail) /\ n < Len(trail) /\ trail \in Seq(Literal) /\ OnceEach(trail)
      BY <1>1, <2>3, <3>1 DEF TypeOK, TrailInv
    <3>3. l \in Literal /\ LitTrue(l)
      BY <1>1, <3>2, ReadTrail DEF TrailInv, LitTrue
    <3>4. occList[l] \subseteq {c \in Idx : l \in Lits[c]}
      BY <1>1, <3>3 DEF CountInv, ListsAt, InList
    <3>5. \A c \in occList[l] : c \in Idx /\ Satisfied(c)
      BY <3>3, <3>4 DEF Satisfied
    <3>6. \A c \in occList[l] : \A x \in Lits[c] : Undef(x) => c \notin occList[x]
      BY <2>1, <3>5, ClauseFacts
    <3> QED
      BY <3>6 DEF NextToUndo
  <2> QED
    BY <2>2, <2>3 DEF ListUpdatesDefined
<1> QED
  BY <1>1, Invariant, PTL

\* An undone call leaves the lists, the counters and the set of current clauses
\* as they were when the call was made.
THEOREM UndoCorrect == Spec => UndoRestores
<1>1. ASSUME IInv, [Next]_vars, Len(frames') < Len(frames)
      PROVE  Observed' = frames[Len(frames)].saved
  <2> USE DEF IInv
  <2>1. PopPreviousClauseSet \/ EndPostUpdate
    <3>1. \A kind, scope : PushFrame(kind, scope) => ~(Len(frames') < Len(frames))
      BY <1>1, FrameFacts, AppendProperties DEF PushFrame, TypeOK
    <3> QED
      BY <1>1, <3>1, FrameFacts DEF Next, vars, PreUpdate, AssignLit, ReviewWatchers, UpdateCurrentClauseSet,
         KeepClause, DropClause, EndPartition, PostUpdate, UnassignLit
  <2>2. /\ frames # <<>> /\ pc # "assign" /\ Len(trail) = Base
        /\ PopSize /\ UNCHANGED <<occList, nbSat, nbUnsat>>
    BY <1>1, <2>1, FrameFacts DEF PopPreviousClauseSet, EndPostUpdate, FrameInv, TopIs, formula, Base
  <2> DEFINE m == Len(frames)
  <2>3. m \in Nat \ {0} /\ frames[m] \in Frame /\ m \in DOMAIN frames
    BY <1>1, <2>2, TopFrame, FrameFacts
  <2>4. m = Len(stackSize) /\ m \in DOMAIN stackSize
    BY <1>1, <2>2, <2>3, SizeFacts DEF SizeInv
  <2>5. CurrentClauses' = frames[m].saved.clauses
    <3>1. Prefix(stackSize[m]) = frames[m].saved.clauses
      BY <1>1, <2>4 DEF SizeInv
    <3> QED
      BY <2>2, <2>4, <3>1 DEF PopSize, CurrentClauses, Prefix
  <2>6. /\ occList' = frames[m].saved.occList /\ nbSat' = frames[m].saved.nbSat
        /\ nbUnsat' = frames[m].saved.nbUnsat
    BY <1>1, <2>2, <2>3 DEF FrameInv, CountInv, Base
  <2>7. frames[m].saved = [clauses |-> frames[m].saved.clauses, occList |-> frames[m].saved.occList,
                           nbSat |-> frames[m].saved.nbSat, nbUnsat |-> frames[m].saved.nbUnsat]
    BY <2>3 DEF Frame
  <2> QED
    BY <2>5, <2>6, <2>7 DEF Observed
<1>2. IInv /\ [Next]_vars => [Len(frames') < Len(frames) => Observed' = frames[Len(frames)].saved]_vars
  BY <1>1
<1> QED
  BY <1>2, Invariant, PTL DEF Spec, UndoRestores
=============================================================================
