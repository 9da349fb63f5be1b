---------------------- MODULE ConnectedComponentsProofs ----------------------
(***************************************************************************)
(* The search of ConnectedComponents finds the components of what is left, *)
(* whatever the formula, however the caller goes down and up, and leaves   *)
(* its scratch fields as it found them.                                    *)
(***************************************************************************)
EXTENDS ConnectedComponents, SequenceFacts, FiniteSetTheorems

USE VarsAssumption, IdxAssumption, FramesAssumption

-----------------------------------------------------------------------------
(* The invariant.                                                          *)

\* Rest, Closed and IsComponent for any assigned variables A and clauses left C.
RestOf(A, c) == VarsOf[c] \ A
ClosedOf(A, C, S) ==
  S \cap A = {} /\ \A c \in C : RestOf(A, c) \cap S # {} => RestOf(A, c) \subseteq S
ComponentOf(A, C, S) ==
  /\ S # {} /\ ClosedOf(A, C, S)
  /\ \A T \in SUBSET S : T # {} /\ ClosedOf(A, C, T) => T = S

\* ComponentsExact for any call: s was passed in, and vc, fv and nfv came out.
ExactOf(A, C, s, vc, fv, nfv) ==
  LET passed == ToSet(s) \ A IN
  /\ \A S \in SUBSET passed :
       ComponentOf(A, C, S) /\ Cardinality(S) > 1 <=> \E k \in DOMAIN vc : ToSet(vc[k]) = S
  /\ \A k \in DOMAIN vc : ToSet(vc[k]) \subseteq passed /\ vc[k] = Kept(s, ToSet(vc[k]))
  /\ \A k, m \in DOMAIN vc : ToSet(vc[k]) = ToSet(vc[m]) => k = m
  /\ fv = Kept(s, {v \in passed : ComponentOf(A, C, {v})})
  /\ nfv = Kept(s, {v \in passed : ~ComponentOf(A, C, {v})})

FrameType ==
  [assigned : SUBSET Var, unsat : SUBSET Idx, setOfVar : Seq(Var),
   varCo : Seq(Seq(Var)), freeVar : Seq(Var), notFreeVar : Seq(Var)]

\* The caller and the search keep their types.
TypeOK ==
  /\ assigned \in SUBSET Var /\ unsat \in SUBSET Idx /\ setOfVar \in Seq(Var)
  /\ frames \in Seq(FrameType)
  /\ idxComponent \in [Var -> Nat] /\ nbComponent \in Nat
  /\ markView \in SUBSET Idx /\ mustUnMark \in SUBSET Idx
  /\ tmpVecVar \in SUBSET Var /\ todo \in SUBSET Var
  /\ i \in Nat \ {0}
  /\ pc \in {"start", "search", "done"}
  /\ varCo \in Seq(Seq(Var)) /\ freeVar \in Seq(Var) /\ notFreeVar \in Seq(Var)

\* No clause left leads out of what was passed in: neither now nor in a caller.
PassedClosed == ClosedOf(assigned, unsat, ToSet(setOfVar) \ assigned)
FrameOK(f) ==
  /\ ClosedOf(f.assigned, f.unsat, ToSet(f.setOfVar) \ f.assigned)
  /\ ExactOf(f.assigned, f.unsat, f.setOfVar, f.varCo, f.freeVar, f.notFreeVar)
FramesOK == \A n \in DOMAIN frames : FrameOK(frames[n])

ClassOf(idx, k) == {v \in Var : idx[v] = k}
Big(S) == ComponentOf(assigned, unsat, S) /\ Cardinality(S) > 1

\* Numbers are those of components found, and every variable passed over is
\* assigned, in one of them, or a component alone.
ClassesFound ==
  /\ \A v \in Var : idxComponent[v] <= nbComponent
  /\ \A k \in 1 .. (IF pc = "search" THEN nbComponent - 1 ELSE nbComponent) :
       Big(ClassOf(idxComponent, k))
  /\ \A j \in 1 .. i - 1 :
       \/ setOfVar[j] \in assigned \/ idxComponent[setOfVar[j]] # 0
       \/ ComponentOf(assigned, unsat, {setOfVar[j]})

\* What is left of a clause that was seen lies in one class, or is one variable.
MarkedInOneClass ==
  \A c \in markView :
    /\ c \in unsat
    /\ \A u, w \in RestOf(assigned, c) :
         /\ idxComponent[u] = idxComponent[w]
         /\ idxComponent[u] = 0 => u = w

\* The class being found: the clauses of what is behind pos have been seen, and
\* every closed set with the first variable holds all of it.
ClassInSearch ==
  /\ i \in DOMAIN setOfVar /\ nbComponent > 0
  /\ tmpVecVar = ClassOf(idxComponent, nbComponent)
  /\ setOfVar[i] \in tmpVecVar /\ todo \subseteq tmpVecVar
  /\ \A v \in tmpVecVar \ todo : \A c \in unsat : v \in VarsOf[c] => c \in markView
  /\ \A T \in SUBSET Var :
       ClosedOf(assigned, unsat, T) /\ setOfVar[i] \in T => tmpVecVar \subseteq T

SearchInv ==
  /\ i \in 1 .. Len(setOfVar) + 1
  /\ ClassesFound /\ MarkedInOneClass
  /\ pc = "search" => ClassInSearch

IInv ==
  /\ TypeOK /\ PassedClosed /\ FramesOK
  /\ mustUnMark = markView
  /\ ScratchClean
  /\ pc # "done" => SearchInv
  /\ ComponentsExact

-----------------------------------------------------------------------------
(* Components.                                                             *)

\* There are finitely many variables.
LEMMA VarFinite == IsFiniteSet(Var)
<1>1. Len(Vars) \in Nat /\ DOMAIN Vars = 1 .. Len(Vars)
  OBVIOUS
<1>2. Vars \in Surjection(1 .. Len(Vars), Var)
  BY <1>1 DEF Surjection, Var
<1>3. ExistsSurjection(1 .. Len(Vars), Var)
  BY <1>2 DEF ExistsSurjection
<1> QED
  BY <1>1, <1>3, FS_NatSurjection

\* A set of variables with one element, or with more.
LEMMA OneOrMore ==
  ASSUME NEW S \in SUBSET Var, NEW v \in S
  PROVE  /\ Cardinality(S) \in Nat
         /\ Cardinality(S) <= 1 => S = {v}
         /\ Cardinality({v}) = 1
<1>1. IsFiniteSet(S)
  BY VarFinite, FS_Subset
<1>2. IsFiniteSet(S \ {v}) /\ Cardinality(S \ {v}) = Cardinality(S) - 1
  BY <1>1, FS_RemoveElement
<1>3. Cardinality(S) \in Nat /\ Cardinality(S \ {v}) \in Nat
  BY <1>1, <1>2, FS_CardinalityType
<1>4. ASSUME Cardinality(S) <= 1
      PROVE  S = {v}
  <2>1. Cardinality(S \ {v}) = 0
    BY <1>2, <1>3, <1>4
  <2>2. S \ {v} = {}
    BY <1>2, <2>1, FS_EmptySet
  <2> QED
    BY <2>2
<1> QED
  BY <1>3, <1>4, FS_Singleton

\* What both of two closed sets hold is closed, and what one holds alone.
LEMMA ClosedParts ==
  ASSUME NEW A, NEW C, NEW S, NEW T, ClosedOf(A, C, S), ClosedOf(A, C, T)
  PROVE  ClosedOf(A, C, S \cap T) /\ ClosedOf(A, C, S \ T)
BY DEF ClosedOf

\* Two components with a common variable are one.
LEMMA SameComponent ==
  ASSUME NEW A, NEW C, NEW S, NEW T, ComponentOf(A, C, S), ComponentOf(A, C, T),
         S \cap T # {}
  PROVE  S = T
<1>1. ClosedOf(A, C, S \cap T)
  BY ClosedParts DEF ComponentOf
<1>2. S \cap T = S /\ S \cap T = T
  BY <1>1 DEF ComponentOf
<1> QED
  BY <1>2

\* A closed set that every closed set with one of its variables holds is a
\* component.
LEMMA ReachedIsComponent ==
  ASSUME NEW A, NEW C, NEW S \in SUBSET Var, NEW v \in S, ClosedOf(A, C, S),
         \A T \in SUBSET Var : ClosedOf(A, C, T) /\ v \in T => S \subseteq T
  PROVE  ComponentOf(A, C, S)
<1> SUFFICES ASSUME NEW T \in SUBSET S, T # {}, ClosedOf(A, C, T)
             PROVE  T = S
  BY DEF ComponentOf
<1>1. CASE v \in T
  BY <1>1
<1>2. CASE v \notin T
  <2>1. ClosedOf(A, C, S \ T) /\ v \in S \ T /\ S \ T \in SUBSET Var
    BY <1>2, ClosedParts
  <2>2. S \subseteq S \ T
    BY <2>1
  <2> QED
    BY <2>2
<1> QED
  BY <1>1, <1>2

\* The names of the module and of this one.
LEMMA SameNames ==
  /\ \A S : IsComponent(S) <=> ComponentOf(assigned, unsat, S)
  /\ ComponentsExact <=>
       (pc = "done" => ExactOf(assigned, unsat, setOfVar, varCo, freeVar, notFreeVar))
<1>1. \A S : Closed(S) <=> ClosedOf(assigned, unsat, S)
  BY DEF Closed, ClosedOf, Rest, RestOf
<1>2. \A S : IsComponent(S) <=> ComponentOf(assigned, unsat, S)
  BY <1>1 DEF IsComponent, ComponentOf
<1> QED
  BY <1>2 DEF ComponentsExact, ExactOf

\* The same in the next state.
LEMMA SameNamesNext ==
  ComponentsExact' <=>
    (pc' = "done" => ExactOf(assigned', unsat', setOfVar', varCo', freeVar', notFreeVar'))
<1>1. \A S : Closed(S)' <=> ClosedOf(assigned', unsat', S)
  BY DEF Closed, ClosedOf, Rest, RestOf
<1>2. \A S : IsComponent(S)' <=> ComponentOf(assigned', unsat', S)
  BY <1>1 DEF IsComponent, ComponentOf
<1> QED
  BY <1>2 DEF ComponentsExact, ExactOf

-----------------------------------------------------------------------------
(* The steps of the search.                                                *)

\* What a variable with a number, and what is left of a clause, are.
LEMMA NumberedFacts ==
  ASSUME IInv
  PROVE  /\ \A v \in Var : idxComponent[v] \in Nat
         /\ \A v \in Var : idxComponent[v] # 0 => v \in ToSet(setOfVar) /\ v \notin assigned
         /\ \A c \in Idx : VarsOf[c] \in SUBSET Var
         /\ \A n \in DOMAIN setOfVar : setOfVar[n] \in Var /\ setOfVar[n] \in ToSet(setOfVar)
         /\ ToSet(setOfVar) \in SUBSET Var
         /\ DOMAIN setOfVar = 1 .. Len(setOfVar) /\ Len(setOfVar) \in Nat
<1>1. idxComponent \in [Var -> Nat] /\ setOfVar \in Seq(Var)
  BY DEF IInv, TypeOK
<1>2. \A v \in Var : idxComponent[v] # 0 => v \in ToSet(setOfVar) \ assigned
  BY DEF IInv, ScratchClean
<1>3. DOMAIN setOfVar = 1 .. Len(setOfVar) /\ Len(setOfVar) \in Nat
  BY <1>1
<1>4. \A n \in DOMAIN setOfVar : setOfVar[n] \in Var
  BY <1>1, <1>3, ElementOfSeq
<1> QED
  BY <1>1, <1>2, <1>3, <1>4 DEF ToSet

\* A step of the search leaves the caller and the last results alone.
LEMMA SearchStep ==
  ASSUME IInv, UNCHANGED <<caller, result>>, pc' \in {"start", "search"}, TypeOK',
         mustUnMark' = markView',
         \A v \in Var : idxComponent'[v] # 0 => v \in ToSet(setOfVar) \ assigned,
         SearchInv'
  PROVE  IInv'
<1>1. PassedClosed' /\ FramesOK'
  BY DEF IInv, caller, PassedClosed, FramesOK
<1>2. ScratchClean'
  BY DEF ScratchClean, caller
<1>3. ComponentsExact'
  BY DEF ComponentsExact
<1> QED
  BY <1>1, <1>2, <1>3 DEF IInv

\* A variable that is assigned or has a number is passed over.
LEMMA SkipVarStep ==
  ASSUME IInv, SkipVar
  PROVE  IInv'
<1>1. TypeOK'
  BY DEF IInv, TypeOK, SkipVar, caller, result
<1>2. SearchInv
  BY DEF IInv, SkipVar
<1>3. i' \in 1 .. Len(setOfVar') + 1
  BY NumberedFacts DEF SkipVar, caller, SearchInv, IInv
<1>4. ClassesFound'
  <2>1. \A v \in Var : idxComponent'[v] <= nbComponent'
    BY <1>2 DEF SearchInv, ClassesFound, SkipVar
  <2>2. \A k \in 1 .. nbComponent' : Big(ClassOf(idxComponent, k))'
    BY <1>2 DEF SearchInv, ClassesFound, SkipVar, Big, caller, ClassOf
  <2>3. \A j \in 1 .. i' - 1 :
          \/ setOfVar[j] \in assigned \/ idxComponent[setOfVar[j]] # 0
          \/ ComponentOf(assigned, unsat, {setOfVar[j]})
    <3>1. i \in Nat \ {0} /\ i' = i + 1
      BY DEF SkipVar, IInv, TypeOK
    <3>2. \A j \in 1 .. i' - 1 : j \in 1 .. i - 1 \/ j = i
      BY <3>1
    <3> QED
      BY <1>2, <3>2 DEF SearchInv, ClassesFound, SkipVar
  <2> QED
    BY <2>1, <2>2, <2>3 DEF ClassesFound, SkipVar, caller, ClassOf
<1>5. MarkedInOneClass'
  BY <1>2 DEF SearchInv, MarkedInOneClass, SkipVar, caller
<1>6. SearchInv'
  BY <1>3, <1>4, <1>5 DEF SearchInv, SkipVar
<1> QED
  BY <1>1, <1>6, NumberedFacts, SearchStep DEF SkipVar, IInv

\* A variable without a number starts a class.
LEMMA NewComponentStep ==
  ASSUME IInv, NewComponent
  PROVE  IInv'
<1> DEFINE v == setOfVar[i]
<1>1. v \in Var /\ v \in ToSet(setOfVar) /\ v \notin assigned /\ i \in DOMAIN setOfVar
  BY NumberedFacts DEF NewComponent
<1>2. idxComponent[v] = 0 /\ SearchInv
  BY DEF NewComponent, IInv
<1> HIDE DEF v
<1>3. nbComponent \in Nat /\ idxComponent \in [Var -> Nat]
  BY DEF IInv, TypeOK
<1>4. /\ idxComponent' = [idxComponent EXCEPT ![v] = nbComponent + 1]
      /\ nbComponent' = nbComponent + 1
      /\ tmpVecVar' = {v} /\ todo' = {v}
      /\ UNCHANGED <<caller, markView, mustUnMark, i, result>>
      /\ pc = "start" /\ pc' = "search"
  BY DEF NewComponent, v
<1>5. idxComponent'[v] = nbComponent + 1 /\ \A u \in Var : u # v => idxComponent'[u] = idxComponent[u]
  BY <1>1, <1>3, <1>4
<1>6. TypeOK'
  <2>1. idxComponent' \in [Var -> Nat]
    <3>1. nbComponent + 1 \in Nat
      BY <1>3
    <3> QED
      BY <1>3, <1>4, <3>1
  <2> QED
    BY <1>1, <1>3, <1>4, <2>1 DEF IInv, TypeOK, caller, result
<1>7. /\ \A u \in Var : idxComponent[u] <= nbComponent
      /\ \A k \in 1 .. nbComponent : Big(ClassOf(idxComponent, k))
      /\ \A j \in 1 .. i - 1 :
           \/ setOfVar[j] \in assigned \/ idxComponent[setOfVar[j]] # 0
           \/ ComponentOf(assigned, unsat, {setOfVar[j]})
  BY <1>2, <1>4 DEF SearchInv, ClassesFound
<1>8. ClassesFound'
  <2>1. \A u \in Var : idxComponent'[u] <= nbComponent'
    <3> TAKE u \in Var
    <3>1. idxComponent[u] <= nbComponent /\ idxComponent[u] \in Nat
      BY <1>3, <1>7
    <3> QED
      BY <1>3, <1>4, <1>5, <3>1
  <2>2. ASSUME NEW k \in 1 .. nbComponent
        PROVE  ClassOf(idxComponent', k) = ClassOf(idxComponent, k)
    BY <1>2, <1>3, <1>5 DEF ClassOf
  <2>3. \A k \in 1 .. nbComponent : Big(ClassOf(idxComponent, k))'
    <3> TAKE k \in 1 .. nbComponent
    <3>1. Big(ClassOf(idxComponent, k))
      BY <1>7
    <3> QED
      BY <1>4, <2>2, <3>1 DEF Big, caller
  <2>4. \A j \in 1 .. i - 1 :
          \/ setOfVar[j] \in assigned \/ idxComponent'[setOfVar[j]] # 0
          \/ ComponentOf(assigned, unsat, {setOfVar[j]})
    <3> TAKE j \in 1 .. i - 1
    <3>1. setOfVar[j] \in Var
      <4>1. j \in 1 .. Len(setOfVar)
        BY <1>1, NumberedFacts
      <4> QED
        BY <4>1, NumberedFacts
    <3>2. idxComponent[setOfVar[j]] # 0 => idxComponent'[setOfVar[j]] # 0
      BY <1>2, <1>5, <3>1
    <3> QED
      BY <1>7, <3>2
  <2>5. nbComponent' - 1 = nbComponent
    BY <1>3, <1>4
  <2> QED
    BY <1>4, <2>1, <2>3, <2>4, <2>5 DEF ClassesFound, caller
<1>9. MarkedInOneClass'
  <2>1. ASSUME NEW c \in markView, NEW u \in RestOf(assigned, c), NEW w \in RestOf(assigned, c)
        PROVE  /\ c \in unsat
               /\ idxComponent'[u] = idxComponent'[w]
               /\ idxComponent'[u] = 0 => u = w
    <3>1. u \in Var /\ w \in Var
      BY NumberedFacts DEF RestOf, IInv, TypeOK
    <3>2. /\ c \in unsat /\ idxComponent[u] = idxComponent[w]
          /\ idxComponent[u] = 0 => u = w
      BY <1>2 DEF SearchInv, MarkedInOneClass
    <3>3. CASE u = v \/ w = v
      BY <1>2, <3>1, <3>2, <3>3
    <3>4. CASE u # v /\ w # v
      BY <1>5, <3>1, <3>2, <3>4
    <3> QED
      BY <3>2, <3>3, <3>4
  <2>2. \A c \in markView : c \in unsat
    BY <1>2 DEF SearchInv, MarkedInOneClass
  <2> QED
    BY <1>4, <2>1, <2>2 DEF MarkedInOneClass, caller
<1>10. ClassInSearch'
  <2>1. {v} = ClassOf(idxComponent', nbComponent')
    <3>1. \A u \in Var : idxComponent'[u] = nbComponent + 1 <=> u = v
      BY <1>3, <1>5, <1>7
    <3> QED
      BY <1>1, <1>4, <3>1 DEF ClassOf
  <2>2. setOfVar'[i'] = v /\ i' \in DOMAIN setOfVar' /\ nbComponent' > 0
    BY <1>1, <1>3, <1>4 DEF v, caller
  <2> QED
    BY <1>4, <2>1, <2>2 DEF ClassInSearch
<1>11. SearchInv'
  <2>1. i' \in 1 .. Len(setOfVar') + 1
    BY <1>2, <1>4 DEF SearchInv, caller
  <2> QED
    BY <2>1, <1>8, <1>9, <1>10 DEF SearchInv
<1>12. \A u \in Var : idxComponent'[u] # 0 => u \in ToSet(setOfVar) \ assigned
  BY <1>1, <1>5, NumberedFacts
<1> QED
  BY <1>4, <1>6, <1>11, <1>12, SearchStep DEF IInv

\* A variable of the class is expanded: its clauses are seen, and what they lead
\* to joins the class (the loop over pos, with connectedToLit).
LEMMA ExpandStep ==
  ASSUME IInv, NEW v \in Var, Expand(v)
  PROVE  IInv'
<1> DEFINE M == NewClauses(v)
           N == NewVars(v)
           start == setOfVar[i]
<1>1. /\ markView' = markView \cup M /\ mustUnMark' = mustUnMark \cup M
      /\ idxComponent' = [u \in Var |-> IF u \in N THEN nbComponent ELSE idxComponent[u]]
      /\ tmpVecVar' = tmpVecVar \cup N
      /\ todo' = (todo \ {v}) \cup N
      /\ UNCHANGED <<caller, nbComponent, i, pc, result>>
      /\ pc = "search" /\ v \in todo
  BY DEF Expand, Remaining
<1>2. SearchInv /\ ClassInSearch
  BY <1>1 DEF IInv, SearchInv
<1>3. /\ nbComponent \in Nat \ {0} /\ idxComponent \in [Var -> Nat]
      /\ unsat \in SUBSET Idx /\ tmpVecVar \in SUBSET Var /\ todo \in SUBSET Var
      /\ markView \in SUBSET Idx
  BY <1>2 DEF IInv, TypeOK, ClassInSearch
<1>4. v \in tmpVecVar /\ idxComponent[v] = nbComponent /\ v \in ToSet(setOfVar) /\ v \notin assigned
  <2>1. v \in tmpVecVar /\ idxComponent[v] = nbComponent
    BY <1>1, <1>2 DEF ClassInSearch, ClassOf
  <2> QED
    BY <1>3, <2>1, NumberedFacts
<1>5. /\ M \subseteq unsat
      /\ \A c \in M : v \in RestOf(assigned, c)
      /\ \A c \in unsat : v \in VarsOf[c] => c \in markView \/ c \in M
  BY <1>4 DEF NewClauses, RestOf
<1>6. /\ N \in SUBSET Var
      /\ \A u \in N : u \notin assigned /\ idxComponent[u] = 0
      /\ \A u \in N : \E c \in M : u \in RestOf(assigned, c)
      /\ \A c \in M : \A u \in RestOf(assigned, c) : idxComponent[u] = 0 => u \in N
  <2>1. \A c \in M : VarsOf[c] \in SUBSET Var
    BY <1>3, <1>5, NumberedFacts
  <2> QED
    BY <2>1 DEF NewVars, RestOf
<1> HIDE DEF M, N
<1>7. N \subseteq ToSet(setOfVar) \ assigned
  <2>1. \A c \in M : RestOf(assigned, c) \subseteq ToSet(setOfVar) \ assigned
    BY <1>4, <1>5 DEF IInv, PassedClosed, ClosedOf
  <2> QED
    BY <1>6, <2>1
<1>8. \A u \in Var : idxComponent'[u] = IF u \in N THEN nbComponent ELSE idxComponent[u]
  BY <1>1
<1>9. TypeOK'
  <2>1. idxComponent' \in [Var -> Nat]
    BY <1>1, <1>3
  <2>2. tmpVecVar' \in SUBSET Var /\ todo' \in SUBSET Var
    BY <1>1, <1>3, <1>6
  <2>3. markView' \in SUBSET Idx /\ mustUnMark' \in SUBSET Idx
    BY <1>1, <1>3, <1>5 DEF IInv, TypeOK
  <2> QED
    BY <1>1, <2>1, <2>2, <2>3 DEF IInv, TypeOK, caller, result
<1>10. /\ \A u \in Var : idxComponent[u] <= nbComponent
       /\ \A k \in 1 .. nbComponent - 1 : Big(ClassOf(idxComponent, k))
       /\ \A j \in 1 .. i - 1 :
            \/ setOfVar[j] \in assigned \/ idxComponent[setOfVar[j]] # 0
            \/ ComponentOf(assigned, unsat, {setOfVar[j]})
  BY <1>1, <1>2 DEF SearchInv, ClassesFound
<1>11. ClassesFound'
  <2>1. \A u \in Var : idxComponent'[u] <= nbComponent
    BY <1>3, <1>8, <1>10
  <2>2. \A k \in 1 .. nbComponent - 1 : ClassOf(idxComponent', k) = ClassOf(idxComponent, k)
    BY <1>3, <1>6, <1>8 DEF ClassOf
  <2>3. \A k \in 1 .. nbComponent - 1 : Big(ClassOf(idxComponent, k))'
    <3> TAKE k \in 1 .. nbComponent - 1
    <3>1. Big(ClassOf(idxComponent, k))
      BY <1>10
    <3> QED
      BY <1>1, <2>2, <3>1 DEF Big, caller
  <2>4. \A j \in 1 .. i - 1 :
          \/ setOfVar[j] \in assigned \/ idxComponent'[setOfVar[j]] # 0
          \/ ComponentOf(assigned, unsat, {setOfVar[j]})
    <3> TAKE j \in 1 .. i - 1
    <3>1. setOfVar[j] \in Var
      <4>1. j \in 1 .. Len(setOfVar)
        BY <1>2, NumberedFacts DEF ClassInSearch
      <4> QED
        BY <4>1, NumberedFacts
    <3>2. idxComponent[setOfVar[j]] # 0 => idxComponent'[setOfVar[j]] # 0
      BY <1>3, <1>8, <3>1
    <3> QED
      BY <1>10, <3>2
  <2> QED
    BY <1>1, <2>1, <2>3, <2>4 DEF ClassesFound, caller
<1>12. ASSUME NEW c \in M, NEW u \in RestOf(assigned, c)
       PROVE  idxComponent'[u] = nbComponent
  <2>1. u \in Var /\ u \notin assigned
    BY <1>3, <1>5, NumberedFacts DEF RestOf
  <2>2. CASE idxComponent[u] = 0
    BY <1>6, <1>8, <2>1, <2>2
  <2>3. CASE idxComponent[u] # 0
    <3>1. idxComponent[u] = nbComponent
      <4> SUFFICES ASSUME idxComponent[u] # nbComponent
                   PROVE  FALSE
        OBVIOUS
      <4> DEFINE k == idxComponent[u]
      <4>1. k \in 1 .. nbComponent - 1
        BY <1>3, <1>10, <2>1, <2>3
      <4>2. ClosedOf(assigned, unsat, ClassOf(idxComponent, k))
        BY <1>10, <4>1 DEF Big, ComponentOf
      <4>3. u \in ClassOf(idxComponent, k)
        BY <2>1 DEF ClassOf
      <4>4. RestOf(assigned, c) \subseteq ClassOf(idxComponent, k)
        BY <1>5, <4>2, <4>3 DEF ClosedOf
      <4>5. v \in ClassOf(idxComponent, k)
        BY <1>5, <4>4
      <4> QED
        BY <1>4, <4>5 DEF ClassOf
    <3> QED
      BY <1>8, <2>1, <3>1
  <2> QED
    BY <2>2, <2>3
<1>13. MarkedInOneClass'
  <2>1. ASSUME NEW c \in markView', NEW u \in RestOf(assigned, c), NEW w \in RestOf(assigned, c)
        PROVE  /\ idxComponent'[u] = idxComponent'[w]
               /\ idxComponent'[u] = 0 => u = w
    <3>1. CASE c \in M
      BY <1>3, <1>12, <3>1
    <3>2. CASE c \in markView
      <4>1. u \in Var /\ w \in Var
        BY <1>3, <3>2, NumberedFacts DEF RestOf
      <4>2. /\ idxComponent[u] = idxComponent[w]
            /\ idxComponent[u] = 0 => u = w
        BY <1>2, <3>2 DEF SearchInv, MarkedInOneClass
      <4>3. CASE idxComponent[u] = 0
        BY <4>2, <4>3
      <4>4. CASE idxComponent[u] # 0
        BY <1>6, <1>8, <4>1, <4>2, <4>4
      <4> QED
        BY <4>3, <4>4
    <3> QED
      BY <1>1, <3>1, <3>2
  <2>2. \A c \in markView' : c \in unsat
    BY <1>1, <1>2, <1>5 DEF SearchInv, MarkedInOneClass
  <2>3. assigned' = assigned /\ unsat' = unsat
    BY <1>1 DEF caller
  <2> QED
    BY <2>1, <2>2, <2>3 DEF MarkedInOneClass
<1>14. ClassInSearch'
  <2>1. tmpVecVar' = ClassOf(idxComponent', nbComponent')
    BY <1>1, <1>2, <1>6, <1>8 DEF ClassInSearch, ClassOf
  <2>2. start \in tmpVecVar' /\ todo' \subseteq tmpVecVar'
    BY <1>1, <1>2 DEF ClassInSearch
  <2>3. ASSUME NEW x \in tmpVecVar' \ todo', NEW c \in unsat, x \in VarsOf[c]
        PROVE  c \in markView'
    <3>1. x = v \/ x \in tmpVecVar \ todo
      BY <1>1, <2>3
    <3>2. CASE x = v
      BY <1>1, <1>5, <2>3, <3>2
    <3>3. CASE x \in tmpVecVar \ todo
      BY <1>1, <1>2, <2>3, <3>3 DEF ClassInSearch
    <3> QED
      BY <3>1, <3>2, <3>3
  <2>4. ASSUME NEW T \in SUBSET Var, ClosedOf(assigned, unsat, T), start \in T
        PROVE  tmpVecVar' \subseteq T
    <3>1. tmpVecVar \subseteq T
      BY <1>2, <2>4 DEF ClassInSearch
    <3>2. \A c \in M : RestOf(assigned, c) \subseteq T
      BY <1>4, <1>5, <2>4, <3>1 DEF ClosedOf
    <3> QED
      BY <1>1, <1>6, <3>1, <3>2
  <2>5. i \in DOMAIN setOfVar /\ nbComponent > 0
    BY <1>2 DEF ClassInSearch
  <2> QED
    BY <1>1, <2>1, <2>2, <2>3, <2>4, <2>5 DEF ClassInSearch, caller
<1>15. SearchInv'
  <2>1. i' \in 1 .. Len(setOfVar') + 1
    BY <1>1, <1>2 DEF SearchInv, caller
  <2> QED
    BY <2>1, <1>11, <1>13, <1>14 DEF SearchInv
<1>16. \A u \in Var : idxComponent'[u] # 0 => u \in ToSet(setOfVar) \ assigned
  BY <1>7, <1>8, NumberedFacts
<1> QED
  BY <1>1, <1>9, <1>15, <1>16, SearchStep DEF IInv

\* At the end of its search the class is a component: a large one keeps its
\* number, and a variable alone gives it back.
LEMMA EndComponentStep ==
  ASSUME IInv, EndComponent
  PROVE  IInv'
<1> DEFINE x == setOfVar[i]
<1>1. /\ idxComponent' = [idxComponent EXCEPT ![x] = IF Alone THEN 0 ELSE @]
      /\ nbComponent' = IF Alone THEN nbComponent - 1 ELSE nbComponent
      /\ i' = i + 1 /\ pc' = "start" /\ pc = "search" /\ todo = {}
      /\ UNCHANGED <<caller, markView, mustUnMark, tmpVecVar, todo, result>>
  BY DEF EndComponent, WithoutAlone
<1>2. SearchInv /\ ClassInSearch
  BY <1>1 DEF IInv, SearchInv
<1>3. /\ nbComponent \in Nat \ {0} /\ idxComponent \in [Var -> Nat] /\ unsat \in SUBSET Idx
      /\ tmpVecVar \in SUBSET Var /\ i \in 1 .. Len(setOfVar) /\ Len(setOfVar) \in Nat
  BY <1>2, NumberedFacts DEF IInv, TypeOK, ClassInSearch
<1>4. x \in Var /\ x \in tmpVecVar /\ idxComponent[x] = nbComponent
  BY <1>2, NumberedFacts DEF ClassInSearch, ClassOf
<1> HIDE DEF x
<1>5. ClosedOf(assigned, unsat, tmpVecVar)
  <2>1. tmpVecVar \cap assigned = {}
    BY <1>2, <1>3, NumberedFacts DEF ClassInSearch, ClassOf
  <2>2. ASSUME NEW c \in unsat, NEW u \in RestOf(assigned, c), u \in tmpVecVar,
               NEW w \in RestOf(assigned, c)
        PROVE  w \in tmpVecVar
    <3>1. c \in markView
      BY <1>1, <1>2, <2>2 DEF ClassInSearch, RestOf
    <3>2. idxComponent[w] = idxComponent[u] /\ w \in Var
      BY <1>2, <1>3, <3>1, NumberedFacts DEF SearchInv, MarkedInOneClass, RestOf
    <3> QED
      BY <1>2, <2>2, <3>2 DEF ClassInSearch, ClassOf
  <2> QED
    BY <2>1, <2>2 DEF ClosedOf
<1>6. ComponentOf(assigned, unsat, tmpVecVar)
  BY <1>2, <1>3, <1>4, <1>5, ReachedIsComponent DEF ClassInSearch, x
<1>7. /\ \A u \in Var : idxComponent[u] <= nbComponent
      /\ \A k \in 1 .. nbComponent - 1 : Big(ClassOf(idxComponent, k))
      /\ \A j \in 1 .. i - 1 :
           \/ setOfVar[j] \in assigned \/ idxComponent[setOfVar[j]] # 0
           \/ ComponentOf(assigned, unsat, {setOfVar[j]})
  BY <1>1, <1>2 DEF SearchInv, ClassesFound
<1>8. \A j \in 1 .. i - 1 : setOfVar[j] \in Var
  BY <1>3, NumberedFacts
<1>9. /\ ClassesFound' /\ MarkedInOneClass'
      /\ idxComponent' \in [Var -> Nat] /\ nbComponent' \in Nat
      /\ \A u \in Var : idxComponent'[u] # 0 => idxComponent[u] # 0
  <2>1. CASE Alone
    <3>1. tmpVecVar = {x}
      BY <1>3, <1>4, <2>1, OneOrMore DEF Alone
    <3>2. /\ idxComponent' = [idxComponent EXCEPT ![x] = 0]
          /\ nbComponent' = nbComponent - 1
      BY <1>1, <2>1
    <3>3. idxComponent'[x] = 0 /\ \A u \in Var : u # x => idxComponent'[u] = idxComponent[u]
      BY <1>3, <1>4, <3>2
    <3>4. \A u \in Var : idxComponent[u] = nbComponent <=> u = x
      BY <1>2, <3>1 DEF ClassInSearch, ClassOf
    <3>5. idxComponent' \in [Var -> Nat] /\ nbComponent' \in Nat
      <4>1. idxComponent' \in [Var -> Nat]
        BY <1>3, <3>2
      <4> QED
        BY <1>3, <3>2, <4>1
    <3>6. \A u \in Var : idxComponent'[u] <= nbComponent'
      <4> TAKE u \in Var
      <4>1. idxComponent[u] \in Nat /\ idxComponent[u] <= nbComponent
        BY <1>3, <1>7
      <4> QED
        BY <1>3, <3>2, <3>3, <3>4, <4>1
    <3>7. ASSUME NEW k \in 1 .. nbComponent - 1
          PROVE  ClassOf(idxComponent', k) = ClassOf(idxComponent, k)
      <4>1. k # 0 /\ k # nbComponent
        BY <1>3
      <4> QED
        BY <1>4, <3>3, <4>1 DEF ClassOf
    <3>8. \A k \in 1 .. nbComponent' : Big(ClassOf(idxComponent, k))'
      <4> TAKE k \in 1 .. nbComponent'
      <4>1. k \in 1 .. nbComponent - 1
        BY <3>2
      <4>2. Big(ClassOf(idxComponent, k))
        BY <1>7, <4>1
      <4> QED
        BY <1>1, <3>7, <4>1, <4>2 DEF Big, caller
    <3>9. \A j \in 1 .. i' - 1 :
            \/ setOfVar[j] \in assigned \/ idxComponent'[setOfVar[j]] # 0
            \/ ComponentOf(assigned, unsat, {setOfVar[j]})
      <4> TAKE j \in 1 .. i' - 1
      <4>1. CASE setOfVar[j] = x
        BY <1>6, <3>1, <4>1
      <4>2. CASE setOfVar[j] # x
        <5>1. j \in 1 .. i - 1
          BY <1>1, <1>3, <4>2 DEF x
        <5> QED
          BY <1>7, <1>8, <3>3, <4>2, <5>1
      <4> QED
        BY <4>1, <4>2
    <3>10. ClassesFound'
      BY <1>1, <3>6, <3>8, <3>9 DEF ClassesFound, caller
    <3>11. MarkedInOneClass'
      <4>1. ASSUME NEW c \in markView, NEW u \in RestOf(assigned, c), NEW w \in RestOf(assigned, c)
            PROVE  /\ idxComponent'[u] = idxComponent'[w]
                   /\ idxComponent'[u] = 0 => u = w
        <5>1. u \in Var /\ w \in Var
          BY NumberedFacts DEF RestOf, IInv, TypeOK
        <5>2. /\ idxComponent[u] = idxComponent[w]
              /\ idxComponent[u] = 0 => u = w
          BY <1>2 DEF SearchInv, MarkedInOneClass
        <5> QED
          BY <3>3, <3>4, <5>1, <5>2
      <4> QED
        BY <1>1, <1>2, <4>1 DEF SearchInv, MarkedInOneClass, caller
    <3> QED
      BY <3>3, <3>5, <3>10, <3>11
  <2>2. CASE ~Alone
    <3>1. idxComponent' = idxComponent /\ nbComponent' = nbComponent
      BY <1>1, <1>3, <2>2
    <3>2. Big(tmpVecVar)
      <4>1. Cardinality(tmpVecVar) \in Nat
        BY <1>3, <1>4, OneOrMore
      <4> QED
        BY <1>6, <2>2, <4>1 DEF Alone, Big
    <3>3. \A k \in 1 .. nbComponent : Big(ClassOf(idxComponent, k))
      <4> TAKE k \in 1 .. nbComponent
      <4>1. CASE k = nbComponent
        BY <1>2, <3>2, <4>1 DEF ClassInSearch
      <4>2. CASE k # nbComponent
        BY <1>3, <1>7, <4>2
      <4> QED
        BY <4>1, <4>2
    <3>4. \A k \in 1 .. nbComponent : Big(ClassOf(idxComponent, k))'
      <4>1. \A k : ClassOf(idxComponent, k)' = ClassOf(idxComponent, k)
        BY <3>1 DEF ClassOf
      <4>2. \A k : Big(ClassOf(idxComponent, k))' <=> Big(ClassOf(idxComponent, k))
        BY <1>1, <4>1 DEF Big, caller
      <4> QED
        BY <3>3, <4>2
    <3>5. \A j \in 1 .. i' - 1 :
            \/ setOfVar[j] \in assigned \/ idxComponent[setOfVar[j]] # 0
            \/ ComponentOf(assigned, unsat, {setOfVar[j]})
      <4> TAKE j \in 1 .. i' - 1
      <4>1. j \in 1 .. i - 1 \/ j = i
        BY <1>1, <1>3
      <4> QED
        BY <1>3, <1>4, <1>7, <4>1 DEF x
    <3>6. ClassesFound'
      BY <1>1, <1>7, <3>1, <3>4, <3>5 DEF ClassesFound, caller
    <3>7. MarkedInOneClass'
      BY <1>1, <1>2, <3>1 DEF SearchInv, MarkedInOneClass, caller
    <3> QED
      BY <1>3, <3>1, <3>6, <3>7
  <2> QED
    BY <2>1, <2>2
<1>10. TypeOK'
  BY <1>1, <1>9 DEF IInv, TypeOK, caller, result
<1>11. SearchInv'
  <2>1. i' \in 1 .. Len(setOfVar') + 1
    BY <1>1, <1>3 DEF caller
  <2> QED
    BY <1>1, <1>9, <2>1 DEF SearchInv
<1>12. \A u \in Var : idxComponent'[u] # 0 => u \in ToSet(setOfVar) \ assigned
  BY <1>9, NumberedFacts
<1> QED
  BY <1>1, <1>10, <1>11, <1>12, SearchStep DEF IInv

\* What keeping some variables of the set makes (the loop that shares them out).
LEMMA KeptVars ==
  ASSUME NEW s \in Seq(Var), NEW S
  PROVE  Kept(s, S) \in Seq(Var) /\ ToSet(Kept(s, S)) = ToSet(s) \cap S
BY KeptFacts DEF ToSet

\* Two tests that agree on the set keep the same.
LEMMA SameKept ==
  ASSUME NEW s \in Seq(Var), NEW S, NEW T, \A v \in ToSet(s) : v \in S <=> v \in T
  PROVE  Kept(s, S) = Kept(s, T)
<1>1. \A n \in 1 .. Len(s) : s[n] \in ToSet(s)
  BY DEF ToSet
<1> QED
  BY <1>1, KeptSame

\* When all variables have been passed over the classes are the large components,
\* and the rest are alone.
LEMMA ClassesAtEnd ==
  ASSUME IInv, Distribute
  PROVE  LET passed == ToSet(setOfVar) \ assigned IN
         /\ \A v \in passed : idxComponent[v] = 0 <=> ComponentOf(assigned, unsat, {v})
         /\ \A v \in Var : idxComponent[v] # 0 => idxComponent[v] \in 1 .. nbComponent
         /\ \A k \in 1 .. nbComponent :
              /\ Big(ClassOf(idxComponent, k))
              /\ ClassOf(idxComponent, k) \subseteq passed
              /\ ClassOf(idxComponent, k) # {}
<1> DEFINE passed == ToSet(setOfVar) \ assigned
<1>1. SearchInv /\ pc = "start" /\ i = Len(setOfVar) + 1 /\ Len(setOfVar) \in Nat
  BY NumberedFacts DEF IInv, Distribute
<1>2. /\ nbComponent \in Nat /\ idxComponent \in [Var -> Nat]
      /\ \A v \in Var : idxComponent[v] <= nbComponent
  BY <1>1 DEF IInv, TypeOK, SearchInv, ClassesFound
<1>3. \A v \in Var : idxComponent[v] # 0 => idxComponent[v] \in 1 .. nbComponent
  BY <1>2
<1>4. ASSUME NEW k \in 1 .. nbComponent
      PROVE  /\ Big(ClassOf(idxComponent, k))
             /\ ClassOf(idxComponent, k) \subseteq passed
             /\ ClassOf(idxComponent, k) # {}
  <2>1. Big(ClassOf(idxComponent, k))
    BY <1>1 DEF SearchInv, ClassesFound
  <2>2. k # 0
    BY <1>2
  <2> QED
    BY <2>1, <2>2, NumberedFacts DEF Big, ComponentOf, ClassOf
<1>5. ASSUME NEW v \in passed, idxComponent[v] = 0
      PROVE  ComponentOf(assigned, unsat, {v})
  <2>1. PICK j \in DOMAIN setOfVar : setOfVar[j] = v
    BY DEF ToSet
  <2>2. j \in 1 .. i - 1
    BY <1>1, <2>1, NumberedFacts
  <2> QED
    BY <1>1, <1>5, <2>1, <2>2 DEF SearchInv, ClassesFound
<1>6. ASSUME NEW v \in passed, idxComponent[v] # 0
      PROVE  ~ComponentOf(assigned, unsat, {v})
  <2> SUFFICES ASSUME ComponentOf(assigned, unsat, {v})
               PROVE  FALSE
    OBVIOUS
  <2> DEFINE S == ClassOf(idxComponent, idxComponent[v])
  <2>1. v \in Var
    BY NumberedFacts
  <2>2. v \in S /\ S \in SUBSET Var /\ Big(S)
    BY <1>3, <1>4, <1>6, <2>1 DEF ClassOf
  <2> HIDE DEF S
  <2>3. S = {v}
    BY <2>2, SameComponent DEF Big
  <2>4. Cardinality(S) = 1
    BY <2>1, <2>3, OneOrMore
  <2> QED
    BY <2>2, <2>4 DEF Big
<1> QED
  BY <1>3, <1>4, <1>5, <1>6

\* resetUnMark and the loop that shares out the variables.
LEMMA DistributeStep ==
  ASSUME IInv, Distribute
  PROVE  IInv'
<1> DEFINE passed == ToSet(setOfVar) \ assigned
           class(k) == ClassOf(idxComponent, k)
<1>1. /\ \A v \in passed : idxComponent[v] = 0 <=> ComponentOf(assigned, unsat, {v})
      /\ \A v \in Var : idxComponent[v] # 0 => idxComponent[v] \in 1 .. nbComponent
      /\ \A k \in 1 .. nbComponent : Big(class(k)) /\ class(k) \subseteq passed /\ class(k) # {}
  BY ClassesAtEnd
<1>2. /\ nbComponent \in Nat /\ idxComponent \in [Var -> Nat] /\ setOfVar \in Seq(Var)
      /\ passed \in SUBSET Var
  BY NumberedFacts DEF IInv, TypeOK
<1>3. /\ varCo' = [k \in 1 .. nbComponent |-> Kept(setOfVar, class(k))]
      /\ notFreeVar' = Kept(setOfVar, {v \in Var : idxComponent[v] # 0})
      /\ freeVar' = Kept(setOfVar, {v \in Var : idxComponent[v] = 0} \ assigned)
      /\ idxComponent' = [v \in Var |-> IF v \in ToSet(setOfVar) THEN 0 ELSE idxComponent[v]]
      /\ markView' = markView \ mustUnMark /\ mustUnMark' = {}
      /\ pc' = "done"
      /\ UNCHANGED <<caller, nbComponent, tmpVecVar, todo, i>>
  BY DEF Distribute, InComponent, Unmarked, ClassOf
<1>4. idxComponent' = [v \in Var |-> 0] /\ markView' = {}
  <2>1. \A v \in Var : v \notin ToSet(setOfVar) => idxComponent[v] = 0
    BY NumberedFacts
  <2> QED
    BY <1>3, <2>1 DEF IInv
<1>5. DOMAIN varCo' = 1 .. nbComponent
  BY <1>3
<1>6. ASSUME NEW k \in 1 .. nbComponent
      PROVE  varCo'[k] \in Seq(Var) /\ varCo'[k] = Kept(setOfVar, class(k)) /\ ToSet(varCo'[k]) = class(k)
  <2>1. varCo'[k] = Kept(setOfVar, class(k))
    BY <1>3
  <2>2. ToSet(setOfVar) \cap class(k) = class(k)
    BY <1>1
  <2> HIDE DEF class
  <2> QED
    BY <1>2, <2>1, <2>2, KeptVars
<1>7. varCo' \in Seq(Seq(Var))
  <2>1. varCo' \in [1 .. nbComponent -> Seq(Var)]
    BY <1>3, <1>6
  <2> QED
    BY <1>2, <2>1, FunctionIsSeq
<1>8. freeVar' \in Seq(Var) /\ notFreeVar' \in Seq(Var)
  BY <1>2, <1>3, KeptVars
<1>9. TypeOK'
  <2>1. idxComponent' \in [Var -> Nat]
    BY <1>4
  <2> QED
    BY <1>3, <1>4, <1>7, <1>8, <2>1 DEF IInv, TypeOK, caller
<1>10. ASSUME NEW S \in SUBSET passed
       PROVE  ComponentOf(assigned, unsat, S) /\ Cardinality(S) > 1
                <=> \E k \in DOMAIN varCo' : ToSet(varCo'[k]) = S
  <2>1. ASSUME ComponentOf(assigned, unsat, S), Cardinality(S) > 1
        PROVE  \E k \in DOMAIN varCo' : ToSet(varCo'[k]) = S
    <3>1. PICK v \in S : TRUE
      BY <2>1 DEF ComponentOf
    <3>2. v \in Var /\ v \in passed /\ S \in SUBSET Var
      BY <1>2, <3>1
    <3>3. idxComponent[v] # 0
      <4> SUFFICES ASSUME idxComponent[v] = 0
                   PROVE  FALSE
        OBVIOUS
      <4>1. ComponentOf(assigned, unsat, {v})
        BY <1>1, <3>2
      <4>2. S = {v}
        BY <2>1, <3>1, <4>1, SameComponent
      <4>3. Cardinality(S) = 1
        BY <3>2, <4>2, OneOrMore
      <4> QED
        BY <2>1, <4>3
    <3> DEFINE k == idxComponent[v]
    <3>4. k \in 1 .. nbComponent /\ v \in class(k)
      BY <1>1, <3>2, <3>3 DEF ClassOf
    <3>5. ComponentOf(assigned, unsat, class(k))
      BY <1>1, <3>4 DEF Big
    <3> HIDE DEF k, class
    <3>6. class(k) = S
      BY <2>1, <3>1, <3>4, <3>5, SameComponent
    <3> QED
      BY <1>5, <1>6, <3>4, <3>6
  <2>2. ASSUME NEW k \in DOMAIN varCo', ToSet(varCo'[k]) = S
        PROVE  ComponentOf(assigned, unsat, S) /\ Cardinality(S) > 1
    BY <1>1, <1>5, <1>6, <2>2 DEF Big
  <2> QED
    BY <2>1, <2>2
<1>11. \A k \in DOMAIN varCo' :
         ToSet(varCo'[k]) \subseteq passed /\ varCo'[k] = Kept(setOfVar, ToSet(varCo'[k]))
  <2> HIDE DEF class
  <2> QED
    BY <1>1, <1>5, <1>6
<1>12. \A k, m \in DOMAIN varCo' : ToSet(varCo'[k]) = ToSet(varCo'[m]) => k = m
  <2>1. \A k, m \in 1 .. nbComponent : class(k) = class(m) => k = m
    BY <1>1 DEF ClassOf
  <2> HIDE DEF class
  <2> QED
    BY <1>5, <1>6, <2>1
<1>13. freeVar' = Kept(setOfVar, {v \in passed : ComponentOf(assigned, unsat, {v})})
  <2>1. \A v \in ToSet(setOfVar) :
          v \in {u \in Var : idxComponent[u] = 0} \ assigned
            <=> v \in {u \in passed : ComponentOf(assigned, unsat, {u})}
    BY <1>1, <1>2, NumberedFacts
  <2> QED
    BY <1>2, <1>3, <2>1, SameKept
<1>14. notFreeVar' = Kept(setOfVar, {v \in passed : ~ComponentOf(assigned, unsat, {v})})
  <2>1. \A v \in ToSet(setOfVar) :
          v \in {u \in Var : idxComponent[u] # 0}
            <=> v \in {u \in passed : ~ComponentOf(assigned, unsat, {u})}
    BY <1>1, <1>2, NumberedFacts
  <2> QED
    BY <1>2, <1>3, <2>1, SameKept
<1>15. ExactOf(assigned, unsat, setOfVar, varCo', freeVar', notFreeVar')
  BY <1>10, <1>11, <1>12, <1>13, <1>14 DEF ExactOf
<1>16. ComponentsExact'
  <2>1. ComponentsExact' <=>
          (pc' = "done" => ExactOf(assigned', unsat', setOfVar', varCo', freeVar', notFreeVar'))
    BY SameNamesNext
  <2> QED
    BY <1>3, <1>15, <2>1 DEF caller
<1>17. PassedClosed' /\ FramesOK'
  BY <1>3 DEF IInv, caller, PassedClosed, FramesOK
<1>18. ScratchClean'
  BY <1>4 DEF ScratchClean
<1> QED
  BY <1>3, <1>4, <1>9, <1>16, <1>17, <1>18 DEF IInv

-----------------------------------------------------------------------------
(* The steps of the caller.                                                *)

\* Going down, some variables of a component are assigned and clauses become
\* satisfied: no clause left leads out of what is left of the component.
LEMMA GoDownStep ==
  ASSUME IInv, GoDown
  PROVE  IInv'
<1>1. PICK k \in DOMAIN varCo : \E batch \in SUBSET ToSet(varCo[k]) \ {{}} :
        /\ assigned' = assigned \cup batch
        /\ \E sat \in SUBSET {c \in unsat : VarsOf[c] \cap batch # {}} : unsat' = unsat \ sat
        /\ setOfVar' = varCo[k]
  BY DEF GoDown
<1>2. PICK batch \in SUBSET ToSet(varCo[k]) :
        assigned' = assigned \cup batch /\ unsat' \subseteq unsat /\ setOfVar' = varCo[k]
  BY <1>1
<1>3. /\ pc = "done" /\ pc' = "start" /\ i' = 1 /\ nbComponent' = 0
      /\ varCo' = <<>> /\ freeVar' = <<>> /\ notFreeVar' = <<>>
      /\ UNCHANGED <<idxComponent, markView, mustUnMark, tmpVecVar, todo>>
      /\ frames' = Append(frames, Frame)
  BY DEF GoDown, FirstVar
<1>4. TypeOK /\ ExactOf(assigned, unsat, setOfVar, varCo, freeVar, notFreeVar)
  BY <1>3, SameNames DEF IInv
<1> DEFINE S == ToSet(varCo[k])
<1>5. varCo[k] \in Seq(Var)
  BY <1>1, <1>4, ElementOfSeq DEF TypeOK
<1>6. S \in SUBSET Var /\ \A n \in 1 .. Len(varCo[k]) : varCo[k][n] \in S
  BY <1>5 DEF ToSet
<1>7. S \subseteq ToSet(setOfVar) \ assigned /\ ComponentOf(assigned, unsat, S)
  BY <1>1, <1>4 DEF ExactOf
<1> HIDE DEF S
<1>8. PassedClosed'
  <2>1. ClosedOf(assigned, unsat, S)
    BY <1>7 DEF ComponentOf
  <2>2. ClosedOf(assigned', unsat', S \ assigned')
    BY <1>2, <2>1 DEF ClosedOf, RestOf
  <2> QED
    BY <1>2, <2>2 DEF PassedClosed, S
<1>9. Frame \in FrameType /\ FrameOK(Frame)
  <2>1. Frame \in FrameType
    BY <1>4 DEF TypeOK, Frame, FrameType
  <2> QED
    BY <1>4, <2>1 DEF Frame, FrameOK, IInv, PassedClosed
<1>10. frames' \in Seq(FrameType) /\ FramesOK'
  <2>1. frames \in Seq(FrameType) /\ FramesOK
    BY DEF IInv, TypeOK
  <2> HIDE DEF FrameOK
  <2>2. /\ frames' \in Seq(FrameType) /\ DOMAIN frames' = 1 .. Len(frames) + 1
        /\ DOMAIN frames = 1 .. Len(frames) /\ Len(frames) \in Nat
        /\ frames'[Len(frames) + 1] = Frame
        /\ \A n \in 1 .. Len(frames) : frames'[n] = frames[n]
    BY <1>3, <1>9, <2>1, PushFacts
  <2>3. \A n \in DOMAIN frames' : FrameOK(frames'[n])
    <3> TAKE n \in DOMAIN frames'
    <3>1. n = Len(frames) + 1 \/ n \in 1 .. Len(frames)
      BY <2>2
    <3> QED
      BY <1>9, <2>1, <2>2, <3>1 DEF FramesOK
  <2>4. FramesOK' <=> \A n \in DOMAIN frames' : FrameOK(frames'[n])
    BY DEF FramesOK, FrameOK
  <2> QED
    BY <2>2, <2>3, <2>4
<1>11. idxComponent = [v \in Var |-> 0] /\ markView = {} /\ mustUnMark = {}
  BY <1>3 DEF IInv, ScratchClean
<1>12. TypeOK'
  <2>1. assigned' \in SUBSET Var /\ unsat' \in SUBSET Idx /\ setOfVar' \in Seq(Var)
    BY <1>2, <1>4, <1>5, <1>6 DEF TypeOK, S
  <2>2. varCo' \in Seq(Seq(Var)) /\ freeVar' \in Seq(Var) /\ notFreeVar' \in Seq(Var)
    BY <1>3, EmptySeq
  <2> QED
    BY <1>3, <1>4, <1>10, <2>1, <2>2 DEF TypeOK
<1>13. ScratchClean' /\ ComponentsExact'
  BY <1>3, <1>11 DEF ScratchClean, ComponentsExact
<1>14. SearchInv'
  <2>1. i' \in 1 .. Len(setOfVar') + 1
    <3>1. Len(setOfVar') \in Nat
      BY <1>12 DEF TypeOK
    <3> QED
      BY <1>3, <3>1
  <2>2. ClassesFound'
    BY <1>3, <1>11 DEF ClassesFound
  <2>3. MarkedInOneClass'
    BY <1>3, <1>11 DEF MarkedInOneClass
  <2> QED
    BY <1>3, <2>1, <2>2, <2>3 DEF SearchInv
<1> QED
  BY <1>3, <1>8, <1>10, <1>11, <1>12, <1>13, <1>14 DEF IInv

\* Going up, the caller has what its own call returned.
LEMMA GoUpStep ==
  ASSUME IInv, GoUp
  PROVE  IInv'
<1> DEFINE f == frames[Len(frames)]
<1>1. /\ pc = "done" /\ frames # <<>>
      /\ assigned' = f.assigned /\ unsat' = f.unsat /\ setOfVar' = f.setOfVar
      /\ varCo' = f.varCo /\ freeVar' = f.freeVar /\ notFreeVar' = f.notFreeVar
      /\ frames' = SubSeq(frames, 1, Len(frames) - 1)
      /\ UNCHANGED <<idxComponent, markView, mustUnMark, nbComponent, tmpVecVar, todo, i, pc>>
  BY DEF GoUp
<1>2. frames \in Seq(FrameType) /\ FramesOK
  BY DEF IInv, TypeOK
<1>3. /\ Len(frames) \in Nat \ {0} /\ f \in FrameType
      /\ frames' \in Seq(FrameType) /\ Len(frames') = Len(frames) - 1
      /\ \A n \in 1 .. Len(frames) - 1 : frames'[n] = frames[n]
  BY <1>1, <1>2, PopFacts
<1>4. FrameOK(f) /\ \A n \in DOMAIN frames' : FrameOK(frames'[n])
  <2> HIDE DEF FrameOK
  <2>1. DOMAIN frames = 1 .. Len(frames) /\ DOMAIN frames' = 1 .. Len(frames) - 1
    BY <1>2, <1>3
  <2>2. Len(frames) \in DOMAIN frames /\ \A n \in DOMAIN frames' : n \in DOMAIN frames
    BY <1>3, <2>1
  <2> QED
    BY <1>2, <1>3, <2>1, <2>2 DEF FramesOK
<1> HIDE DEF f
<1>5. FramesOK'
  BY <1>4 DEF FramesOK, FrameOK
<1>6. PassedClosed'
  BY <1>1, <1>4 DEF FrameOK, PassedClosed
<1>7. ComponentsExact'
  BY <1>1, <1>4, SameNamesNext DEF FrameOK
<1>8. TypeOK'
  BY <1>1, <1>3 DEF IInv, TypeOK, FrameType
<1>9. idxComponent' = [v \in Var |-> 0] /\ markView' = {} /\ mustUnMark' = markView' /\ pc' = "done"
  BY <1>1 DEF IInv, ScratchClean
<1>10. ScratchClean'
  BY <1>9 DEF ScratchClean
<1> QED
  BY <1>5, <1>6, <1>7, <1>8, <1>9, <1>10 DEF IInv

-----------------------------------------------------------------------------
(* The theorems.                                                           *)

\* At the start everything is passed in, and nothing has been seen.
LEMMA InitInv ==
  ASSUME Init
  PROVE  IInv
<1>1. Vars \in Seq(Var) /\ ToSet(Vars) = Var /\ Len(Vars) \in Nat
  BY DEF Var, ToSet
<1>2. TypeOK
  <2>1. idxComponent \in [Var -> Nat]
    BY DEF Init
  <2>2. frames \in Seq(FrameType) /\ varCo \in Seq(Seq(Var)) /\ freeVar \in Seq(Var)
          /\ notFreeVar \in Seq(Var)
    BY EmptySeq DEF Init
  <2> QED
    BY <1>1, <2>1, <2>2 DEF Init, TypeOK
<1>3. PassedClosed
  BY <1>1 DEF Init, PassedClosed, ClosedOf, RestOf
<1>4. FramesOK /\ ScratchClean /\ ComponentsExact
  BY DEF Init, FramesOK, ScratchClean, ComponentsExact
<1>5. SearchInv
  BY <1>1 DEF Init, SearchInv, ClassesFound, MarkedInOneClass
<1> QED
  BY <1>2, <1>3, <1>4, <1>5 DEF IInv, Init

\* The invariant, step by step.
LEMMA NextInv ==
  ASSUME IInv, [Next]_vars
  PROVE  IInv'
<1>1. ASSUME UNCHANGED vars PROVE IInv'
  <2>1. UNCHANGED <<assigned, unsat, setOfVar, frames, idxComponent, markView, mustUnMark,
                    nbComponent, tmpVecVar, todo, i, pc, varCo, freeVar, notFreeVar>>
    BY <1>1 DEF vars, caller, result
  <2>2. ComponentsExact'
    BY <2>1, SameNames, SameNamesNext DEF IInv
  <2>3. TypeOK' /\ PassedClosed' /\ FramesOK' /\ ScratchClean'
    BY <2>1 DEF IInv, TypeOK, PassedClosed, FramesOK, ScratchClean
  <2>4. pc # "done" => SearchInv'
    BY <2>1 DEF IInv, SearchInv, ClassesFound, MarkedInOneClass, ClassInSearch, Big
  <2> QED
    BY <2>1, <2>2, <2>3, <2>4 DEF IInv
<1> QED
  BY <1>1, SkipVarStep, NewComponentStep, ExpandStep, EndComponentStep, DistributeStep,
     GoDownStep, GoUpStep DEF Next

\* What the search needs to know of itself and of its callers holds at all times.
THEOREM SearchCorrect == Spec => []IInv
BY InitInv, NextInv, PTL DEF Spec

\* computeConnectedComponent splits what is left of the set into its components,
\* each with two variables or more and in the order of the set, and tells the
\* variables alone from the others, in every call of every search.
THEOREM ComponentsCorrect == Spec => []ComponentsExact
<1>1. IInv => ComponentsExact
  BY DEF IInv
<1> QED
  BY <1>1, SearchCorrect, PTL

\* Resetting what was passed in, and not all variables, leaves no number and no
\* mark behind for the next call.
THEOREM ScratchCorrect == Spec => []ScratchClean
<1>1. IInv => ScratchClean
  BY DEF IInv
<1> QED
  BY <1>1, SearchCorrect, PTL
=============================================================================
