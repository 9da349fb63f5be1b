------------------------- MODULE ConnectedComponents -------------------------
(***************************************************************************)
(* computeConnectedComponent of CnfOccurrenceManager: what is left of a    *)
(* set of variables falls into components held together by the clauses not *)
(* yet satisfied.  Scratch fields carry over from call to call: a variable *)
(* has been found if idxComponent is not 0, a clause has been seen if it is *)
(* in markView.  At the end only the variables that were passed in are     *)
(* reset.                                                                  *)
(*                                                                         *)
(* The caller goes down: it takes a component found, assigns some of its   *)
(* variables, which satisfies some of its clauses, and asks again for the  *)
(* rest; and it comes back up, with everything undone (OccurrenceManager). *)
(***************************************************************************)
EXTENDS Integers, Sequences, FiniteSets, SequencesExt, Subsequence

CONSTANTS
  Vars,      \* the variables, in order
  Idx,       \* indices of clauses
  VarsOf,    \* [Idx -> the set of variables of the clause]
  MaxFrames  \* bound: nested calls of the caller

Var == {Vars[i] : i \in DOMAIN Vars}

ASSUME VarsAssumption ==
  /\ Vars \in Seq(Nat)
  /\ \A i, j \in DOMAIN Vars : Vars[i] = Vars[j] => i = j
ASSUME IdxAssumption == IsFiniteSet(Idx) /\ VarsOf \in [Idx -> SUBSET Var]
ASSUME FramesAssumption == MaxFrames \in Nat

VARIABLES
  \* the caller, and what it sees of the occurrence manager
  assigned,  \* the variables with a value
  unsat,     \* the clauses not satisfied
  setOfVar,  \* the parameter of the call
  frames,    \* the callers of the caller
  \* the fields and locals of the search
  idxComponent, markView, mustUnMark, nbComponent,
  tmpVecVar, \* what has been found from the variable at i, as a set
  todo,      \* the part of it from pos on
  i, pc,
  \* its results
  varCo, freeVar, notFreeVar

caller == <<assigned, unsat, setOfVar, frames>>
result == <<varCo, freeVar, notFreeVar>>
vars == <<caller, idxComponent, markView, mustUnMark, nbComponent, tmpVecVar, todo, i, pc, result>>

Init ==
  /\ assigned = {} /\ unsat = Idx /\ setOfVar = Vars /\ frames = <<>>
  /\ idxComponent = [v \in Var |-> 0]
  /\ markView = {} /\ mustUnMark = {} /\ nbComponent = 0
  /\ tmpVecVar = {} /\ todo = {} /\ i = 1 /\ pc = "start"
  /\ varCo = <<>> /\ freeVar = <<>> /\ notFreeVar = <<>>

-----------------------------------------------------------------------------
(* The search.                                                             *)

\* A variable of the set that is assigned, or in a component already.
SkipVar ==
  /\ pc = "start" /\ i \in DOMAIN setOfVar
  /\ setOfVar[i] \in assigned \/ idxComponent[setOfVar[i]] # 0
  /\ i' = i + 1
  /\ UNCHANGED <<caller, idxComponent, markView, mustUnMark, nbComponent, tmpVecVar, todo, pc, result>>

NewComponent ==
  /\ pc = "start" /\ i \in DOMAIN setOfVar
  /\ setOfVar[i] \notin assigned /\ idxComponent[setOfVar[i]] = 0
  /\ nbComponent' = nbComponent + 1
  /\ idxComponent' = [idxComponent EXCEPT ![setOfVar[i]] = nbComponent + 1]
  /\ tmpVecVar' = {setOfVar[i]} /\ todo' = {setOfVar[i]}
  /\ pc' = "search"
  /\ UNCHANGED <<caller, markView, mustUnMark, i, result>>

\* connectedToLit, for v and its negation.  The lists hold the clauses not satisfied.
\* (Mutant of NewClauses: the lists are out of date.)
AllClauses(v) == {c \in Idx : v \in VarsOf[c]} \ markView
NewClauses(v) == {c \in unsat : v \in VarsOf[c]} \ markView
NewVars(v) == {u \in UNION {VarsOf[c] : c \in NewClauses(v)} :
                 u \notin assigned /\ idxComponent[u] = 0}

\* (Mutant of Remaining: pos is not moved on.)
AllRemaining(v) == todo
Remaining(v) == todo \ {v}

Expand(v) ==
  /\ pc = "search" /\ v \in todo
  /\ markView' = markView \cup NewClauses(v)
  /\ mustUnMark' = mustUnMark \cup NewClauses(v)
  /\ idxComponent' = [u \in Var |-> IF u \in NewVars(v) THEN nbComponent ELSE idxComponent[u]]
  /\ tmpVecVar' = tmpVecVar \cup NewVars(v)
  /\ todo' = Remaining(v) \cup NewVars(v)
  /\ UNCHANGED <<caller, nbComponent, i, pc, result>>

\* A variable alone is no component.
Alone == Cardinality(tmpVecVar) <= 1
WithoutAlone == nbComponent - 1

EndComponent ==
  /\ pc = "search" /\ todo = {}
  /\ idxComponent' = [idxComponent EXCEPT ![setOfVar[i]] = IF Alone THEN 0 ELSE @]
  /\ nbComponent' = IF Alone THEN WithoutAlone ELSE nbComponent
  /\ i' = i + 1 /\ pc' = "start"
  /\ UNCHANGED <<caller, markView, mustUnMark, tmpVecVar, todo, result>>

\* resetUnMark, and the loop that shares out the variables.
\* (Mutant of Unmarked: nothing is taken out.)
StillMarked == markView
Unmarked == markView \ mustUnMark

InComponent(k) == Kept(setOfVar, {v \in Var : idxComponent[v] = k})
Distribute ==
  /\ pc = "start" /\ i = Len(setOfVar) + 1
  /\ varCo' = [k \in 1 .. nbComponent |-> InComponent(k)]
  /\ notFreeVar' = Kept(setOfVar, {v \in Var : idxComponent[v] # 0})
  /\ freeVar' = Kept(setOfVar, {v \in Var : idxComponent[v] = 0} \ assigned)
  /\ idxComponent' = [v \in Var |-> IF v \in ToSet(setOfVar) THEN 0 ELSE idxComponent[v]]
  /\ markView' = Unmarked /\ mustUnMark' = {}
  /\ pc' = "done"
  /\ UNCHANGED <<caller, nbComponent, tmpVecVar, todo, i>>

-----------------------------------------------------------------------------
(* The caller.                                                             *)

Frame == [assigned |-> assigned, unsat |-> unsat, setOfVar |-> setOfVar,
          varCo |-> varCo, freeVar |-> freeVar, notFreeVar |-> notFreeVar]

FirstVar == 1

\* No clause left is without an unassigned variable (a tautology may have just one).
Open(left, taken) == \A c \in left : VarsOf[c] \ taken # {}
GoDown ==
  /\ pc = "done" /\ Len(frames) < MaxFrames
  /\ \E k \in DOMAIN varCo : \E batch \in SUBSET ToSet(varCo[k]) \ {{}} :
       /\ assigned' = assigned \cup batch
       /\ \E sat \in SUBSET {c \in unsat : VarsOf[c] \cap batch # {}} : unsat' = unsat \ sat
       /\ Open(unsat', assigned')
       /\ setOfVar' = varCo[k]
  /\ frames' = Append(frames, Frame)
  /\ i' = FirstVar /\ nbComponent' = 0 /\ pc' = "start"
  /\ varCo' = <<>> /\ freeVar' = <<>> /\ notFreeVar' = <<>>
  /\ UNCHANGED <<idxComponent, markView, mustUnMark, tmpVecVar, todo>>

GoUp ==
  /\ pc = "done" /\ frames # <<>>
  /\ LET f == frames[Len(frames)]
     IN /\ assigned' = f.assigned /\ unsat' = f.unsat /\ setOfVar' = f.setOfVar
        /\ varCo' = f.varCo /\ freeVar' = f.freeVar /\ notFreeVar' = f.notFreeVar
  /\ frames' = SubSeq(frames, 1, Len(frames) - 1)
  /\ UNCHANGED <<idxComponent, markView, mustUnMark, nbComponent, tmpVecVar, todo, i, pc>>

Next ==
  \/ SkipVar \/ NewComponent \/ EndComponent \/ Distribute
  \/ \E v \in Var : Expand(v)
  \/ GoDown \/ GoUp

Spec == Init /\ [][Next]_vars
FairSpec == Spec /\ WF_vars(SkipVar \/ NewComponent \/ EndComponent \/ Distribute
                              \/ \E v \in Var : Expand(v))

-----------------------------------------------------------------------------
(* Properties.                                                             *)

\* A set of unassigned variables that no clause left leads out of, and a smallest one.
Rest(c) == VarsOf[c] \ assigned
Closed(S) == S \cap assigned = {} /\ \A c \in unsat : Rest(c) \cap S # {} => Rest(c) \subseteq S
IsComponent(S) ==
  /\ S # {} /\ Closed(S)
  /\ \A T \in SUBSET S : T # {} /\ Closed(T) => T = S

\* The components are those of what is left of the set, each with two variables or
\* more, and in the order in which the variables were passed in (keys rely on it).
ComponentsExact ==
  pc = "done" =>
    LET passed == ToSet(setOfVar) \ assigned IN
    /\ \A S \in SUBSET passed :
         IsComponent(S) /\ Cardinality(S) > 1 <=> \E k \in DOMAIN varCo : ToSet(varCo[k]) = S
    /\ \A k \in DOMAIN varCo :
         ToSet(varCo[k]) \subseteq passed /\ varCo[k] = Kept(setOfVar, ToSet(varCo[k]))
    /\ \A k, m \in DOMAIN varCo : ToSet(varCo[k]) = ToSet(varCo[m]) => k = m
    /\ freeVar = Kept(setOfVar, {v \in passed : IsComponent({v})})
    /\ notFreeVar = Kept(setOfVar, {v \in passed : ~IsComponent({v})})

\* Nothing outside the set that was passed in has been numbered, and no clause stays
\* marked: the next call starts from what the first one started from.
ScratchClean ==
  /\ pc = "done" => idxComponent = [v \in Var |-> 0] /\ markView = {}
  /\ \A v \in Var : idxComponent[v] # 0 => v \in ToSet(setOfVar) \ assigned

\* A search ends.
Ends == pc = "start" ~> pc = "done"
=============================================================================
