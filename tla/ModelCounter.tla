----------------------------- MODULE ModelCounter -----------------------------
(***************************************************************************)
(* The search of d4 -mc: ModelCounter::computeNbModel_ and                 *)
(* computeDecisionNode, which call each other, as a stack machine.  A      *)
(* level of the stack is a call of computeNbModel_ together with the       *)
(* decision node it is computing.  pc is the place the innermost call has  *)
(* reached.                                                                *)
(*                                                                         *)
(* The parts the search uses appear as what they give it:                  *)
(*   the SAT solver: the literals it has assigned under its assumptions    *)
(*     (trail), as module SolverSpec says;                                 *)
(*   the occurrence manager: the literals passed to preUpdate and not yet  *)
(*     undone (occ) and the residual clauses they leave;                   *)
(*   the cache: a map from the stored part of a residual formula to a      *)
(*     value;                                                              *)
(*   the partitioner and the heuristics: any cut, any variable, any phase. *)
(***************************************************************************)
EXTENDS WeightedCnf, SolverPromise, StoredFormula

CONSTANTS
  EquivSimp,    \* option eqs: the partitioner looks for failed literals
  MinPartition, \* components of at most this size are not partitioned (10),
  MaxPartition, \* nor of at least this one (5000; 0 for -pv=NO)
  Phases,       \* the signs selectPhase may choose
  NoAnswer      \* a model value

ASSUME SearchAssumption ==
  /\ EquivSimp \in BOOLEAN /\ MinPartition \in Nat /\ MaxPartition \in Nat
  /\ Phases \in SUBSET BOOLEAN /\ Phases # {}
ASSUME SatisfiableAssumption == Models # {}

VARIABLES
  fixed,       \* the literals assigned when the formula was given to occManager
  assumptions, \* the solver's assumptions: the decisions of the branch
  trail,       \* the literals the solver has assigned
  occ,         \* the literals the occurrence manager has assigned
  cache,       \* stored formula -> value
  stack,       \* the calls, innermost last
  pc,
  value,       \* what the call that just ended returned
  answer       \* what computeNbModel returned, or NoAnswer

vars == <<fixed, assumptions, trail, occ, cache, stack, pc, value, answer>>

Abstract == INSTANCE CountSpec WITH answer <- answer, NoAnswer <- NoAnswer

Top == stack[Len(stack)]
Caller == stack[Len(stack) - 1]
SetTop(level) == [stack EXCEPT ![Len(stack)] = level]

-----------------------------------------------------------------------------
(* The solver: module SolverPromise.                                       *)

\* What the assumptions and the outer calls leave possible now.
Assumed == {assumptions[k] : k \in DOMAIN assumptions}
\* (Mutant of Trails: units of the outer calls may be forgotten.)
TrailsForgetful == TrailsFrom(fixed, Assumed)
Trails == TrailsFrom(fixed \cup occ, Assumed)
SolvedLocally == LocallySatisfiable(Assumed \cup fixed \cup occ, Top.set)
Unassigned(v) == v \notin VarsOf(trail)

-----------------------------------------------------------------------------
(* The occurrence manager: module ResidualFormula, of the input clauses    *)
(* without what was fixed when the formula was given to it.                *)

OccClauses == {c \ Negated(fixed) : c \in {d \in Clauses : d \cap fixed = {}}}

-----------------------------------------------------------------------------
(* The cache: module StoredFormula.                                        *)

Found(C) == CacheMode # "off" /\ Key(OccClauses, C, occ) \in DOMAIN cache
AddInCache(C, val) ==
  LET key == Key(OccClauses, C, occ) IN
  cache' = IF CacheMode = "off" THEN cache
           ELSE [k \in DOMAIN cache \cup {key} |-> IF k = key THEN val ELSE cache[k]]

-----------------------------------------------------------------------------
(* A level: the parameters of computeNbModel_ (set, priority), its         *)
(* outputs (units, free), its locals (todo: the components still to be     *)
(* counted, ret: the product so far) and the locals of its decision node   *)
(* (connected, cut, lit, pos).                                             *)

NewLevel(C, P) ==
  [set |-> C, priority |-> P, units |-> {}, free |-> {}, todo |-> {}, ret |-> 1,
   connected |-> {}, cut |-> {}, lit |-> 0, pos |-> 0]

\* The call a decision node makes for each branch, and (mutant) one that is
\* given the priority variables only.
BranchOnPriority(level) == NewLevel(level.cut, level.cut)
Branch(level) == NewLevel(level.connected, level.cut)

\* computeWeightUnitFree
\* (Mutant: free variables are not counted.)
UnitWeight(units, free) == WeightOf(Over(units, Projected))
UnitFreeWeight(units, free) ==
  WeightOf(Over(units, Projected))
    * FoldSet(LAMBDA v, w : (Weight[v] + Weight[-v]) * w, 1, free \cap Projected)

\* init: nothing is assigned by the search and nothing is cached.
InitSearch ==
  /\ assumptions = <<>>
  /\ occ = {}
  /\ cache = [k \in {} |-> 0]
  /\ answer = NoAnswer

\* The constructor has solved and simplified the formula; computeNbModel
\* starts with all the variables and no priority.
Init ==
  /\ InitSearch
  /\ fixed \in TrailsFrom({}, {})
  /\ trail = fixed
  /\ stack = <<NewLevel(Var, {})>>
  /\ pc = "solve"
  /\ value = 0

\* computeNbModel_: the solver refutes the assumptions.
SolveUnsat ==
  /\ pc = "solve"
  /\ ~Satisfiable(Assumed)
  /\ value' = 0
  /\ pc' = "return"
  /\ UNCHANGED <<fixed, assumptions, trail, occ, cache, stack, answer>>

\* computeNbModel_: units, preUpdate and the connected components.
SolveSat ==
  /\ pc = "solve"
  /\ SolvedLocally
  /\ trail' \in Trails
  /\ LET units == Over(trail', Top.set) IN
     /\ occ' = occ \cup units
     /\ stack' = SetTop([Top EXCEPT !.units = units,
                                    !.free = FreeVariables(OccClauses, Top.set, occ'),
                                    !.todo = Components(OccClauses, Top.set, occ')])
  /\ pc' = "components"
  /\ UNCHANGED <<fixed, assumptions, cache, value, answer>>

\* Components are numbered, and counted, in the order of their first variable.
NextConnected ==
  CHOOSE C \in Top.todo : \A D \in Top.todo : Min(C) <= Min(D)

\* computePrioritySubSet
PrioritySubSet(C) == {v \in Top.priority \cap C : Unassigned(v)}

PositiveHit ==
  /\ pc = "components" /\ Top.todo # {}
  /\ LET C == NextConnected IN
     /\ Found(C)
     /\ stack' = SetTop([Top EXCEPT !.todo = @ \ {C}, !.ret = @ * cache[Key(OccClauses, C, occ)]])
  /\ UNCHANGED <<fixed, assumptions, trail, occ, cache, pc, value, answer>>

NegativeHit ==
  /\ pc = "components" /\ Top.todo # {}
  /\ LET C == NextConnected IN
     /\ ~Found(C)
     /\ stack' = SetTop([Top EXCEPT !.todo = @ \ {C}, !.connected = C,
                                    !.cut = PrioritySubSet(C)])
  /\ pc' = "partition"
  /\ UNCHANGED <<fixed, assumptions, trail, occ, cache, value, answer>>

\* computeDecisionNode: the partitioner looks for failed literals, which may
\* assign more variables, and cuts what is left.  Without that search it does
\* not know what the solver has assigned besides.
MustPartition ==
  Top.cut = {} /\ Cardinality(Top.connected) > MinPartition /\ Cardinality(Top.connected) < MaxPartition

ComputePartition ==
  /\ pc = "partition" /\ MustPartition
  /\ trail' \in IF EquivSimp THEN {K \in Trails \cup {trail} : trail \subseteq K}
                            ELSE {trail}
  /\ \E cut \in SUBSET (Top.connected \ (IF EquivSimp THEN VarsOf(trail') ELSE {})) :
       stack' = SetTop([Top EXCEPT !.cut = cut])
  /\ pc' = "select"
  /\ UNCHANGED <<fixed, assumptions, occ, cache, value, answer>>

SkipPartition ==
  /\ pc = "partition" /\ ~MustPartition
  /\ pc' = "select"
  /\ UNCHANGED <<fixed, assumptions, trail, occ, cache, stack, value, answer>>

\* selectVariable: an unassigned projected variable, of the priority set when
\* there is one.
Candidates ==
  {v \in IF Top.cut # {} THEN Top.cut ELSE Top.connected : Unassigned(v) /\ v \in Projected}

SelectVariable ==
  /\ pc = "select"
  /\ \E v \in Candidates, phase \in Phases :
       LET l == IF phase THEN v ELSE -v IN
       /\ assumptions' = Append(assumptions, l)
       /\ stack' = Append(SetTop([Top EXCEPT !.lit = l]), Branch(Top))
  /\ pc' = "solve"
  /\ UNCHANGED <<fixed, trail, occ, cache, value, answer>>

\* The end of a decision node of the call "level", which lies on the calls
\* "below": its value goes into the product and into the cache.
EndDecisionNode(below, level, val) ==
  /\ stack' = Append(below, [level EXCEPT !.ret = @ * val, !.connected = {}, !.cut = {},
                                          !.lit = 0, !.pos = 0])
  /\ AddInCache(level.connected, val)
  /\ pc' = "components"

NothingToDecide ==
  /\ pc = "select" /\ Candidates = {}
  /\ EndDecisionNode(SubSeq(stack, 1, Len(stack) - 1), Top, 1)
  /\ UNCHANGED <<fixed, assumptions, trail, occ, value, answer>>

\* computeNbModel_: postUpdate; the caller multiplies by the weight of the
\* units and of the free variables.
EndComponents ==
  /\ pc = "components" /\ Top.todo = {}
  /\ value' = Top.ret * UnitFreeWeight(Top.units, Top.free)
  /\ occ' = PostUpdate(occ, Top.units)
  /\ pc' = "return"
  /\ UNCHANGED <<fixed, assumptions, trail, cache, stack, answer>>

\* computeDecisionNode again, for the call below: a branch has returned.  The
\* trail is not read between the first branch and the solving of the second.
InFirstBranch == assumptions[Len(assumptions)] = Caller.lit
CallsBelow == SubSeq(stack, 1, Len(stack) - 2)
\* (Mutant: the same literal is pushed again.)
SameBranch(as) == as
OtherBranch(as) == [as EXCEPT ![Len(as)] = -@]

FirstBranchReturns ==
  /\ pc = "return" /\ Len(stack) > 1 /\ InFirstBranch
  /\ assumptions' = OtherBranch(assumptions)
  /\ stack' = CallsBelow \o <<[Caller EXCEPT !.pos = value], Branch(Caller)>>
  /\ pc' = "solve"
  /\ UNCHANGED <<fixed, trail, occ, cache, value, answer>>

SecondBranchReturns ==
  /\ pc = "return" /\ Len(stack) > 1 /\ ~InFirstBranch
  /\ assumptions' = SubSeq(assumptions, 1, Len(assumptions) - 1)
  /\ trail' \in TrailsBelow(fixed, assumptions')
  /\ EndDecisionNode(CallsBelow, Caller, value + Caller.pos)
  /\ UNCHANGED <<fixed, occ, value, answer>>

\* computeNbModel
Finish ==
  /\ pc = "return" /\ Len(stack) = 1
  /\ answer' = value
  /\ pc' = "done"
  /\ UNCHANGED <<fixed, assumptions, trail, occ, cache, stack, value>>

Next ==
  \/ SolveUnsat \/ SolveSat
  \/ PositiveHit \/ NegativeHit \/ EndComponents
  \/ ComputePartition \/ SkipPartition
  \/ SelectVariable \/ NothingToDecide
  \/ FirstBranchReturns \/ SecondBranchReturns
  \/ Finish

Spec == Init /\ [][Next]_vars
FairSpec == Spec /\ WF_vars(Next)

-----------------------------------------------------------------------------
(* Properties.                                                             *)

\* Each call returns the weighted count of its own subproblem: the variables
\* it was called on, under the decision it was called with.
ReturnsExact ==
  pc = "return" =>
    value = IF Len(stack) = 1 THEN FormulaCount
            ELSE Count(Residual(OccClauses, Top.set, occ) \cup {{assumptions[Len(assumptions)]}}, Top.set)

\* A value found in the cache is the count of the component it is found for,
\* although the key omits clauses and the value was computed in another place.
HitExact ==
  pc = "components" /\ Top.todo # {} =>
    LET C == NextConnected IN
    Found(C) => cache[Key(OccClauses, C, occ)] = Count(Residual(OccClauses, C, occ), C)

\* The solver decides on the variables of one component only; what it answers
\* is nevertheless the satisfiability of the whole formula under the branch.
LocalSolveDecides ==
  pc = "solve" => (SolvedLocally <=> Satisfiable(Assumed))

\* What preUpdate is given: unassigned literals that leave no clause of the
\* occurrence manager without an unassigned literal (its precondition) and none
\* with just one, which would make the variable look free.
UnitsComplete ==
  pc = "components" =>
    /\ ~Conflicting(occ)
    /\ \A c \in Unsatisfied(OccClauses, occ) : Cardinality(VarsOf(Left(c, occ))) >= 2 \/ Conflicting(c)

\* The literals undone by a call are the ones it passed, the decision is one
\* of them, and outside the calls' units nothing stays assigned.
UnitsPaired ==
  /\ occ = UNION {stack[k].units : k \in 1 .. (IF pc \in {"return", "done"} THEN Len(stack) - 1
                                                                      ELSE Len(stack))}
  /\ \A j, k \in DOMAIN stack : j # k => stack[j].units \cap stack[k].units = {}
  /\ \A k \in 2 .. Len(stack) :
       stack[k].units # {} => assumptions[k - 1] \in stack[k].units

\* The answer is the count of the formula.
CountCorrect == Abstract!Spec

\* The search ends, and with an answer.
Terminates == <>(pc = "done" /\ answer # NoAnswer)
=============================================================================
