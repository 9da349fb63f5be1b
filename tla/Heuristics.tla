------------------------------ MODULE Heuristics ------------------------------
(***************************************************************************)
(* What the heuristics read off the lists and counters of the occurrence   *)
(* manager: the score of a variable by each scoring method, the variable   *)
(* selected from a component, and the phase it is decided with.            *)
(*                                                                         *)
(* Scores are in units of 1/32, which makes them integers: a clause of     *)
(* more than five literals has no weight.  MOM and JW-TS read the clauses  *)
(* of the solver at the indices of the manager; SolverClauses is what they *)
(* find there, the same clauses when none was dropped in between.          *)
(***************************************************************************)
EXTENDS OccurrenceManager, FiniteSetsExt

Sequence == INSTANCE SequencesExt

CONSTANTS
  SolverClauses,  \* [Idx -> SUBSET Literal], s.ca[s.clauses[idx]]
  ScoreActivity,  \* [Var -> Nat], the solver's activities
  Polarity,       \* [Var -> BOOLEAN], the solver's saved phases
  Projected       \* varProjected

ScoringMethods == {"VSADS", "VSIDS", "DLCS", "JW-TS", "MOM"}
PhaseHeuristics == {"TRUE", "FALSE", "POLARITY", "OCCURRENCE"}

\* The queries of CnfOccurrenceManager, of a literal and of a variable.
\* (Mutant of NbUnassignedOf: the literals that are false are not taken off.)
NbLiteralsOf(c) == Cardinality(Lits[c])
NbUnassignedOf(c) == Cardinality(Lits[c]) - nbUnsat[c]
NbClauseOf == [l \in Literal |-> Cardinality(occList[l])]
NbBinaryClauseOf == [l \in Literal |-> Cardinality({c \in occList[l] : NbUnassignedOf(c) = 2})]
OfVar(byLit, v) == byLit[v] + byLit[-v]

Units == 32
SolverUnassigned(c) == Cardinality({l \in SolverClauses[c] : Undef(l)})
NbShort == [l \in Literal |-> Cardinality({c \in occList[l] : SolverUnassigned(c) <= 2})]
WeightIn(c) ==
  IF Cardinality(SolverClauses[c]) > 5 THEN 0 ELSE Units \div 2 ^ SolverUnassigned(c)
TwoSided == [l \in Literal |-> FoldSet(LAMBDA c, sum : sum + WeightIn(c), 0, occList[l])]

Dlcs(v) == Units * OfVar(NbClauseOf, v)
Vsids(v) == Units * ScoreActivity[v]
Vsads(v) == Vsids(v) + Dlcs(v)
Mom(v) == (Units \div 4) * (OfVar(NbBinaryClauseOf, v) + OfVar(NbShort, v))
Jwts(v) == (Units \div 4) * OfVar(NbBinaryClauseOf, v) + OfVar(TwoSided, v)
ComputeScore(method, v) ==
  CASE method = "VSADS" -> Vsads(v)
    [] method = "VSIDS" -> Vsids(v)
    [] method = "DLCS" -> Dlcs(v)
    [] method = "JW-TS" -> Jwts(v)
    [] method = "MOM" -> Mom(v)

\* selectVariable: the first best of the component; 0 stands for var_Undef.
Candidate(v) == Undef(v) /\ v \in Projected
SelectVariable(method, component) ==
  LET best[n \in 0 .. Len(component)] ==
        IF n = 0 THEN 0
        ELSE LET v == component[n] IN
             IF Candidate(v) /\ (best[n - 1] = 0 \/
                                 ComputeScore(method, v) > ComputeScore(method, best[n - 1]))
             THEN v ELSE best[n - 1]
  IN  best[Len(component)]

\* selectPhase, and the literal that is decided with option rp (reverse).
SelectPhase(heuristic, v) ==
  CASE heuristic = "TRUE" -> TRUE
    [] heuristic = "FALSE" -> FALSE
    [] heuristic = "POLARITY" -> Polarity[v]
    [] heuristic = "OCCURRENCE" -> NbClauseOf[v] < NbClauseOf[-v]
DecisionLiteral(heuristic, reverse, v) == IF SelectPhase(heuristic, v) # reverse THEN -v ELSE v

-----------------------------------------------------------------------------
(* Properties.                                                             *)

\* The scores by the residual formula, without lists or counters.
ResidualClauses(l) == {c \in Idx : ~Satisfied(c) /\ l \in Lits[c]}
InResidual(v, f(_)) == f(ResidualClauses(v)) + f(ResidualClauses(-v))
ResidualScore(method, v) ==
  CASE method = "VSIDS" -> Units * ScoreActivity[v]
    [] method = "DLCS" -> Units * InResidual(v, Cardinality)
    [] method = "VSADS" -> Units * (ScoreActivity[v] + InResidual(v, Cardinality))
    [] method = "MOM" ->
         (Units \div 4) * InResidual(v, LAMBDA C :
            2 * Cardinality({c \in C : Cardinality(Unassigned(c)) = 2})
              + Cardinality({c \in C : Cardinality(Unassigned(c)) < 2}))
    [] method = "JW-TS" ->
         InResidual(v, LAMBDA C :
            FoldSet(LAMBDA c, sum : sum + Units \div 2 ^ Cardinality(Unassigned(c))
                                      + (IF Cardinality(Unassigned(c)) = 2 THEN Units \div 4 ELSE 0), 0, C))

\* At any point of the search, after whatever updates and undos, the variable that
\* is selected is the best of the residual formula, though lists and counters of
\* satisfied clauses are not kept up to date; there is none only if no projected
\* variable is unassigned; and the phase by occurrences satisfies at least as many
\* clauses as it shortens (selectVariable, computeScore, selectPhase).
SelectionExact ==
  pc = "idle" =>
    LET component == Sequence!SetToSortSeq(Scope, <) IN
    \A method \in ScoringMethods :
      LET v == SelectVariable(method, component) IN
      IF v = 0 THEN ~ \E w \in Scope : Candidate(w)
      ELSE /\ Candidate(v)
           /\ \A w \in Scope : Candidate(w) => ResidualScore(method, w) <= ResidualScore(method, v)
           /\ LET l == DecisionLiteral("OCCURRENCE", FALSE, v) IN
              Cardinality(ResidualClauses(-l)) <= Cardinality(ResidualClauses(l))
=============================================================================
