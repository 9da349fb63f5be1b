----------------------------- MODULE SolverPromise -----------------------------
(***************************************************************************)
(* What the search may count on when it calls the SAT solver: the literals *)
(* that may be assigned under a sequence of assumptions, and when the      *)
(* solver may answer that they are satisfiable.                            *)
(***************************************************************************)
EXTENDS Cnf, Sequences

CONSTANT Learning   \* whether learnt clauses may assign more than propagation

ASSUME LearningAssumption == Learning \in BOOLEAN

\* What the solver may have assigned under the assumptions S, S satisfiable,
\* when "known" has been assigned before under some of them: the clauses that
\* assigned a literal are kept, so propagation assigns it again.
TrailsFrom(known, S) ==
  LET least == Propagate[S \cup known] IN
  IF Learning THEN {Propagate[least \cup E] : E \in SUBSET (Implied[S] \ least)}
              ELSE {least}

\* After cancelUntil(assumptions.size()) the level may be lower still: an
\* unsatisfiable branch backjumps as far as its learnt clauses say.
TrailsBelow(fixed, as) ==
  UNION {TrailsFrom(fixed, {as[k] : k \in 1 .. n}) : n \in 0 .. Len(as)}

\* Decisions are made on the variables of C only, so true means that C can be
\* assigned without a conflict by propagation from what is assigned, A.
LocallySatisfiable(A, C) ==
  \E m \in Assignments(C) : ~Conflicting(Propagate[A \cup m])
=============================================================================
