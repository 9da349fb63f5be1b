-------------------------------- MODULE Solver --------------------------------
(***************************************************************************)
(* The SAT solver of d4, one turn of a loop per step, and the searches     *)
(* that use it: the constructor that adds the clauses and solves them, the *)
(* calls that branch on the components of the residual formula, and the    *)
(* search for failed literals and for variables determined by another.     *)
(*                                                                         *)
(* pc names the method that runs; each of addClause_, search, the probes   *)
(* and the refilling of levels begins by propagating, and goes on when the *)
(* trail has been propagated or a clause has been found false.             *)
(***************************************************************************)
EXTENDS SolverSearch, SolverPromise, ResidualFormula

CONSTANTS
  Input,          \* the clauses in the order of the file
  Activities,     \* the initial activities of the variables (rnd-init)
  Branches,       \* the literals a call of the search may branch on first
  RestartFirst,   \* restart_first: the conflicts before the first restart
  MaxReductions,  \* bounds: reductions of the clauses,
  MaxProbes,      \* probed variables,
  MaxBranches     \* and decisions of the search

ASSUME InputAssumption == ToSet(Input) = Clauses
ASSUME ChoiceAssumption ==
  /\ Activities \subseteq [Var -> 0 .. Unit - 1]
  /\ Branches \subseteq Literal
ASSUME BoundAssumption ==
  RestartFirst \in Nat \ {0} /\ MaxReductions \in Nat /\ MaxProbes \in Nat /\ MaxBranches \in Nat

VARIABLES
  s,          \* the solver
  pc,
  confl,      \* the clause propagation found false, or 0
  input,      \* the clauses still to be added
  calls,      \* the calls of the search, innermost last
  probe,      \* the literal being probed and what its first phase assigned
  classes,    \* the classes found: a variable and what follows from either value
  spent,      \* reductions, probes and decisions so far, the restarts of the
              \* running solve and the conflicts of the running search
  given,      \* the literals assigned when the client last had control
  fixed       \* the literals assigned when the search began

vars == <<s, pc, confl, input, calls, probe, classes, spent, given, fixed>>
client == <<input, calls, probe, classes, given, fixed>>

Propagated == s.qhead = Len(s.trail)
Top == calls[Len(calls)]
SetTop(call) == [calls EXCEPT ![Len(calls)] = call]
NbAssumptions == Len(s.assumptions)

\* A call: the variables it is about, the units it read, its components still
\* to be done, the one in hand, and whether it is the second branch.
NewCall(C, second) == [set |-> C, units |-> {}, todo |-> {}, connected |-> {}, second |-> second]
NoProbe == [lit |-> 0, vars |-> {}]

Init ==
  /\ s \in {NewSolver(activity) : activity \in Activities}
  /\ pc = "addClause" /\ confl = 0 /\ input = Input
  /\ calls = <<>> /\ probe = NoProbe /\ classes = {}
  /\ spent = [reductions |-> 0, probes |-> 0, branches |-> 0, restarts |-> 0, conflicts |-> 0]
  /\ given = {} /\ fixed = {}

\* A method that propagates runs until its trail is propagated.
PropagateLiteral ==
  /\ ~Propagated
  /\ LET r == PropagateOne(s) IN s' = r.s /\ confl' = r.confl
  /\ UNCHANGED <<pc, client, spent>>

-----------------------------------------------------------------------------
(* addClause_ for each clause, then the first solve.                       *)

AddClause ==
  /\ pc = "addClause" /\ Propagated /\ input # <<>>
  /\ LET c == Head(input)
         ps == Sorted({l \in c : ~IsFalse(s, l)})
     IN  s' = IF ~s.ok \/ confl # 0 THEN [s EXCEPT !.ok = FALSE]
              ELSE IF Conflicting(c) \/ \E l \in c : IsTrue(s, l) THEN s
              ELSE IF ps = <<>> THEN [s EXCEPT !.ok = FALSE]
              ELSE IF Len(ps) = 1 THEN UncheckedEnqueue(s, ps[1], 0)
              ELSE AttachClause([Alloc(s, ps, FALSE) EXCEPT !.clauses = Append(@, NewRef(s))], NewRef(s))
  /\ input' = Tail(input)
  /\ UNCHANGED <<pc, confl, calls, probe, classes, spent, given, fixed>>

FirstSolve ==
  /\ pc = "addClause" /\ Propagated /\ input = <<>>
  /\ pc' = IF s.ok /\ confl = 0 THEN "search" ELSE "false"
  /\ UNCHANGED <<s, confl, client, spent>>

-----------------------------------------------------------------------------
(* search and solve_.                                                      *)

\* The search ends: solve_ goes back to the assumptions.
Answer(t, result) == s' = CancelUntil(t, NbAssumptions) /\ pc' = result

SearchConflict ==
  /\ pc = "search" /\ Propagated /\ confl # 0
  /\ confl' = 0
  /\ IF DecisionLevel(s) = 0 THEN Answer(s, "false")
     ELSE LET analysis == Analyze(s, confl)
              c == analysis.clause
              t == CancelUntil(analysis.s, BackLevel(s, c))
          IN  /\ s' = VarDecayActivity(IF Len(c) = 1
                        THEN UncheckedEnqueue(CancelUntil(t, 0), c[1], 0)
                        ELSE UncheckedEnqueue(Learn(t, c), c[1], NewRef(t)))
              /\ UNCHANGED pc
  /\ spent' = [spent EXCEPT !.conflicts = @ + 1]
  /\ UNCHANGED client

\* The x-th term of the Luby sequence of powers of y: 1 1 y 1 1 y y^2 ...
Luby(y, x) ==
  LET term[seq \in 0 .. x, z \in 0 .. x] ==
        IF z = 2 ^ (seq + 1) - 2 THEN y ^ seq ELSE term[seq - 1, z % (2 ^ seq - 1)]
  IN  term[Min({seq \in 0 .. x : 2 ^ (seq + 1) - 1 >= x + 1}), x]

RestartInc == 2   \* restart_inc
RestartDue ==
  /\ DecisionLevel(s) > NbAssumptions
  /\ spent.conflicts >= Luby(RestartInc, spent.restarts) * RestartFirst

\* (Mutant of Restart: it does not wait for conflicts.)
RestartFreely ==
  /\ pc = "search" /\ Propagated /\ confl = 0 /\ DecisionLevel(s) > NbAssumptions
  /\ s' = CancelUntil(s, NbAssumptions)
  /\ UNCHANGED <<pc, confl, client, spent>>
Restart ==
  /\ pc = "search" /\ Propagated /\ confl = 0
  /\ RestartDue
  /\ s' = CancelUntil(s, NbAssumptions)
  /\ spent' = [spent EXCEPT !.restarts = @ + 1, !.conflicts = 0]
  /\ UNCHANGED <<pc, confl, client>>

\* Without a conflict: simplify at level 0, which may wait for more
\* propagations, then reduceDB.
SearchNoConflict ==
  /\ pc = "search" /\ Propagated /\ confl = 0
  /\ ~RestartDue
  /\ s' \in {s} \cup IF DecisionLevel(s) = 0 /\ Len(s.trail) # s.simpAssigns THEN {Simplify(s)} ELSE {}
  /\ pc' = "reduceDB"
  /\ UNCHANGED <<confl, client, spent>>

ReduceDB ==
  /\ pc = "reduceDB"
  /\ DecisionLevel(s) >= NbAssumptions /\ spent.reductions < MaxReductions
  /\ \E crs \in (SUBSET Removable(s)) \ {{}} : s' = CheckGarbage(Reduced(s, crs))
  /\ pc' = "decide"
  /\ spent' = [spent EXCEPT !.reductions = @ + 1]
  /\ UNCHANGED <<confl, client>>

NoReduceDB ==
  /\ pc = "reduceDB"
  /\ pc' = "decide"
  /\ UNCHANGED <<s, confl, client, spent>>

\* Assumptions that are true get a level of their own.
\* (Mutant of TrueLevels: no assumption is left to be decided.)
AllTrueLevels(t) == [t EXCEPT !.lim = @ \o [k \in 1 .. Len(t.assumptions) - Len(@) |-> Len(t.trail)]]
TrueLevels(t) ==
  LET first == DecisionLevel(t) + 1
      untrue == {k \in first .. Len(t.assumptions) : ~IsTrue(t, t.assumptions[k])}
      n == IF untrue = {} THEN Len(t.assumptions) - first + 1 ELSE Min(untrue) - first
  IN  [t EXCEPT !.lim = @ \o [k \in 1 .. n |-> Len(t.trail)]]
Assumption(t) == t.assumptions[DecisionLevel(t) + 1]

Assume ==
  /\ pc = "decide"
  /\ LET t == TrueLevels(s) IN
     /\ DecisionLevel(t) < NbAssumptions
     /\ ~IsFalse(t, Assumption(t))
     /\ s' = UncheckedEnqueue(NewDecisionLevel(t), Assumption(t), 0)
  /\ pc' = "search"
  /\ UNCHANGED <<confl, client, spent>>

FinalConflict ==
  /\ pc = "decide"
  /\ LET t == TrueLevels(s)
         c == AnalyzeFinal(t, -Assumption(t))
     IN  /\ DecisionLevel(t) < NbAssumptions
         /\ IsFalse(t, Assumption(t))
         /\ Answer(IF Len(c) = 1 THEN CancelUntil(t, 0) ELSE Learn(t, c), "false")
  /\ UNCHANGED <<confl, client, spent>>

Decide ==
  /\ pc = "decide"
  /\ LET t == TrueLevels(s)
         next == PickBranchLit(t)
     IN  /\ DecisionLevel(t) >= NbAssumptions
         /\ next.lit # 0
         /\ s' = UncheckedEnqueue(NewDecisionLevel([t EXCEPT !.heap = next.heap]), next.lit, 0)
  /\ pc' = "search"
  /\ UNCHANGED <<confl, client, spent>>

ModelFound ==
  /\ pc = "decide"
  /\ LET t == TrueLevels(s) IN
     /\ DecisionLevel(t) >= NbAssumptions
     /\ PickBranchLit(t).lit = 0
     /\ Answer([t EXCEPT !.heap = <<>>], "true")
  /\ given' = Lits(s')
  /\ UNCHANGED <<confl, input, calls, probe, classes, spent, fixed>>

-----------------------------------------------------------------------------
(* The search: the constructor simplifies and calls it on all variables;   *)
(* a call reads the units, takes the components one after the other, and   *)
(* branches on a literal of each or finds it in the cache.                 *)

Known == fixed \cup UNION {calls[k].units : k \in DOMAIN calls}

\* The solver is called on the variables C under the assumptions "as".
Solve(t, C, as, branches) ==
  /\ s' = [RebuildWithConnectedComponent(t, C) EXCEPT !.assumptions = as]
  /\ spent' = [spent EXCEPT !.restarts = 0, !.conflicts = 0, !.branches = @ + branches]
  /\ pc' = "search"

Begin ==
  /\ pc = "true" /\ calls = <<>>
  /\ \E t \in IF Len(s.trail) # s.simpAssigns THEN {s, Simplify(s)} ELSE {s} :
       Solve([t EXCEPT !.removeSatisfied = FALSE], Var, <<>>, 0)
  /\ calls' = <<NewCall(Var, TRUE)>>
  /\ fixed' = Lits(s)
  /\ UNCHANGED <<confl, input, probe, classes, given>>

\* collectUnit, preUpdate, computeConnectedComponent
CollectUnit(t, C) == Over(Lits(t), C)
ReadUnits ==
  /\ pc = "true" /\ calls # <<>>
  /\ LET units == CollectUnit(s, Top.set) IN
     calls' = SetTop([Top EXCEPT !.units = units,
                                 !.todo = Components(Clauses, Top.set, Known \cup units)])
  /\ pc' = "components"
  /\ UNCHANGED <<s, confl, input, probe, classes, spent, given, fixed>>

NextComponent ==
  /\ pc = "components" /\ Top.connected = {}
  /\ \E C \in Top.todo : calls' = SetTop([Top EXCEPT !.connected = C, !.todo = @ \ {C}])
  /\ UNCHANGED <<s, pc, confl, input, probe, classes, spent, given, fixed>>

\* Nothing left to decide after the probes, or a cache hit: a component is
\* left alone when the bounds leave no literal to branch on.
Candidates ==
  IF spent.branches = MaxBranches THEN {}
  ELSE {l \in Branches : VarOf(l) \in Top.connected /\ Unassigned(s, VarOf(l))}
DropComponent ==
  /\ pc = "components" /\ Top.connected # {}
  /\ Candidates = {}
  /\ calls' = SetTop([Top EXCEPT !.connected = {}])
  /\ UNCHANGED <<s, pc, confl, input, probe, classes, spent, given, fixed>>

Branch ==
  /\ pc = "components"
  /\ \E l \in Candidates : Solve(s, Top.connected, Append(s.assumptions, l), 1)
  /\ calls' = Append(calls, NewCall(Top.connected, FALSE))
  /\ UNCHANGED <<confl, input, probe, classes, given, fixed>>

\* A call ends; the caller takes the assumption back.
Returns == pc = "false" \/ (pc = "components" /\ Top.todo = {} /\ Top.connected = {})
WithoutLast(as) == SubSeq(as, 1, Len(as) - 1)

OtherBranch ==
  /\ Returns /\ calls # <<>> /\ ~Top.second
  /\ LET as == WithoutLast(s.assumptions) IN
     Solve(CancelUntil(s, Len(as)), Top.set, Append(as, -s.assumptions[Len(s.assumptions)]), 0)
  /\ calls' = SetTop(NewCall(Top.set, TRUE))
  /\ UNCHANGED <<confl, input, probe, classes, given, fixed>>

Retract ==
  /\ Returns /\ Len(calls) > 1 /\ Top.second
  /\ LET as == WithoutLast(s.assumptions) IN s' = [CancelUntil(s, Len(as)) EXCEPT !.assumptions = as]
  /\ calls' = [Front(calls) EXCEPT ![Len(calls) - 1].connected = {}]
  /\ given' = Lits(s')
  /\ pc' = "components"
  /\ UNCHANGED <<confl, input, probe, classes, spent, fixed>>

Finished == Returns /\ Len(calls) <= 1
Finish == Finished /\ UNCHANGED vars

-----------------------------------------------------------------------------
(* equiv.hh: a literal is propagated at a level of its own, then its       *)
(* negation.  If either fails, a clause is learnt that says so; otherwise  *)
(* what both assign is a class.                                            *)

Assigned(t) == VarsOf(Lits(t))
ProbeLit(t, l) == UncheckedEnqueue(NewDecisionLevel(t), l, 0)

StartProbe ==
  /\ pc = "components" /\ spent.probes < MaxProbes
  /\ \E v \in Top.connected :
       /\ Unassigned(s, v)
       /\ s' = ProbeLit(s, v)
       /\ probe' = [lit |-> v, vars |-> {}]
  /\ pc' = "probe"
  /\ spent' = [spent EXCEPT !.probes = @ + 1]
  /\ UNCHANGED <<confl, input, calls, classes, given, fixed>>

\* What the second phase assigns too is a class.
\* (Mutant of Class: one phase is enough.)
ClassOfOnePhase(first, second) == first
Class(first, second) == first \cap second

OneLevelUp == CancelUntil(s, DecisionLevel(s) - 1)

\* interCollectUnit after the first phase, and after the second.
ProbeOther ==
  /\ pc = "probe" /\ Propagated /\ confl = 0 /\ probe.lit > 0
  /\ probe' = [lit |-> -probe.lit, vars |-> Assigned(s) \ (Assigned(OneLevelUp) \cup {probe.lit})]
  /\ s' = ProbeLit(OneLevelUp, -probe.lit)
  /\ UNCHANGED <<pc, confl, input, calls, classes, spent, given, fixed>>

EndProbe ==
  /\ pc = "probe" /\ Propagated /\ confl = 0 /\ probe.lit < 0
  /\ classes' = {[under |-> ToSet(s.assumptions), var |-> -probe.lit,
                class |-> Class(probe.vars, Assigned(s))]}
  /\ s' = OneLevelUp
  /\ given' = Lits(s')
  /\ probe' = NoProbe
  /\ pc' = "components"
  /\ UNCHANGED <<confl, input, calls, spent, fixed>>

\* resolveUnit and insertClauseAndPropagate
FailedLiteral ==
  /\ pc = "probe" /\ Propagated /\ confl # 0
  /\ LET analysis == AnalyzeLastUIP(s, confl)
         c == analysis.clause
         t == CancelUntil(analysis.s, Min({DecisionLevel(s) - 1, BackLevel(s, c)}))
     IN  s' = UncheckedEnqueue(IF Len(c) = 1 THEN t ELSE Learn(t, c), c[1],
                               IF Len(c) = 1 THEN 0 ELSE NewRef(t))
  /\ confl' = 0
  /\ pc' = "refill"
  /\ UNCHANGED <<input, calls, probe, classes, spent, given, fixed>>

\* The levels of the assumptions are opened again; a conflict is not looked at.
Refill ==
  /\ pc = "refill" /\ Propagated /\ DecisionLevel(s) < NbAssumptions
  /\ LET p == Assumption(s) IN
     s' = IF Unassigned(s, VarOf(p)) THEN UncheckedEnqueue(NewDecisionLevel(s), p, 0)
          ELSE NewDecisionLevel(s)
  /\ UNCHANGED <<pc, confl, client, spent>>

EndRefill ==
  /\ pc = "refill" /\ Propagated /\ DecisionLevel(s) >= NbAssumptions
  /\ given' = Lits(s)
  /\ probe' = NoProbe
  /\ confl' = 0
  /\ pc' = "components"
  /\ UNCHANGED <<s, input, calls, classes, spent, fixed>>

\* The compiler refills the levels between two components, after a branch.
RefillAssums ==
  /\ pc = "components" /\ DecisionLevel(s) < NbAssumptions
  /\ pc' = "refill"
  /\ UNCHANGED <<s, confl, client, spent>>

-----------------------------------------------------------------------------

Next ==
  \/ PropagateLiteral
  \/ AddClause \/ FirstSolve
  \/ SearchConflict \/ Restart \/ SearchNoConflict \/ ReduceDB \/ NoReduceDB
  \/ Assume \/ FinalConflict \/ Decide \/ ModelFound
  \/ Begin \/ ReadUnits \/ NextComponent \/ DropComponent \/ Branch \/ OtherBranch \/ Retract
  \/ StartProbe \/ ProbeOther \/ EndProbe \/ FailedLiteral \/ Refill \/ EndRefill \/ RefillAssums
  \/ Finish

Spec == Init /\ [][Next]_vars

\* Weak fairness of Next, with ENABLED written out: until the search is
\* finished there is a step to take, and it is taken.
FairSpec == Spec /\ ([]<>Finished \/ []<><<Next>>_vars)
-----------------------------------------------------------------------------
(* Properties.                                                             *)

LiveRefs == ToSet(s.clauses) \cup ToSet(s.learnts)
LevelOf(k) == LevelAt(s, k)

\* Every clause is watched exactly by its first two literals, once in each of
\* their lists, whatever was detached, collected or moved; every reason is a
\* clause that is kept, with its literal first and the others false before it.
ReferencesExact ==
  /\ \A l \in Literal : \A cr \in LiveRefs :
       Cardinality({k \in DOMAIN s.watches[l] : s.watches[l][k].cref = cr})
         = IF -l \in {s.ca[cr].lits[1], s.ca[cr].lits[2]} THEN 1 ELSE 0
  /\ \A l \in Literal : \A k \in DOMAIN s.watches[l] :
       LET w == s.watches[l][k] IN
       IF w.cref \in LiveRefs THEN w.blocker \in ToSet(s.ca[w.cref].lits)
       ELSE l \in s.dirties /\ s.ca[w.cref].mark
  /\ \A k \in DOMAIN s.trail : s.trail[k].reason # 0 =>
       LET cr == s.trail[k].reason IN
       /\ cr \in LiveRefs
       /\ s.ca[cr].lits[1] = s.trail[k].lit
       /\ \A l \in ToSet(Tail(s.ca[cr].lits)) : \E j \in 1 .. k - 1 : s.trail[j].lit = -l

\* When propagation ends without a conflict, no clause is false and none is
\* unit, although a clause is looked at only when one of two literals of it
\* becomes false.  While the levels of the assumptions are opened again no assumption
\* is false and no conflict arises, which insertClauseAndPropagate does not look at
\* and refillAssums asserts.
PropagationComplete ==
  /\ Propagated /\ confl = 0 /\ pc # "false" => \A cr \in LiveRefs :
       LET c == ToSet(s.ca[cr].lits) IN
       c \cap Lits(s) # {} \/ Cardinality({l \in c : ~IsFalse(s, l)}) >= 2
  /\ pc = "refill" =>
       confl = 0 /\ (DecisionLevel(s) < NbAssumptions => ~IsFalse(s, Assumption(s)))

\* Every learnt clause follows from the formula, and every literal from the
\* decisions up to its level.
Sound ==
  /\ \A cr \in ToSet(s.learnts) : \A m \in Models : m \cap ToSet(s.ca[cr].lits) # {}
  /\ \A k \in DOMAIN s.trail :
       s.trail[k].lit \in Implied[{s.trail[j].lit : j \in {i \in 1 .. k : s.trail[i].reason = 0 /\ LevelOf(i) > 0}}]

\* A variable put in a class is determined by the variable of the class.
ClassesDetermined ==
  \A c \in classes : \A v \in c.class : \A l \in {c.var, -c.var} :
    \E u \in {v, -v} : u \in Implied[c.under \cup {l}]

Status == CASE pc \in {"addClause", "search", "reduceDB", "decide"} -> "solving"
            [] pc \in {"probe", "refill"} -> "probing"
            [] pc = "false" -> "unsat"
            [] OTHER -> "sat"
Promise == INSTANCE SolverSpec WITH
  status <- Status, assumptions <- s.assumptions, component <- s.component,
  fixed <- fixed, known <- Known, trail <- given

\* The solver keeps its promise to the search.
KeepsPromise == Promise!Spec

\* Every solve and every search for failed literals ends.
Answers == []<>(Status \in {"sat", "unsat"})
=============================================================================
