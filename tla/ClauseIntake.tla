---------------------------- MODULE ClauseIntake ----------------------------
(***************************************************************************)
(* From the file to the clauses of the occurrence manager.  Both           *)
(* engines hand each clause to Solver::addClause_, which takes it by       *)
(* reference and sorts and shortens it in place, and ask for a first       *)
(* answer.  Then the model counter copies the clauses as addClause_ left   *)
(* them, and the compiler copies the solver's own (prepareVecClauses).     *)
(* Both leave out what is satisfied and the literals that are false.       *)
(*                                                                         *)
(* A literal is an integer, a clause a sequence of literals that may       *)
(* repeat some and contradict itself: the parser takes it as it stands.    *)
(***************************************************************************)
EXTENDS Parser, Subsequence, FiniteSetsExt

CONSTANTS
  Var      \* variables: positive integers

Literal == Var \cup {-v : v \in Var}

ASSUME VarAssumption == Var \in SUBSET (Nat \ {0}) /\ IsFiniteSet(Var)

\* The files that arguments name: a formula says how many variables it has and is over them,
\* weights are for its literals, projected variables are numbers (nothing of it is checked:
\* the arrays are indexed with what is read).
PlainNames(i) == {a.name : a \in {b \in ToSet(i.args) : b.kind = "plain"}}
GivenFor(i, o) == {a.value.text : a \in {b \in ToSet(i.args) : Parses(o, b)}}
IsFormula(f) ==
  /\ f \in Seq(ToSet(f))
  /\ \A token \in ToSet(f) :
       /\ token.kind = "int" => token.value \in Literal \cup {0}
       /\ token.kind = "problem" => token.vars \in Nat /\ Var \subseteq 1 .. token.vars
  /\ \E token \in ToSet(f) : token.kind = "problem"
IsWeights(f) == f \in Seq(ToSet(f)) /\ \A entry \in ToSet(f) : entry.lit \in Literal
IsProjected(f) == f \in Seq(Int)
ASSUME FilesAssumption ==
  \A i \in Invocations :
    /\ "/dev/null" \notin DOMAIN i.disk
    /\ \A name \in DOMAIN i.disk :
         /\ name \in PlainNames(i) => IsFormula(i.disk[name])
         /\ name \in GivenFor(i, "wFile") => IsWeights(i.disk[name])
         /\ name \in GivenFor(i, "fpv") => IsProjected(i.disk[name])

VARIABLES
  engine,   \* "counter", "compiler", "printer" or "nothing", once it is chosen
  cnf,      \* the same clauses, as far as addClause_ has changed them
  next,     \* the next clause to add, or to copy
  units,    \* the solver's trail
  attached, \* the solver's clauses
  clauses,  \* the clauses for the occurrence manager
  occList   \* its lists
\* pc goes on with "add", "copy", "ready" or "unsat", or "rejected", or "done".

intakeVars == <<engine, cnf, next, units, attached, clauses, occList>>
problem == <<optionVars, readVars>>
vars == <<parserVars, intakeVars>>

Init ==
  /\ ParserInit
  /\ engine = "nothing" /\ cnf = <<>>
  /\ next = 1 /\ units = {} /\ attached = <<>> /\ clauses = <<>>
  /\ occList = [l \in Literal |-> <<>>]

\* main: with no preprocessing asked for, the clauses are those that were read.  Without an
\* engine it prints them or does nothing, and exits.  The counter makes its heuristics before
\* it adds the clauses, the compiler once it has found them satisfiable; both give up if there
\* is one they do not know.
Load ==
  /\ pc = "parsed"
  /\ engine' = Engine
  /\ cnf' = input
  /\ pc' = CASE Engine \in {"printer", "nothing"} -> "done"
             [] Engine = "counter" /\ ~KnownNames -> "rejected"
             [] OTHER -> "add"
  /\ UNCHANGED <<problem, next, units, attached, clauses, occList>>

-----------------------------------------------------------------------------
(* Solver::addClause_.                                                     *)

\* sort: by variable, the positive literal first.
Size(l) == IF l < 0 THEN -l ELSE l
Less(l, m) == Size(l) < Size(m) \/ (l = -m /\ l > m)
Insert(s, l) == LET before == {m \in Literal : Less(m, l)}
                IN Append(Kept(s, before), l) \o Kept(s, Literal \ before)
Sorted(c) ==
  LET sorted[n \in 0 .. Len(c)] == IF n = 0 THEN <<>> ELSE Insert(sorted[n - 1], c[n])
  IN sorted[Len(c)]
IsTrue(l) == l \in units
IsFalse(l) == -l \in units

\* What the loop keeps of the first n literals.
\* (Mutant of KeptOf: a literal that the clause repeats is kept again.)
OpenPlaces(c, n) == {m \in 1 .. n : ~IsFalse(c[m])}
InOrder(c, places) ==
  LET left == Kept([m \in 1 .. Len(c) |-> m], places) IN [m \in DOMAIN left |-> c[left[m]]]
KeptTwice(c, n) == InOrder(c, OpenPlaces(c, n))
KeptOf(c, n) == InOrder(c, {m \in OpenPlaces(c, n) : \A k \in 1 .. m - 1 : c[k] # c[m]})

\* The places where it stops: the clause is satisfied or holds both literals of a variable.
\* (Mutant of StopsAt: it stops at a false literal as well.)
StopsAtFalse(c) == {n \in DOMAIN c : IsTrue(c[n]) \/ IsFalse(c[n]) \/ \E m \in 1 .. n - 1 : c[m] = -c[n]}
StopsAt(c) == {n \in DOMAIN c : IsTrue(c[n]) \/ \E m \in 1 .. n - 1 : c[m] = -c[n]}
IsTautologie(c) == StopsAt(c) # {}

\* What it leaves of the clause: where it stops, what it had kept overwrites the places
\* in front and nothing is cut off.
Overwritten(c) == LET left == KeptOf(c, Min(StopsAt(c)) - 1)
                  IN left \o SubSeq(c, Len(left) + 1, Len(c))
Rewritten(c) == IF IsTautologie(c) THEN Overwritten(c) ELSE KeptOf(c, Len(c))

\* propagate: the smallest set of literals closed under the clauses.
ClosedUnder(S, cs) ==
  \A i \in DOMAIN cs : \A l \in ToSet(cs[i]) :
    (\A m \in ToSet(cs[i]) \ {l} : -m \in S) => l \in S
\* (Mutant of Propagate: only the literals that are given.)
PropagateNothing(S, cs) == S
Propagate(S, cs) ==
  {l \in Literal : \A T \in SUBSET Literal : S \subseteq T /\ ClosedUnder(T, cs) => l \in T}
Conflict(S) == \E l \in S : -l \in S

\* Line 191: once the clauses contradict one another nothing is added; the answer is 0.
AddTautologie ==
  /\ pc = "add" /\ next <= Len(cnf)
  /\ LET c == Sorted(cnf[next])
     IN IsTautologie(c) /\ cnf' = [cnf EXCEPT ![next] = Rewritten(c)]
  /\ next' = next + 1
  /\ UNCHANGED <<problem, engine, units, attached, clauses, occList, pc>>

AddUnit ==
  /\ pc = "add" /\ next <= Len(cnf)
  /\ LET c == Sorted(cnf[next])
         ps == Rewritten(c)
     IN /\ ~IsTautologie(c) /\ Len(ps) <= 1
        /\ cnf' = [cnf EXCEPT ![next] = ps]
        /\ units' = Propagate(units \cup ToSet(ps), attached)
        /\ pc' = IF ps = <<>> \/ Conflict(units') THEN "unsat" ELSE "add"
  /\ next' = next + 1
  /\ UNCHANGED <<problem, engine, attached, clauses, occList>>

Attach ==
  /\ pc = "add" /\ next <= Len(cnf)
  /\ LET c == Sorted(cnf[next])
         ps == Rewritten(c)
     IN /\ ~IsTautologie(c) /\ Len(ps) > 1
        /\ cnf' = [cnf EXCEPT ![next] = ps]
        /\ attached' = Append(attached, ps)
  /\ next' = next + 1
  /\ UNCHANGED <<problem, engine, units, clauses, occList, pc>>

-----------------------------------------------------------------------------
(* The first answer, and the copy for the occurrence manager.              *)

Total == {A \in SUBSET Literal : \A v \in Var : (v \in A) # (-v \in A)}
ModelsOf(S, cs) == {A \in Total : S \subseteq A /\ \A i \in DOMAIN cs : ToSet(cs[i]) \cap A # {}}
Implied(S, cs) == {l \in Literal : \A A \in ModelsOf(S, cs) : l \in A}

\* solveWithAssumptions: unsatisfiable, or with more literals learnt at the root.
SolveUnsat ==
  /\ pc = "add" /\ next > Len(cnf)
  /\ ModelsOf(units, attached) = {}
  /\ pc' = "unsat"
  /\ UNCHANGED <<problem, engine, cnf, next, units, attached, clauses, occList>>

SolveSat ==
  /\ pc = "add" /\ next > Len(cnf)
  /\ ModelsOf(units, attached) # {}
  /\ \E more \in SUBSET (Implied(units, attached) \ units) :
       units' = Propagate(units \cup more, attached)
  /\ pc' = IF KnownNames THEN "copy" ELSE "rejected"
  /\ next' = 1
  /\ UNCHANGED <<problem, engine, cnf, attached, clauses, occList>>

Source == IF engine = "counter" THEN cnf ELSE attached
IsSat(c) == \E l \in ToSet(c) : IsTrue(l)
Open(c) == Kept(c, {l \in Literal : ~IsTrue(l) /\ ~IsFalse(l)})

\* The compiler leaves out a clause that has the literals of one it has, and no more.
AlreadyPresent(c) ==
  engine = "compiler" /\ \E j \in DOMAIN clauses : /\ Len(clauses[j]) = Len(c)
                                                   /\ ToSet(clauses[j]) \subseteq ToSet(c)

LeaveOut ==
  /\ pc = "copy" /\ next <= Len(Source)
  /\ IsSat(Source[next]) \/ AlreadyPresent(Open(Source[next]))
  /\ next' = next + 1
  /\ UNCHANGED <<problem, engine, cnf, units, attached, clauses, occList, pc>>

Copy ==
  /\ pc = "copy" /\ next <= Len(Source)
  /\ ~IsSat(Source[next]) /\ ~AlreadyPresent(Open(Source[next]))
  /\ clauses' = Append(clauses, Open(Source[next]))
  /\ next' = next + 1
  /\ UNCHANGED <<problem, engine, cnf, units, attached, occList, pc>>

TimesIn(s, x) == Cardinality({n \in DOMAIN s : s[n] = x})

\* initFormula, and the constructor the compiler uses: an entry for each occurrence.
Entries(l) == FlattenSeq([i \in DOMAIN clauses |-> [n \in 1 .. TimesIn(clauses[i], l) |-> i]])
InitFormula ==
  /\ pc = "copy" /\ next > Len(Source)
  /\ occList' = [l \in Literal |-> Entries(l)]
  /\ pc' = "ready"
  /\ UNCHANGED <<problem, engine, cnf, next, units, attached, clauses>>

Next ==
  \/ ParserNext /\ UNCHANGED intakeVars
  \/ Load
  \/ AddTautologie \/ AddUnit \/ Attach
  \/ SolveUnsat \/ SolveSat
  \/ LeaveOut \/ Copy \/ InitFormula

Spec == Init /\ [][Next]_vars

-----------------------------------------------------------------------------
(* Properties.                                                             *)

\* What the search is given is the problem that the command line asks for, whatever the order
\* of its arguments: the options have the values of their last arguments, the models are those
\* that the file says, with its weights and its projected variables; 0 is answered at once
\* only if there are no models.
ModelsOfFile == {A \in Total : \A c \in ClauseSets(file) : c \cap A # {}}
ProblemKept ==
  /\ pc \in {"ready", "unsat"} => ValuesAsked /\ file.cnf = FileAsked
  /\ pc = "ready" =>
       /\ KnownNames
       /\ ModelsOf(units, clauses) = ModelsOfFile
       /\ \A l \in Literal : weightLit[LitIndex(l)] = LastWeight(file, l)
       /\ \A v \in Var : varProjected[v - 1] <=> v \in ProjectedVariables(file)
  /\ pc = "unsat" => ModelsOfFile = {}

\* The search starts with nothing to propagate: no clause is empty, none has one
\* literal, and none a literal with a value (the constructor's assertion on redCl).
NothingToPropagate ==
  pc = "ready" => \A i \in DOMAIN clauses :
    /\ Cardinality(ToSet(clauses[i])) > 1
    /\ \A l \in ToSet(clauses[i]) : ~IsTrue(l) /\ ~IsFalse(l)

\* The occurrence manager gets clauses without repeated literals; only a tautology, and
\* only in the model counter, may repeat some.
OthersAreSets ==
  pc = "ready" => \A i \in DOMAIN clauses :
    \/ IsInjective(clauses[i])
    \/ engine = "counter" /\ \E l \in ToSet(clauses[i]) : -l \in ToSet(clauses[i])

\* When preUpdate assigns a literal, each entry of its list has the clause taken out of
\* the lists of its other literals, once for each time it holds them, and
\* removeIdxFromOccList asserts that there is something to take out.
RemovalsFind ==
  pc = "ready" => \A l, x \in Literal : \A i \in DOMAIN clauses :
    l # x /\ l # -x =>
      TimesIn(occList[l], i) * TimesIn(clauses[i], x) <= TimesIn(occList[x], i)
=============================================================================
