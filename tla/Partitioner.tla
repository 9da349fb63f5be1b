------------------------------ MODULE Partitioner ------------------------------
(***************************************************************************)
(* The clause bipartite graph partitioner: literals are probed for units   *)
(* and classes of variables, the clauses of a component are reduced, and   *)
(* a graph with a cell for each clause and a net for each variable is cut  *)
(* in two.  The cut is the variables with clauses on both sides.           *)
(***************************************************************************)
EXTENDS ResidualFormula, SequencesExt

CONSTANTS
  EquivSimp,      \* option eqs: look for failed literals and classes
  ReduceFormula   \* option rpg: leave out variables and clauses first

ASSUME PartitionerAssumption == EquivSimp \in BOOLEAN /\ ReduceFormula \in BOOLEAN

InOrder(C) == [i \in 1 .. Cardinality(C) |-> CHOOSE v \in C : Cardinality({w \in C : w <= v}) = i]
Listed(S) == FoldSet(LAMBDA x, seq : Append(seq, x), <<>>, S)
PlaceOf(seq, v) == CHOOSE i \in DOMAIN seq : seq[i] = v

-----------------------------------------------------------------------------
(* searchEquiv, by the propagation of the formula; module Solver has its   *)
(* steps.  acc holds the literals assigned, the classes and the variables  *)
(* that are in one.                                                        *)

Probe(acc, v) ==
  LET pos == Propagate[acc.trail \cup {v}]
      neg == Propagate[acc.trail \cup {-v}]
      class == ((VarsOf(pos) \cap VarsOf(neg)) \ (VarsOf(acc.trail) \cup {v})) \ acc.marked
  IN  IF v \in VarsOf(acc.trail) \cup acc.marked THEN acc
      ELSE IF Conflicting(pos) THEN [acc EXCEPT !.trail = neg]
      ELSE IF Conflicting(neg) THEN [acc EXCEPT !.trail = pos]
      ELSE IF class = {} THEN acc
      ELSE [acc EXCEPT !.classes = Append(@, [var |-> v, others |-> class]),
                       !.marked = @ \cup class]
SearchEquiv(C, trail) ==
  LET start == [trail |-> trail, classes |-> <<>>, marked |-> {}] IN
  IF EquivSimp THEN FoldLeft(Probe, start, InOrder(C)) ELSE start

-----------------------------------------------------------------------------
(* Reducing the formula.  cls is the sequence of the current clauses.      *)

\* computeUselessVariables: the first clause of the variable has all the
\* variables of its other clauses.
UselessVariables(cls, C, o) ==
  {v \in C : LET own == SelectSeq(cls, LAMBDA c : v \in VarsOf(Left(c, o))) IN
             own # <<>> /\ \A c \in ToSet(own) : VarsOf(Left(c, o)) \subseteq VarsOf(Left(own[1], o))}

\* computeUselessClauses: another clause, still there, has all the variables
\* that are left of it.
Open(c, o, useless) == VarsOf(Left(c, o)) \ useless
UsefulClauses(cls, o, useless) ==
  LET open(k) == Open(cls[k], o, useless)
      drop(gone, k) ==
        IF open(k) # {} /\ \E j \in DOMAIN cls \ (gone \cup {k}) : open(k) \subseteq open(j)
        THEN gone \cup {k} ELSE gone
      removed == FoldLeft(drop, {}, [k \in DOMAIN cls |-> k])
  IN  {cls[k] : k \in DOMAIN cls \ removed}

\* clearSetOfVariable: what is neither assigned nor useless, in order.
UsefulVariables(C, o, useless) ==
  SelectSeq(InOrder(C), LAMBDA v : v \notin VarsOf(o) \cup useless)

\* The graph: the variables kept, in order, and their nets.  The place of a
\* variable that is left out stays its place in the component.
Graph(C, o, cls) ==
  LET useless == IF ReduceFormula THEN UselessVariables(cls, C, o) ELSE {}
      cells == IF ReduceFormula THEN UsefulClauses(cls, o, useless) ELSE ToSet(cls)
      all == InOrder(C)
      use == IF ReduceFormula THEN UsefulVariables(C, o, useless) ELSE all
  IN  [use |-> use, cells |-> cells, useless |-> useless, defined |-> TRUE,
       place |-> [v \in C |-> IF v \in ToSet(use) THEN PlaceOf(use, v) ELSE PlaceOf(all, v)],
       nets |-> [i \in DOMAIN use |-> {c \in cells : use[i] \in VarsOf(Left(c, o))}]]

\* The nets of a class become the net of its variable.  A place that is not
\* the variable's own is another's, or none.
NetAt(g, p) == IF p \in DOMAIN g.nets THEN g.nets[p] ELSE {}
MergeClass(g, class, C) ==
  LET v == class.var
      merged == {u \in class.others \cap C : u \notin g.useless}
      net == UNION {NetAt(g, g.place[u]) : u \in merged \cup {v}}
  IN  IF v \notin C \/ v \in g.useless THEN g
      ELSE [g EXCEPT !.nets = [i \in DOMAIN @ |-> IF i = g.place[v] THEN net ELSE @[i]],
                     !.useless = @ \cup merged,
                     !.defined = @ /\ \A u \in merged \cup {v} : u \in ToSet(g.use)]
Merged(g, classes, C) ==
  LET m == FoldLeft(LAMBDA h, class : MergeClass(h, class, C), g, classes)
      places == SelectSeq([i \in DOMAIN m.use |-> i], LAMBDA i : m.use[i] \notin m.useless)
  IN  [m EXCEPT !.use = [j \in DOMAIN places |-> m.use[places[j]]],
                !.nets = [j \in DOMAIN places |-> m.nets[places[j]]]]

-----------------------------------------------------------------------------
(* The cut.  The partitioning library puts every cell on a side.           *)

\* extractCutFromClauses
\* (Mutant of Split: the last clause of a net is not looked at.)
SplitButLast(net, side) ==
  \E c, d \in net : side[c] # side[d] /\ \E b \in net \ {c, d} : TRUE
Split(net, side) == \E c, d \in net : side[c] # side[d]

\* The rest of a class joins its variable in the cut if it is in the current
\* component, which has been cleared by then.
CutOf(g, side, classes) ==
  LET cut == {g.use[i] : i \in {j \in DOMAIN g.use : Split(g.nets[j], side)}}
      inCurrentComponent == {}
  IN  cut \cup UNION {classes[k].others \cap inCurrentComponent :
                      k \in {j \in DOMAIN classes : classes[j].var \in cut}}

\* computePartition of the component C, with what the solver and the
\* occurrence manager (its clauses are occClauses) have assigned: the results
\* it may have, one for each choice of the sides.
ComputePartition(C, trail, o, occClauses) ==
  LET found == SearchEquiv(C, trail)
      known == IF EquivSimp THEN o \cup found.trail ELSE o
      cls == Listed(CurrentClauses(occClauses, C, known))
      graph == Graph(C, known, cls)
      g == IF EquivSimp THEN Merged(graph, found.classes, C) ELSE graph
      result(side) ==
        [trail |-> found.trail, defined |-> g.defined, cut |-> CutOf(g, side, found.classes),
         sides |-> {{g.use[i] : i \in {j \in DOMAIN g.use : \A c \in g.nets[j] : side[c] = b}} : b \in {0, 1}}]
  IN  {result(side) : side \in [g.cells -> {0, 1}]}
=============================================================================
