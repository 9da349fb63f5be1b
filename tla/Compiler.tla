-------------------------------- MODULE Compiler --------------------------------
(***************************************************************************)
(* The search of d4 -dDNNF: DDnnfCompiler::compile_ and                    *)
(* compileDecisionNode, which call each other, as a stack machine, and     *)
(* what Main.cc does with the graph: print it, count it or answer queries. *)
(* A level of the stack is a call of compile_ together with the decision   *)
(* node it is computing.  pc is the place the innermost call has reached.  *)
(*                                                                         *)
(* The solver is what module SolverPromise says, the occurrence manager    *)
(* what ResidualFormula says; the partitioner is module Partitioner, with  *)
(* any partition of its library; the graph is module Dag.                  *)
(***************************************************************************)
EXTENDS Dag, SolverPromise, StoredFormula, Partitioner, TLC

CONSTANTS
  MinPartition,  \* components of at most this size are not partitioned (10),
  MaxPartition,  \* nor of at least this one (5000)
  Options,       \* what a compilation is started with, see Option
  Queries,       \* sets of literals
  MaxQueries     \* bound: the number of queries

Option == [order : {f \in [1 .. Cardinality(Var) -> Var] : \A v \in Var : \E i \in DOMAIN f : f[i] = v},
           phase : BOOLEAN, certified : BOOLEAN, decomposableAndNode : BOOLEAN]
ASSUME CompilerAssumption ==
  /\ Options \subseteq Option /\ MinPartition \in Nat /\ MaxPartition \in Nat /\ MaxQueries \in Nat
  /\ Queries \subseteq {q \in SUBSET {l \in Literal : VarOf(l) \in Projected} : ~Conflicting(q)}
  /\ Models # {}

VARIABLES
  option,      \* the order and the sign in which variables are selected (bound:
               \* they are kept for the whole compilation), -drat, -dec
  fixed,       \* the literals assigned when the formula was given to occManager
  assumptions, \* the solver's assumptions: the decisions of the branch
  trail,       \* the literals the solver has assigned
  occ,         \* the literals the occurrence manager has assigned
  cache,       \* stored formula -> node
  stack,       \* the calls, innermost last
  pc,
  ret,         \* what the call that just ended returned: a branch
  graph,
  asked, answer,
  queries      \* the number answered

search == <<fixed, assumptions, trail, occ, cache, stack, ret>>
asks == <<asked, answer, queries>>
vars == <<option, search, pc, graph, asks>>

Top == stack[Len(stack)]
Caller == stack[Len(stack) - 1]
SetTop(level) == [stack EXCEPT ![Len(stack)] = level]
CallsBelow == SubSeq(stack, 1, Len(stack) - 2)

Assumed == {assumptions[k] : k \in DOMAIN assumptions}
Unassigned(v) == v \notin VarsOf(trail)
OccClauses == {c \ Negated(fixed) : c \in {d \in Clauses : d \cap fixed = {}}}

\* What the solver may have assigned when it answers: literals that were
\* assigned without a clause, because their negation failed, stay unless
\* their level is left.
Trails == TrailsFrom(fixed \cup occ, Assumed) \cup TrailsFrom(Top.known, Assumed)

Found(C) == CacheMode # "off" /\ Key(OccClauses, C, occ) \in DOMAIN cache
AddInCache(C, d) ==
  cache' = IF CacheMode = "off" THEN cache ELSE Key(OccClauses, C, occ) :> d @@ cache

-----------------------------------------------------------------------------
(* A level: the parameters of compile_ (set, priority, dec) with what was  *)
(* assigned when it was called (known), the branch onB (units, free), its  *)
(* locals (todo: the components still to be compiled, andDecomposition     *)
(* with comeFromCache) and those of its decision node (connected, cut,     *)
(* first: the first branch, once compiled).                                *)

NewLevel(C, P, dec, known) ==
  [set |-> C, priority |-> P, dec |-> dec, known |-> known, units |-> {}, free |-> {},
   todo |-> {}, andDecomposition |-> <<>>, comeFromCache |-> <<>>,
   connected |-> {}, cut |-> {}, first |-> <<>>]

Init ==
  /\ option \in Options
  /\ fixed \in TrailsFrom({}, {})
  /\ trail = fixed
  /\ assumptions = <<>> /\ occ = {}
  /\ cache = [k \in {} |-> 0]
  /\ stack = <<NewLevel(Var, {}, 0, fixed)>>
  /\ pc = "solve"
  /\ ret = PlainBranch(globalFalseNode)
  /\ graph = EmptyGraph(option.certified)
  /\ asked = <<>> /\ answer = <<>> /\ queries = 0

\* manageUnsat
SolveUnsat ==
  /\ pc = "solve"
  /\ ~Satisfiable(Assumed)
  /\ ret' = Branch(globalFalseNode, {Top.dec}, {})
  /\ pc' = "return"
  /\ UNCHANGED <<option, fixed, assumptions, trail, occ, cache, stack, graph, asks>>

\* compile_: units, preUpdate and the connected components, or all of them as
\* one.
ComponentsFound(C, o) ==
  LET found == Components(OccClauses, C, o) IN
  IF option.decomposableAndNode \/ found = {} THEN found ELSE {UNION found}

SolveSat ==
  /\ pc = "solve"
  /\ LocallySatisfiable(Assumed \cup fixed \cup occ, Top.set)
  /\ trail' \in Trails
  /\ LET units == Over(trail', Top.set) IN
     /\ occ' = occ \cup units
     /\ stack' = SetTop([Top EXCEPT !.units = units,
                                    !.free = FreeVariables(OccClauses, Top.set, occ'),
                                    !.todo = ComponentsFound(Top.set, occ')])
  /\ pc' = "components"
  /\ UNCHANGED <<option, fixed, assumptions, cache, ret, graph, asks>>

NextConnected == CHOOSE C \in Top.todo : \A D \in Top.todo : Min(C) <= Min(D)
Compiled(level, d, cached) ==
  [level EXCEPT !.andDecomposition = Append(@, d), !.comeFromCache = Append(@, cached)]

\* (Mutant of PositiveHit: the flag is that of a node just made.)
ForgottenHit ==
  /\ pc = "components" /\ Top.todo # {}
  /\ LET C == NextConnected IN
     /\ Found(C)
     /\ stack' = SetTop(Compiled([Top EXCEPT !.todo = @ \ {C}], cache[Key(OccClauses, C, occ)], FALSE))
  /\ UNCHANGED <<option, fixed, assumptions, trail, occ, cache, pc, ret, graph, asks>>
PositiveHit ==
  /\ pc = "components" /\ Top.todo # {}
  /\ LET C == NextConnected IN
     /\ Found(C)
     /\ stack' = SetTop(Compiled([Top EXCEPT !.todo = @ \ {C}], cache[Key(OccClauses, C, occ)], TRUE))
  /\ UNCHANGED <<option, fixed, assumptions, trail, occ, cache, pc, ret, graph, asks>>

NegativeHit ==
  /\ pc = "components" /\ Top.todo # {}
  /\ LET C == NextConnected IN
     /\ ~Found(C)
     /\ stack' = SetTop([Top EXCEPT !.todo = @ \ {C}, !.connected = C,
                                    !.cut = {v \in Top.priority \cap C : Unassigned(v)}])
  /\ pc' = "partition"
  /\ UNCHANGED <<option, fixed, assumptions, trail, occ, cache, ret, graph, asks>>

\* compileDecisionNode
MustPartition ==
  Top.cut = {} /\ Cardinality(Top.connected) > MinPartition /\ Cardinality(Top.connected) < MaxPartition

Partition ==
  /\ pc = "partition" /\ MustPartition
  /\ \E part \in ComputePartition(Top.connected, trail, occ, OccClauses) :
       /\ trail' = part.trail
       /\ stack' = SetTop([Top EXCEPT !.cut = part.cut])
  /\ pc' = "select"
  /\ UNCHANGED <<option, fixed, assumptions, occ, cache, ret, graph, asks>>

SkipPartition ==
  /\ pc = "partition" /\ ~MustPartition
  /\ pc' = "select"
  /\ UNCHANGED <<option, search, graph, asks>>

Candidates ==
  {v \in IF Top.cut # {} THEN Top.cut ELSE Top.connected : Unassigned(v) /\ v \in Projected}
Selected ==
  LET place(v) == CHOOSE i \in DOMAIN option.order : option.order[i] = v IN
  CHOOSE v \in Candidates : \A w \in Candidates : place(v) <= place(w)

SelectVariable ==
  /\ pc = "select" /\ Candidates # {}
  /\ LET l == IF option.phase THEN Selected ELSE -Selected IN
     /\ assumptions' = Append(assumptions, l)
     /\ stack' = Append(stack, NewLevel(Top.connected, Top.cut, l, trail))
  /\ pc' = "solve"
  /\ UNCHANGED <<option, fixed, trail, occ, cache, ret, graph, asks>>

\* The end of a decision node of the call "level", which lies on the calls
\* "below": its node is d, in the graph g.
EndDecisionNode(below, level, g, d) ==
  /\ graph' = g
  /\ stack' = Append(below, [Compiled(level, d, FALSE) EXCEPT !.connected = {}, !.cut = {}, !.first = <<>>])
  /\ AddInCache(level.connected, d)
  /\ pc' = "components"

\* createTrueNode
\* (Mutant of CreateTrueNode: the literals are left out.)
TrueNodeWithoutUnits(g, C) == [g |-> g, d |-> globalTrueNode]
CreateTrueNode(g, C) ==
  LET b == Branch(globalTrueNode, Over(trail, C), {})
      h == Add(g, IF option.certified THEN UnaryNodeCertified(b, FALSE) ELSE UnaryNode(b))
  IN  IF b.units = {} THEN [g |-> g, d |-> globalTrueNode] ELSE [g |-> h, d |-> Newest(h)]

NothingToDecide ==
  /\ pc = "select" /\ Candidates = {}
  /\ LET made == CreateTrueNode(graph, Top.connected) IN
     EndDecisionNode(SubSeq(stack, 1, Len(stack) - 1), Top, made.g, made.d)
  /\ UNCHANGED <<option, fixed, assumptions, trail, occ, ret, asks>>

\* compile_: the node of the components, and postUpdate.  refillAssums then
\* raises the solver's levels; its trail is not read until the caller has left
\* the level or the solver has answered again.
AndNode(level) ==
  IF option.certified THEN DecomposableAndNodeCertified(level.andDecomposition, level.comeFromCache)
                      ELSE DecomposableAndNode(level.andDecomposition)
EndComponents ==
  /\ pc = "components" /\ Top.todo = {}
  /\ LET n == Len(Top.andDecomposition)
         h == IF n > 1 THEN Add(graph, AndNode(Top)) ELSE graph
         d == CASE n = 0 -> globalTrueNode [] n = 1 -> Top.andDecomposition[1] [] OTHER -> Newest(h)
     IN  /\ graph' = h
         /\ ret' = Flagged(Branch(d, Top.units, Top.free), n = 1 /\ Top.comeFromCache[1])
  /\ occ' = PostUpdate(occ, Top.units)
  /\ pc' = "return"
  /\ UNCHANGED <<option, fixed, assumptions, trail, cache, stack, asks>>

\* compileDecisionNode again, for the call below: a branch has returned.
FirstBranchReturns ==
  /\ pc = "return" /\ Len(stack) > 1 /\ Caller.first = <<>>
  /\ assumptions' = [assumptions EXCEPT ![Len(assumptions)] = -@]
  /\ stack' = CallsBelow \o <<[Caller EXCEPT !.first = <<ret>>],
                              NewLevel(Caller.connected, Caller.cut, -Top.dec, Top.known)>>
  /\ pc' = "solve"
  /\ UNCHANGED <<option, fixed, trail, occ, cache, ret, graph, asks>>

\* createObjectDecisionNode
CreateObjectDecisionNode(pos, neg) ==
  IF option.certified THEN BinaryDeterministicOrNodeCertified(pos, pos.cached, neg, neg.cached)
                      ELSE BinaryDeterministicOrNode(Flagged(pos, FALSE), Flagged(neg, FALSE))
SecondBranchReturns ==
  /\ pc = "return" /\ Len(stack) > 1 /\ Caller.first # <<>>
  /\ assumptions' = SubSeq(assumptions, 1, Len(assumptions) - 1)
  /\ trail' \in {Top.known} \cup TrailsBelow(fixed, assumptions')
  /\ LET h == Add(graph, CreateObjectDecisionNode(Caller.first[1], ret)) IN
     EndDecisionNode(CallsBelow, Caller, h, Newest(h))
  /\ UNCHANGED <<option, fixed, occ, ret, asks>>

\* compile
Finish ==
  /\ pc = "return" /\ Len(stack) = 1
  /\ graph' = Add(graph, rootNode(ret, ret.cached))
  /\ pc' = "compiled"
  /\ UNCHANGED <<option, search, asks>>

-----------------------------------------------------------------------------
(* Main.cc: compileDDNNF and runQueries.                                   *)

PrintNNF ==
  /\ pc = "compiled"
  /\ graph' = RootPrint(graph, Newest(graph))
  /\ pc' = "printed"
  /\ UNCHANGED <<option, search, asks>>

Answered(g, query, val) ==
  /\ graph' = g
  /\ asked' = query
  /\ answer' = <<val>>
  /\ UNCHANGED <<option, search>>

CountModels ==
  /\ pc \in {"compiled", "printed"}
  /\ LET r == NbModels(graph, Newest(graph)) IN Answered(r.g, <<"m", {}>>, r.val)
  /\ pc' = "done"
  /\ UNCHANGED queries

RunQueries ==
  /\ pc \in {"compiled", "printed", "queries"} /\ queries < MaxQueries
  /\ pc' = "queries"
  /\ queries' = queries + 1
CountQuery ==
  /\ RunQueries
  /\ \E q \in Queries :
       LET r == ComputeNbModelsConditioning(graph, q) IN Answered(r.g, <<"m", q>>, r.val)
DecideQuery ==
  /\ RunQueries
  /\ \E q \in Queries :
       LET r == IsSATConditioning(graph, q) IN Answered(r.g, <<"d", q>>, IF r.val THEN 1 ELSE 0)
EndQueries ==
  /\ pc \in {"compiled", "printed", "queries"}
  /\ pc' = "done"
  /\ UNCHANGED <<option, search, graph, asks>>

\* The process has ended.
Terminated == pc = "done" /\ UNCHANGED vars

Next ==
  \/ SolveUnsat \/ SolveSat
  \/ PositiveHit \/ NegativeHit \/ EndComponents
  \/ Partition \/ SkipPartition
  \/ SelectVariable \/ NothingToDecide
  \/ FirstBranchReturns \/ SecondBranchReturns
  \/ Finish
  \/ PrintNNF \/ CountModels \/ CountQuery \/ DecideQuery \/ EndQueries
  \/ Terminated

Spec == Init /\ [][Next]_vars

-----------------------------------------------------------------------------
(* Properties.                                                             *)

\* The function a node stands for: whether it accepts the assignment m.
Accepts(m) ==
  LET accepts[n \in DOMAIN graph.nodes] ==
        LET node == graph.nodes[n]
            through(b) == b.units \subseteq m /\ accepts[b.d]
        IN  CASE node.kind = "true" -> TRUE
              [] node.kind = "false" -> FALSE
              [] node.kind = "and" -> \A k \in DOMAIN node.branches : through(node.branches[k])
              [] OTHER -> \E k \in DOMAIN node.branches : through(node.branches[k])
  IN  accepts
SameFunction(b, C, cls) ==
  \A m \in Assignments(C) : (b.units \subseteq m /\ Accepts(m)[b.d]) <=> \A c \in cls : c \cap m # {}

\* Each call of compile_ returns its own subproblem: the clauses left of the
\* variables it was called on, under the decision it was called with.
ReturnsExact ==
  pc = "return" =>
    SameFunction(ret, Top.set, IF Len(stack) = 1 THEN Clauses
                               ELSE Residual(OccClauses, Top.set, occ) \cup {{Top.dec}})

\* A node found in the cache stands for the component it is found for,
\* although the key omits clauses and the node was made in another place.
HitExact ==
  pc = "components" /\ Top.todo # {} =>
    LET C == NextConnected IN
    Found(C) => SameFunction(PlainBranch(cache[Key(OccClauses, C, occ)]), C, Residual(OccClauses, C, occ))

\* What the partitioner puts on the two sides is connected only by the cut and
\* what the solver derives from it: once the variables of the cut have
\* values, no component has kept variables of both sides.
CutSeparates ==
  pc = "partition" /\ MustPartition =>
    \A part \in ComputePartition(Top.connected, trail, occ, OccClauses) :
      \A m \in Assignments(part.cut) :
        LET o == Propagate[occ \cup part.trail \cup m] IN
        Conflicting(o) \/ \A C \in Components(OccClauses, Top.connected, o) :
          \E side \in part.sides : C \cap UNION part.sides \subseteq side

\* The places the partitioner reads are those of the variables it looks up.
PlacesDefined ==
  pc = "partition" /\ MustPartition =>
    \A part \in ComputePartition(Top.connected, trail, occ, OccClauses) : part.defined

\* The lines printed, read as a graph: a number for each node, the root 1, and
\* the formula back; a certificate names one origin for each node that has a
\* proof, the branch that is not from the cache.
Lines == ToSet(graph.out)
NodeLines == {l \in Lines : "kind" \in DOMAIN l}
BranchLines == Lines \ NodeLines
ReadsBack(m) ==
  LET N == Cardinality(NodeLines)
      kind == [i \in 1 .. N |-> (CHOOSE l \in NodeLines : l.idx = i).kind]
      reads[d \in 0 .. N, i \in 1 .. N] ==
        LET through(l) == d > 0 /\ l.units \subseteq m /\ reads[d - 1, l.to]
            own == {l \in BranchLines : l.from = i}
        IN  CASE kind[i] = "true" -> TRUE
              [] kind[i] = "and" -> \A l \in own : through(l)
              [] OTHER -> \E l \in own : through(l)
  IN  reads[N, 1]
PrintedExact ==
  pc = "printed" =>
    LET N == Cardinality(NodeLines) IN
    /\ {l.idx : l \in NodeLines} = 1 .. N /\ [kind |-> "root", idx |-> 1] \in NodeLines
    /\ \A l \in BranchLines : l.to \in 2 .. N
    /\ \A m \in Assignments(Var) : ReadsBack(m) <=> m \in Models
    /\ option.certified => \A l \in NodeLines : l.kind \in {"or", "unary", "and"} =>
         Cardinality({b \in BranchLines : b.to = l.idx /\ ~b.cached}) = 1

Promise == INSTANCE QuerySpec
\* Each query is answered as if it were the first.
AnswersQueries == Promise!Spec
=============================================================================
