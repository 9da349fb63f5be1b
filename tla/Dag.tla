---------------------------------- MODULE Dag ----------------------------------
(***************************************************************************)
(* The graph the compiler builds and the walks that count its models,      *)
(* decide whether it has any, and print it.  The walks share what a node   *)
(* remembers of the last one: its stamp, compared with the global stamp,   *)
(* and the result it saved.                                                *)
(*                                                                         *)
(* A node is its place in the graph; its children precede it.  A branch    *)
(* leads to a node (d) and carries the literals and the free variables     *)
(* that are decided on the way; "cached" is the flag of the certificate.   *)
(***************************************************************************)
EXTENDS WeightedCnf, Sequences, SequencesExt

Branch(d, units, free) == [d |-> d, units |-> units, free |-> free, cached |-> FALSE]
PlainBranch(d) == Branch(d, {}, {})
Flagged(b, cached) == [b EXCEPT !.cached = cached]

Node(kind, branches) ==
  [kind |-> kind, branches |-> branches, stamp |-> 0, nbModels |-> 0, saveDecision |-> FALSE]

trueNode == Node("true", <<>>)
falseNode == Node("false", <<>>)
\* The certified classes keep where a branch comes from as well.
UnaryNode(b) == Node("unary", <<b>>)
UnaryNodeCertified(b, cached) == Node("unary", <<Flagged(b, cached)>>)
BinaryDeterministicOrNode(first, second) == Node("or", <<first, second>>)
BinaryDeterministicOrNodeCertified(first, cachedFirst, second, cachedSecond) ==
  Node("or", <<Flagged(first, cachedFirst), Flagged(second, cachedSecond)>>)
DecomposableAndNode(sons) == Node("and", [k \in DOMAIN sons |-> PlainBranch(sons[k])])
DecomposableAndNodeCertified(sons, cached) ==
  Node("and", [k \in DOMAIN sons |-> Flagged(PlainBranch(sons[k]), cached[k])])
rootNode(b, cached) == Node("root", <<Flagged(b, cached)>>)

globalTrueNode == 1
globalFalseNode == 2
EmptyGraph(certified) ==
  [nodes |-> <<trueNode, falseNode>>, globalStamp |-> 1, idxOutputStruct |-> 0,
   fixedValue |-> [v \in Var |-> 0], certified |-> certified, out |-> <<>>]

Add(g, node) == [g EXCEPT !.nodes = Append(@, node)]
Newest(g) == Len(g.nodes)
UpToDate(g, n) == g.nodes[n].stamp = g.globalStamp
First(g, n) == g.nodes[n].branches[1]
Second(g, n) == g.nodes[n].branches[2]

\* A walk starts at the root, which makes every stamp old.
\* (Mutant of NewStamp: it does not.)
SameStamp(g) == g
NewStamp(g) == [g EXCEPT !.globalStamp = @ + 1]

Contradicts(g, l) == g.fixedValue[VarOf(l)] = -l

-----------------------------------------------------------------------------
(* computeNbModels: a walk gives the graph as it leaves it and a value.    *)

FreeWeight(g, v) ==
  IF g.fixedValue[v] # 0 THEN Weight[g.fixedValue[v]] ELSE Weight[v] + Weight[-v]
BranchWeight(g, b) ==
  WeightOf(Over(b.units, Projected)) * FoldSet(LAMBDA v, w : FreeWeight(g, v) * w, 1, b.free \cap Projected)

RECURSIVE NbModels(_, _)
BranchNbModels(g, b) ==
  IF \E l \in Over(b.units, Projected) : Contradicts(g, l) THEN [g |-> g, val |-> 0]
  ELSE LET r == NbModels(g, b.d) IN [r EXCEPT !.val = @ * BranchWeight(g, b)]
SaveNbModels(g, n, val) ==
  [g |-> [g EXCEPT !.nodes[n].nbModels = val, !.nodes[n].stamp = g.globalStamp], val |-> val]
UnaryNbModels(g, n) ==
  LET r == BranchNbModels(g, First(g, n)) IN
  IF UpToDate(g, n) THEN [g |-> g, val |-> g.nodes[n].nbModels] ELSE SaveNbModels(r.g, n, r.val)
OrNbModels(g, n) ==
  LET r == BranchNbModels(g, First(g, n))
      s == BranchNbModels(r.g, Second(g, n))
  IN  IF UpToDate(g, n) THEN [g |-> g, val |-> g.nodes[n].nbModels]
      ELSE SaveNbModels(s.g, n, r.val + s.val)
AndNbModels(g, n) ==
  FoldLeft(LAMBDA acc, b : LET r == NbModels(acc.g, b.d) IN [r EXCEPT !.val = @ * acc.val],
           [g |-> g, val |-> 1], g.nodes[n].branches)
RootNbModels(g, n) == BranchNbModels(NewStamp(g), First(g, n))
NbModels(g, n) ==
  CASE g.nodes[n].kind = "true" -> [g |-> g, val |-> 1]
    [] g.nodes[n].kind = "false" -> [g |-> g, val |-> 0]
    [] g.nodes[n].kind = "unary" -> UnaryNbModels(g, n)
    [] g.nodes[n].kind = "or" -> OrNbModels(g, n)
    [] g.nodes[n].kind = "and" -> AndNbModels(g, n)
    [] g.nodes[n].kind = "root" -> RootNbModels(g, n)

-----------------------------------------------------------------------------
(* isSAT: an or node stops at the first branch that is satisfiable, an and *)
(* node at the first that is not.                                          *)

RECURSIVE Sat(_, _)
BranchSat(g, b) ==
  IF \E l \in b.units : Contradicts(g, l) THEN [g |-> g, val |-> FALSE] ELSE Sat(g, b.d)
SaveDecision(r, n) ==
  [r EXCEPT !.g.nodes[n].saveDecision = r.val, !.g.nodes[n].stamp = r.g.globalStamp]
UnarySat(g, n) ==
  IF UpToDate(g, n) THEN [g |-> g, val |-> g.nodes[n].saveDecision]
  ELSE SaveDecision(BranchSat(g, First(g, n)), n)
OrSat(g, n) ==
  LET r == BranchSat(g, First(g, n)) IN
  IF UpToDate(g, n) THEN [g |-> g, val |-> g.nodes[n].saveDecision]
  ELSE SaveDecision(IF r.val THEN r ELSE BranchSat(r.g, Second(g, n)), n)
AndSat(g, n) ==
  FoldLeft(LAMBDA acc, b : IF acc.val THEN Sat(acc.g, b.d) ELSE acc,
           [g |-> g, val |-> TRUE], g.nodes[n].branches)
RootSat(g, n) == BranchSat(NewStamp(g), First(g, n))
Sat(g, n) ==
  CASE g.nodes[n].kind = "true" -> [g |-> g, val |-> TRUE]
    [] g.nodes[n].kind = "false" -> [g |-> g, val |-> FALSE]
    [] g.nodes[n].kind = "unary" -> UnarySat(g, n)
    [] g.nodes[n].kind = "or" -> OrSat(g, n)
    [] g.nodes[n].kind = "and" -> AndSat(g, n)
    [] g.nodes[n].kind = "root" -> RootSat(g, n)

-----------------------------------------------------------------------------
(* Conditioning: the values of the query are fixed, and released after.    *)

Fix(g, q) == [g EXCEPT !.fixedValue = [v \in Var |-> IF v \in q THEN v ELSE IF -v \in q THEN -v ELSE @[v]]]
Release(g, q) == [g EXCEPT !.fixedValue = [v \in Var |-> IF v \in VarsOf(q) THEN 0 ELSE @[v]]]
ComputeNbModelsConditioning(g, q) ==
  LET r == NbModels(Fix(g, q), Newest(g)) IN [r EXCEPT !.g = Release(@, q)]
IsSATConditioning(g, q) ==
  LET r == Sat(Fix(g, q), Newest(g)) IN [r EXCEPT !.g = Release(@, q)]

-----------------------------------------------------------------------------
(* printNNF: a node is numbered when it is reached first, and its stamp    *)
(* says so.  A line says a node's kind and number, or is a branch: the    *)
(* two numbers, the literals, and in a certificate where it comes from.    *)

GetIdx(g, n) == g.nodes[n].stamp - g.globalStamp
AlreadyPrinted(g, n) == g.nodes[n].stamp >= g.globalStamp
Numbered(g, n) ==
  [g EXCEPT !.nodes[n].stamp = g.globalStamp + g.idxOutputStruct + 1, !.idxOutputStruct = @ + 1,
            !.out = Append(@, [kind |-> g.nodes[n].kind, idx |-> g.idxOutputStruct + 1])]
BranchLine(g, idx, b) ==
  [g EXCEPT !.out = Append(@, [from |-> idx, to |-> GetIdx(g, b.d), units |-> b.units, cached |-> b.cached])]

RECURSIVE PrintNode(_, _)
UnaryPrint(g, n) ==
  LET h == Numbered(g, n) IN BranchLine(PrintNode(h, First(g, n).d), h.idxOutputStruct, First(g, n))
OrPrint(g, n) ==
  LET h == Numbered(g, n)
      walked == PrintNode(PrintNode(h, First(g, n).d), Second(g, n).d)
  IN  BranchLine(BranchLine(walked, h.idxOutputStruct, First(g, n)), h.idxOutputStruct, Second(g, n))
AndPrint(g, n) ==
  LET h == Numbered(g, n) IN
  FoldLeft(LAMBDA acc, b : BranchLine(PrintNode(acc, b.d), h.idxOutputStruct, b), h, g.nodes[n].branches)
ConstantPrint(g, n) == Numbered(g, n)
PrintNode(g, n) ==
  IF AlreadyPrinted(g, n) THEN g
  ELSE CASE g.nodes[n].kind = "unary" -> UnaryPrint(g, n)
         [] g.nodes[n].kind = "or" -> OrPrint(g, n)
         [] g.nodes[n].kind = "and" -> AndPrint(g, n)
         [] OTHER -> ConstantPrint(g, n)

\* The root is printed once, numbers itself and moves the global stamp past
\* the numbers given.
RootPrint(g, n) ==
  LET h == UnaryPrint(g, n) IN [h EXCEPT !.globalStamp = @ + h.idxOutputStruct]
=============================================================================
