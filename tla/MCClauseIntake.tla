--------------------------- MODULE MCClauseIntake ---------------------------
(* Formulas of three clauses over three variables, of shapes that interfere:  *)
(* units, the empty clause, duplicates, tautologies, clauses that a unit makes *)
(* false in part; and four clauses that contradict one another without a unit. *)
EXTENDS ClauseIntake

\* Formulas in files that end their lines anywhere, announced with some number of clauses.
MCInt(n) == [kind |-> "int", value |-> n]
MCLine == [kind |-> "skipped"]
MCProblem == [kind |-> "problem", vars |-> 3, clauses |-> 3]
MCTokens(c) == [n \in 1 .. Len(c) + 1 |-> MCInt(IF n > Len(c) THEN 0 ELSE c[n])]
MCDimacs(f) == <<MCLine, MCProblem>> \o FlattenSeq([n \in DOMAIN f |-> MCTokens(f[n])]) \o <<MCLine>>
MCWeights == <<[lit |-> 1, weight |-> 5], [lit |-> -3, weight |-> 2], [lit |-> 1, weight |-> 3]>>

\* Arguments.
MCPlain(name) == [kind |-> "plain", name |-> name]
MCHelp(more) == [kind |-> "help", rest |-> more]
MCBool(name) == [kind |-> "flag", name |-> name, no |-> FALSE, value |-> None]
MCNo(name) == [kind |-> "flag", name |-> name, no |-> TRUE, value |-> None]
MCSet(name, text, number) ==
  [kind |-> "flag", name |-> name, no |-> FALSE, value |-> [text |-> text, number |-> number]]
MCText(name, text) == MCSet(name, text, 0)
MCNumber(name, number) == MCSet(name, "a number", number)

MCShapes == {<<1>>, <<-1, -1>>, <<-2, -3>>, <<3, 2, 3>>, <<2, -3, -1>>, <<-2, 3>>,
             <<3, 2, -3>>, <<-2, 1, 2, 3>>, <<>>}
MCFormulas == [1 .. 3 -> MCShapes] \cup {<<<<2, 3>>, <<-2, 3>>, <<2, -3>>, <<-2, -3>>>>}
MCEngine == {MCBool("mc"), MCBool("dDNNF")}
MCCall(as, tokens) == [args |-> as, disk |-> [formula |-> tokens]]

\* Each formula, for each engine; a formula with weights and projected variables.
MCPlainCalls == {MCCall(<<e, MCPlain("formula")>>, MCDimacs(f)) : e \in MCEngine, f \in MCFormulas}
MCExtra == <<<<1, 2>>, <<-2, 3>>>>
MCWeightedCalls ==
  {[args |-> <<MCPlain("formula"), e, MCText("wFile", "w"), MCText("fpv", "p"), MCText("wFile", w)>>,
    disk |-> [formula |-> MCDimacs(MCExtra), weights |-> MCWeights, projected |-> <<1, 3>>, p |-> <<2>>]] :
     e \in MCEngine, w \in {"weights", "nowhere"}}
MCUnendedCalls ==
  {MCCall(<<MCPlain("formula"), MCBool("mc")>>, <<MCProblem, MCInt(1)>> \o end) :
     end \in {<<>>, <<MCLine, MCInt(0)>>, <<MCInt(0), [kind |-> "other"]>>}}

\* Options that are repeated, taken back, out of their ranges, cut to the width, unknown.
MCFlags == {MCNo("mc"), MCBool("print"), MCHelp("-verb"), MCHelp("less"), MCPlain("other"),
            MCNo("cs"), MCText("cs", "ALL"), MCText("vh", "RANDOM"), MCText("mc", "1"),
            MCText("fpv", "nowhere"), MCNumber("rfirst", 2 ^ 16 + 7), MCNumber("rfirst", 0),
            MCNumber("ccminMode", 3), MCNumber("varDecay", 1000), MCNumber("rndFreq", 1000),
            MCNumber("gcFrac", 500), MCBool("eqs"), MCNo("eqs")}
MCOptionCalls ==
  {MCCall(as, MCDimacs(MCExtra)) :
     as \in {<<MCPlain("formula"), a, e, b>> : a, b \in MCFlags, e \in MCEngine}
            \cup {<<a, b>> : a \in MCFlags, b \in MCEngine}}

MCInvocations == MCPlainCalls \cup MCWeightedCalls \cup MCUnendedCalls \cup MCOptionCalls

MCSetShapes == {<<-1>>, <<-2, -3>>, <<2, 3>>, <<1, 2, -2, 3>>}
MCSetInvocations ==
  {MCCall(<<MCBool("mc"), MCPlain("formula")>>, MCDimacs(f)) : f \in [1 .. 2 -> MCSetShapes]}
=============================================================================
