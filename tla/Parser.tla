-------------------------------- MODULE Parser --------------------------------
(***************************************************************************)
(* Reading the problem: the formula in DIMACS format, the weights of       *)
(* literals and the projected variables, from the three files that the     *)
(* command line names.  The formula is a stream of tokens: lines that are  *)
(* skipped, the problem line, and integers, of which a clause takes those  *)
(* up to the next 0, on whatever lines they are.                           *)
(***************************************************************************)
EXTENDS Options

VARIABLES
  file,         \* the problem that is read
  rest,         \* the tokens of the formula not read yet
  nbVar,        \* the number of variables of the problem line
  input,        \* the clauses read
  weightLit,    \* by index of literal, from 0
  varProjected  \* by variable
\* pc goes on with "open", "cnf", "weights", "projected", "parsed" or "error".

readVars == <<file, rest, nbVar, input, weightLit, varProjected>>
parserVars == <<optionVars, readVars, pc>>

NoFile == [cnf |-> <<>>, weights |-> None, projected |-> None]

ParserInit ==
  /\ OptionsInit
  /\ file = NoFile /\ rest = <<>>
  /\ nbVar = 0 /\ input = <<>>
  /\ weightLit = <<>> /\ varProjected = <<>>

OnDisk(name) == name \in DOMAIN invocation.disk
Contents(name, missing) == IF OnDisk(name) THEN invocation.disk[name] ELSE missing

\* argv[1] is the first argument that parseOptions kept.  If it kept none, argv[1] is still
\* a flag, or nothing at all, and no file has that name.
FormulaThere == kept # <<>> /\ OnDisk(kept[1])
OpenFormula ==
  /\ pc = "open" /\ FormulaThere
  /\ file' = [cnf       |-> invocation.disk[kept[1]],
              weights   |-> Contents(values["wFile"], None),
              projected |-> IF values["fpv"] = "/dev/null" THEN None
                            ELSE Contents(values["fpv"], <<>>)]
  /\ rest' = file'.cnf
  /\ pc' = "cnf"
  /\ UNCHANGED <<optionVars, nbVar, input, weightLit, varProjected>>

CannotOpen ==
  /\ pc = "open" /\ ~FormulaThere
  /\ pc' = "error"
  /\ UNCHANGED <<optionVars, readVars>>

NextIs(kinds) == pc = "cnf" /\ rest # <<>> /\ Head(rest).kind \in kinds

\* Lines of c and w.
SkipLine ==
  /\ NextIs({"skipped"})
  /\ rest' = Tail(rest)
  /\ UNCHANGED <<optionVars, file, nbVar, input, weightLit, varProjected, pc>>

\* The number of clauses it announces is read and not used.
ReadProblemLine ==
  /\ NextIs({"problem"})
  /\ nbVar' = Head(rest).vars
  /\ rest' = Tail(rest)
  /\ UNCHANGED <<optionVars, file, input, weightLit, varProjected, pc>>

\* The place of the 0 that ends the clause, if nothing but integers comes before.
IsZero(token) == token.kind = "int" /\ token.value = 0
Ends(tokens) ==
  {n \in DOMAIN tokens : IsZero(tokens[n]) /\ \A m \in 1 .. n - 1 :
                                                tokens[m].kind = "int" /\ ~IsZero(tokens[m])}

EndOfClause(tokens) == CHOOSE n \in Ends(tokens) : TRUE

ReadClause ==
  /\ NextIs({"int"}) /\ Ends(rest) # {}
  /\ LET n == EndOfClause(rest) IN
       /\ input' = Append(input, [k \in 1 .. n - 1 |-> rest[k].value])
       /\ rest' = SubSeq(rest, n + 1, Len(rest))
  /\ UNCHANGED <<optionVars, file, nbVar, weightLit, varProjected, pc>>

\* parseInt exits where it finds no digit, at the end of the file too.
ParseError ==
  /\ NextIs({"int", "other"}) /\ Ends(rest) = {}
  /\ pc' = "error"
  /\ UNCHANGED <<optionVars, file, rest, nbVar, input, weightLit, varProjected>>

EndOfFile ==
  /\ pc = "cnf" /\ rest = <<>>
  /\ pc' = "weights"
  /\ UNCHANGED <<optionVars, file, rest, nbVar, input, weightLit, varProjected>>

\* The index of a literal, variable by variable and the positive one first.
LitIndex(l) == (IF l > 0 THEN 2 * l ELSE -2 * l + 1) - 2
\* Each line of the file overwrites what an earlier one gave to its literal.
AllOnes == [n \in 0 .. 2 * nbVar - 1 |-> 1]
WeightsOf(entries) ==
  LET weights[n \in 0 .. Len(entries)] ==
        IF n = 0 THEN AllOnes
        ELSE [weights[n - 1] EXCEPT ![LitIndex(entries[n].lit)] = entries[n].weight]
  IN weights[Len(entries)]
WeightsThere == values["wFile"] = "/dev/null" \/ OnDisk(values["wFile"])
ParseWeight ==
  /\ pc = "weights" /\ WeightsThere
  /\ weightLit' = IF file.weights = None THEN AllOnes ELSE WeightsOf(file.weights)
  /\ pc' = "projected"
  /\ UNCHANGED <<optionVars, file, rest, nbVar, input, varProjected>>

WeightsMissing ==
  /\ pc = "weights" /\ ~WeightsThere
  /\ pc' = "error"
  /\ UNCHANGED <<optionVars, readVars>>

\* A file of projected variables that cannot be opened is not noticed: none is projected.
ParseProjectedVariable ==
  /\ pc = "projected"
  /\ varProjected' = [v \in 0 .. nbVar - 1 |->
                        IF file.projected = None THEN TRUE
                        ELSE \E n \in DOMAIN file.projected : file.projected[n] - 1 = v]
  /\ pc' = "parsed"
  /\ UNCHANGED <<optionVars, file, rest, nbVar, input, weightLit>>

ParserNext ==
  \/ OptionsNext /\ UNCHANGED readVars
  \/ OpenFormula \/ CannotOpen
  \/ SkipLine \/ ReadProblemLine \/ ReadClause \/ ParseError \/ EndOfFile
  \/ ParseWeight \/ WeightsMissing \/ ParseProjectedVariable

-----------------------------------------------------------------------------
(* What a file says, read as a whole.                                      *)

\* A clause is the integers in front of a 0 and behind the 0 before.
Zeros(tokens) == {n \in DOMAIN tokens : IsZero(tokens[n])}
PlacesUpTo(tokens, n) ==
  {m \in 1 .. n - 1 : tokens[m].kind = "int" /\ \A z \in Zeros(tokens) : z < n => z < m}
ClauseEndingAt(tokens, n) == {tokens[k].value : k \in PlacesUpTo(tokens, n)}
ClauseSets(f) == {ClauseEndingAt(f.cnf, n) : n \in Zeros(f.cnf)}
LastWeight(f, l) ==
  LET given == IF f.weights = None THEN {} ELSE {n \in DOMAIN f.weights : f.weights[n].lit = l}
  IN  IF given = {} THEN 1 ELSE f.weights[CHOOSE n \in given : \A m \in given : m <= n].weight
ProjectedVariables(f) ==
  IF f.projected = None THEN 1 .. nbVar ELSE {f.projected[n] : n \in DOMAIN f.projected}
=============================================================================
