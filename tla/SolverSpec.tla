------------------------------ MODULE SolverSpec ------------------------------
(***************************************************************************)
(* The SAT solver as its clients see it.  A client asks about a component  *)
(* under assumptions, reads what is assigned, may have failed literals     *)
(* looked for, and takes assumptions back.                                 *)
(***************************************************************************)
EXTENDS SolverPromise

VARIABLES
  status,       \* "solving", "probing", "sat" or "unsat"
  assumptions,  \* the sequence of the assumptions
  component,    \* the variables a solve decides
  fixed,        \* what was assigned when the search began
  known,        \* that, and what the enclosing calls have read
  trail         \* what was assigned when the client last had control

vars == <<status, assumptions, component, fixed, known, trail>>

Assumed == {assumptions[k] : k \in DOMAIN assumptions}

\* The first question is asked by the constructor of the client.
Init ==
  /\ status = "solving" /\ assumptions = <<>> /\ component = Var
  /\ fixed = {} /\ known = {} /\ trail = {}

\* The client asks under any assumptions, having read part of the trail.
Ask ==
  /\ status \in {"sat", "unsat"}
  /\ status' = "solving"
  /\ assumptions' \in Seq(Literal)
  /\ component' \subseteq Var
  /\ fixed' = IF assumptions' = <<>> THEN trail ELSE fixed
  /\ known' \subseteq known \cup trail
  /\ UNCHANGED trail

\* It reads, and gives back, part of what is assigned.
Read ==
  /\ status \in {"sat", "unsat"}
  /\ known' \subseteq known \cup trail
  /\ UNCHANGED <<status, assumptions, component, fixed, trail>>

\* Satisfiable: everything propagation finds is assigned, with all that was
\* read before, and nothing that is not implied.
AnswerTrue ==
  /\ status = "solving" /\ status' = "sat"
  /\ LocallySatisfiable(Assumed \cup known, component)
  /\ trail' \in TrailsFrom(known, Assumed)
  /\ UNCHANGED <<assumptions, component, fixed, known>>

\* Unsatisfiable, by the whole formula.
AnswerFalse ==
  /\ status = "solving" /\ status' = "unsat"
  /\ ~Satisfiable(Assumed)
  /\ trail' \in SUBSET Literal
  /\ UNCHANGED <<assumptions, component, fixed, known>>

\* Failed literals assign more, or nothing.
StartProbing ==
  /\ status = "sat" /\ status' = "probing"
  /\ UNCHANGED <<assumptions, component, fixed, known, trail>>
EndProbing ==
  /\ status = "probing" /\ status' = "sat"
  /\ trail \subseteq trail'
  /\ trail' \in TrailsFrom(known, Assumed) \cup {trail}
  /\ UNCHANGED <<assumptions, component, fixed, known>>

\* The last assumption is taken back.
Retract ==
  /\ status \in {"sat", "unsat"} /\ status' = "sat"
  /\ assumptions # <<>> /\ assumptions' = SubSeq(assumptions, 1, Len(assumptions) - 1)
  /\ known' \subseteq known \cup trail
  /\ trail' \in TrailsBelow(fixed, assumptions')
  /\ UNCHANGED <<component, fixed>>

Next == Ask \/ Read \/ AnswerTrue \/ AnswerFalse \/ StartProbing \/ EndProbing \/ Retract

Spec == Init /\ [][Next]_vars
=============================================================================
