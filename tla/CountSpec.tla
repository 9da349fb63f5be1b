------------------------------ MODULE CountSpec ------------------------------
(* What d4 -mc promises: one answer, and it is the count of the formula.     *)
EXTENDS WeightedCnf

CONSTANT NoAnswer

VARIABLE answer

Init == answer = NoAnswer
Next == answer = NoAnswer /\ answer' = FormulaCount
Spec == Init /\ [][Next]_answer
=============================================================================
