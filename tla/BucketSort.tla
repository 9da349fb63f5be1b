----------------------------- MODULE BucketSort -----------------------------
(***************************************************************************)
(* Sorting the clauses of a component into the cache key: collectDistrib   *)
(* and createDistribWrTLit of BucketManager.  The clauses are written,     *)
(* literal by literal, into the slots of distrib.  Clauses that have held  *)
(* the same literals so far share an interval of slots; which slot is      *)
(* whose is not recorded, they all read the same.  A literal that some of  *)
(* an interval's clauses hold cuts the interval: they move to a new one    *)
(* that grows at its front.                                                *)
(*                                                                         *)
(* The search asks for keys again and again; the scratch fields outlive a  *)
(* call.  clauses is what the lists of the occurrence manager hold, the    *)
(* clauses that the storing mode skips left out; their order in a list is  *)
(* any order.  Slots and intervals count from 1 here, and an interval is   *)
(* start + 1 .. end.                                                       *)
(***************************************************************************)
EXTENDS Integers, Sequences, SequencesExt, Subsequence, FiniteSets

CONSTANTS
  Idx,       \* indices of clauses
  Assigned,  \* variables that are assigned; the lists of their literals are out of date
  Inputs,    \* what is asked for: a component, its variables in increasing
             \* order, and its clauses, a function from Idx to sets of literals
  MaxCalls   \* bound: keys asked for

LitsOver(C) == C \cup {-v : v \in C}

ASSUME IdxAssumption == IsFiniteSet(Idx)
ASSUME AssignedAssumption == Assigned \subseteq Nat \ {0}
ASSUME InputsAssumption == \A input \in Inputs :
  /\ input.component \in Seq(Nat \ {0}) /\ input.component # <<>>
  /\ \A i, j \in DOMAIN input.component : i < j => input.component[i] < input.component[j]
  /\ input.clauses \in [Idx -> SUBSET LitsOver(ToSet(input.component))]
ASSUME MaxCallsAssumption == MaxCalls \in Nat

VARIABLES
  component,
  clauses,                  \* the clauses of this call
  markView,                 \* the clauses met
  markIdx,                  \* the interval of a clause met
  mustUnMark,               \* the clauses to take out of markView at the end
  vecBucketSortIntervalle,  \* the intervals
  refCutBucket,             \* the interval each was cut into by the current literal
  distrib,                  \* the slots
  pos,                      \* 2 * Len(component) + 1 when idle, else the literal reached
  idxClauses,               \* its clauses not treated yet
  ownBucket,                \* the interval of the clauses it is the first literal of
  calls

scratch == <<vecBucketSortIntervalle, refCutBucket, distrib, markIdx, markView, mustUnMark>>
vars == <<component, clauses, scratch, pos, idxClauses, ownBucket, calls>>

\* The literals in the order of the loops: each variable, then its negation.
NbLit == 2 * Len(component)
LitAt(n) == IF n % 2 = 1 THEN component[(n + 1) \div 2] ELSE -component[n \div 2]
Visited(n) == component[(n + 1) \div 2] \notin Assigned

Idle == pos = NbLit + 1

Init ==
  /\ \E input \in Inputs : component = input.component /\ clauses = input.clauses
  /\ markView = {} /\ mustUnMark = {}
  /\ markIdx = [c \in Idx |-> -1]
  /\ vecBucketSortIntervalle = <<>> /\ refCutBucket = <<>> /\ distrib = <<>>
  /\ pos = NbLit + 1 /\ idxClauses = {} /\ ownBucket = -1 /\ calls = 0

-----------------------------------------------------------------------------
(* collectDistrib and createDistribWrTLit.                                 *)

InitSortBucket ==
  /\ Idle /\ calls < MaxCalls
  /\ \E input \in Inputs :
       component' = input.component /\ clauses' = input.clauses
  /\ vecBucketSortIntervalle' = <<>> /\ refCutBucket' = <<>> /\ distrib' = <<>>
  /\ pos' = 0 /\ calls' = calls + 1
  /\ UNCHANGED <<markView, markIdx, mustUnMark, idxClauses, ownBucket>>

\* (Mutant of NoCuts: the cuts of the last literal are kept.)
OldCuts == refCutBucket
NoCuts == [b \in DOMAIN refCutBucket |-> b]

NextLiteral ==
  /\ idxClauses = {} /\ pos < NbLit
  /\ pos' = pos + 1
  /\ idxClauses' = IF Visited(pos + 1) THEN {c \in Idx : LitAt(pos + 1) \in clauses[c]} ELSE {}
  /\ refCutBucket' = NoCuts
  /\ ownBucket' = -1
  /\ UNCHANGED <<component, clauses, markView, markIdx, mustUnMark, vecBucketSortIntervalle, distrib, calls>>

NextInterval == Len(vecBucketSortIntervalle) + 1

\* The intervals with the own one, made if need be, one longer.
OwnIntervals ==
  IF ownBucket = -1
  THEN Append(vecBucketSortIntervalle, [start |-> Len(distrib), end |-> Len(distrib) + 1])
  ELSE [vecBucketSortIntervalle EXCEPT ![ownBucket].end = @ + 1]

\* (Mutant of ToUnMark: a clause met is not noted.)
ToUnMarkNothing(c) == mustUnMark
ToUnMark(c) == mustUnMark \cup {c}

FirstLiteral(c) ==
  /\ c \in idxClauses /\ c \notin markView
  /\ markView' = markView \cup {c} /\ mustUnMark' = ToUnMark(c)
  /\ vecBucketSortIntervalle' = OwnIntervals
  /\ ownBucket' = IF ownBucket = -1 THEN NextInterval ELSE ownBucket
  /\ refCutBucket' = IF ownBucket = -1 THEN Append(refCutBucket, ownBucket') ELSE refCutBucket
  /\ markIdx' = [markIdx EXCEPT ![c] = ownBucket']
  /\ distrib' = Append(distrib, <<LitAt(pos)>>)
  /\ idxClauses' = idxClauses \ {c}
  /\ UNCHANGED <<component, clauses, pos, calls>>

Cut(b) == [start |-> b.start, end |-> b.start]

\* One more slot of old goes to new, which ends where old starts.
Move(intervals, old, new) ==
  [intervals EXCEPT ![old].start = @ + 1, ![new].end = @ + 1]

FurtherLiteral(c) ==
  LET old == markIdx[c]
      isCut == refCutBucket[old] # old
      new == IF isCut THEN refCutBucket[old] ELSE NextInterval
      intervals == IF isCut THEN vecBucketSortIntervalle
                   ELSE Append(vecBucketSortIntervalle, Cut(vecBucketSortIntervalle[old]))
  IN /\ c \in idxClauses /\ c \in markView
     /\ refCutBucket' = IF isCut THEN refCutBucket
                        ELSE Append([refCutBucket EXCEPT ![old] = new], new)
     /\ markIdx' = [markIdx EXCEPT ![c] = new]
     /\ vecBucketSortIntervalle' = Move(intervals, old, new)
     /\ distrib' = [distrib EXCEPT ![intervals[new].end + 1] = Append(@, LitAt(pos))]
     /\ idxClauses' = idxClauses \ {c}
     /\ UNCHANGED <<component, clauses, markView, mustUnMark, pos, ownBucket, calls>>

\* (Mutant of Redundant: the first slot of an interval goes too.)
RedundantAll(b) == b.start + 1 .. b.end
Redundant(b) == b.start + 2 .. b.end

EndCollect ==
  /\ idxClauses = {} /\ pos = NbLit
  /\ pos' = NbLit + 1
  /\ refCutBucket' = NoCuts
  /\ markView' = markView \ mustUnMark /\ mustUnMark' = {}
  /\ distrib' = [j \in DOMAIN distrib |->
       IF \E b \in DOMAIN vecBucketSortIntervalle : j \in Redundant(vecBucketSortIntervalle[b])
       THEN <<>> ELSE distrib[j]]
  /\ UNCHANGED <<component, clauses, markIdx, vecBucketSortIntervalle, idxClauses, ownBucket, calls>>

Next ==
  \/ InitSortBucket
  \/ NextLiteral
  \/ \E c \in Idx : FirstLiteral(c) \/ FurtherLiteral(c)
  \/ EndCollect

Spec == Init /\ [][Next]_vars

-----------------------------------------------------------------------------
(* Properties.                                                             *)

\* What has been read of a clause: its literals in the order of the loops.
Residual(c) == {l \in clauses[c] : l \notin Assigned /\ -l \notin Assigned}
Order(n) == [k \in 1 .. n |-> LitAt(k)]
Read(c) == Kept(Order(pos), {l \in Residual(c) : ~(c \in idxClauses /\ l = LitAt(pos))})

Slots(b) == vecBucketSortIntervalle[b].start + 1 .. vecBucketSortIntervalle[b].end
Members(b) == {c \in markView : markIdx[c] = b}

\* Every slot is in one interval, and an interval has a slot for each of its clauses.
IntervalsPartition ==
  /\ \A j \in DOMAIN distrib : \E b \in DOMAIN vecBucketSortIntervalle : j \in Slots(b)
  /\ \A a, b \in DOMAIN vecBucketSortIntervalle : Slots(a) \cap Slots(b) # {} => a = b
  /\ ~Idle => \A b \in DOMAIN vecBucketSortIntervalle :
                /\ Slots(b) \subseteq DOMAIN distrib
                /\ Cardinality(Members(b)) = Cardinality(Slots(b))

\* Every slot of an interval reads what has been read of each of its clauses.
SlotsRead ==
  ~Idle => \A c \in markView : \A j \in Slots(markIdx[c]) : distrib[j] = Read(c)

\* The intervals are disjoint and their slots hold what has been read of their clauses;
\* clauses share an interval exactly if the same has been read of them.
GroupsExact ==
  /\ IntervalsPartition /\ SlotsRead
  /\ ~Idle => \A c, d \in markView : Read(c) = Read(d) <=> markIdx[c] = markIdx[d]

\* Between two calls nothing is marked.
ScratchClean == Idle => markView = {} /\ mustUnMark = {}

\* The place of a literal in the order of the loops, and of clauses: of two clauses
\* the one that has the first literal they do not share comes first.
PlaceOf(l) == CHOOSE n \in 1 .. NbLit : LitAt(n) = l
Before(k, m) == \E l \in k \ m : \A x \in (k \ m) \cup (m \ k) : PlaceOf(l) <= PlaceOf(x)

\* What is collected holds every residual clause once, in an order that the clauses
\* alone determine: equal sets of clauses give equal keys, others different ones.
Collected == Kept(distrib, ToSet(distrib) \ {<<>>})
LitsOf(s) == {s[n] : n \in DOMAIN s}
KeyExact ==
  Idle /\ calls > 0 =>
    /\ {LitsOf(Collected[i]) : i \in DOMAIN Collected} = {Residual(c) : c \in Idx} \ {{}}
    /\ \A i \in DOMAIN Collected : \A n \in 2 .. Len(Collected[i]) :
         PlaceOf(Collected[i][n - 1]) < PlaceOf(Collected[i][n])
    /\ \A i, j \in DOMAIN Collected :
         i < j => Before(LitsOf(Collected[i]), LitsOf(Collected[j]))
=============================================================================
