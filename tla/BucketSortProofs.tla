--------------------------- MODULE BucketSortProofs ---------------------------
(***************************************************************************)
(* Why the slots of BucketSort hold what has been read of their clauses,   *)
(* and why what is collected from them in the end is the same key for the  *)
(* same clauses, for any number of clauses, any component, any order of    *)
(* the lists of occurrences and any number of calls.                       *)
(***************************************************************************)
EXTENDS BucketSort, SequenceFacts, FiniteSetTheorems, TLAPS

\* Every field has its type, and no interval reaches outside the slots.
Interval == [start : Nat, end : Nat]
NbIntervals == Len(vecBucketSortIntervalle)
Buckets == 1 .. NbIntervals
Increasing(s) == \A i, j \in DOMAIN s : i < j => s[i] < s[j]
TypeOK ==
  /\ component \in Seq(Nat \ {0}) /\ component # <<>> /\ Increasing(component)
  /\ clauses \in [Idx -> SUBSET LitsOver(ToSet(component))]
  /\ markView \subseteq Idx /\ markIdx \in [Idx -> Int]
  /\ vecBucketSortIntervalle \in Seq(Interval)
  /\ refCutBucket \in [Buckets -> Buckets]
  /\ distrib \in Seq(Seq(Int))
  /\ pos \in 0 .. NbLit + 1
  /\ idxClauses \subseteq Idx
  /\ ownBucket \in Int
  /\ calls \in Nat

\* What is marked is noted, to be taken out again; a call that ends leaves nothing.
MarkedNoted == mustUnMark = markView /\ (Idle => markView = {} /\ idxClauses = {})

\* The intervals tile the slots.
TileInv ==
  /\ \A b \in Buckets : /\ vecBucketSortIntervalle[b].start <= vecBucketSortIntervalle[b].end
                        /\ vecBucketSortIntervalle[b].end <= Len(distrib)
  /\ \A j \in 1 .. Len(distrib) : \E b \in Buckets : j \in Slots(b)
  /\ \A a, b \in Buckets : \A j \in Slots(a) : j \in Slots(b) => a = b

\* The clauses of the current literal that have been treated.
Treated(c) == LitAt(pos) \in Residual(c) /\ c \notin idxClauses
QueueInv ==
  /\ IF pos = 0 THEN NbIntervals = 0 /\ idxClauses = {} /\ markView = {}
                ELSE ownBucket \in {-1} \cup Buckets
  /\ \A c \in idxClauses : LitAt(pos) \in Residual(c)

\* The clauses met are those of which something has been read.
MetInv == \A c \in Idx : c \in markView <=> Read(c) # <<>>

\* A slot for each clause, which reads what has been read of it, and clauses of
\* which the same has been read together.
MembersInv ==
  /\ \A c \in markView : markIdx[c] \in Buckets
  /\ \A b \in Buckets : Cardinality(Members(b)) =
                          vecBucketSortIntervalle[b].end - vecBucketSortIntervalle[b].start
  /\ \A c \in markView : \A j \in Slots(markIdx[c]) : distrib[j] = Read(c)
  /\ \A c, d \in markView : Read(c) = Read(d) <=> markIdx[c] = markIdx[d]

\* The interval of the clauses that begin with the current literal is the last
\* one; the clauses treated are in it, or in the one that was cut from the front
\* of the interval that holds the clauses not treated that read the same so far.
WasCut(b) == refCutBucket[b] # b
CutInv ==
  /\ \A d \in markView : markIdx[d] = ownBucket <=> Read(d) = <<LitAt(pos)>>
  /\ pos # 0 /\ ownBucket # -1 =>
       /\ vecBucketSortIntervalle[ownBucket].end = Len(distrib)
       /\ ~WasCut(ownBucket)
  /\ \A c, d \in markView : ~Treated(c) /\ Treated(d) =>
       (Read(d) = Append(Read(c), LitAt(pos)) <=> refCutBucket[markIdx[c]] = markIdx[d])
  /\ \A d \in markView : Treated(d) => ~WasCut(markIdx[d])
  /\ \A b \in Buckets : WasCut(b) =>
       /\ ~WasCut(refCutBucket[b]) /\ refCutBucket[b] # ownBucket
       /\ vecBucketSortIntervalle[refCutBucket[b]].end = vecBucketSortIntervalle[b].start
       /\ \A d \in Members(refCutBucket[b]) : Treated(d)
  /\ \A a, b \in Buckets : WasCut(a) /\ WasCut(b) /\ refCutBucket[a] = refCutBucket[b] => a = b

IInv ==
  /\ TypeOK /\ MarkedNoted /\ TileInv
  /\ Idle \/ (QueueInv /\ MetInv /\ MembersInv /\ CutInv)

-----------------------------------------------------------------------------
(* The order of the literals, and what has been read of a clause.          *)

\* The literals in the order of the loops: a variable, then its negation.
LEMMA LitFacts ==
  ASSUME TypeOK
  PROVE  /\ Len(component) \in Nat \ {0} /\ NbLit \in Nat /\ NbLit >= 2
         /\ \A n \in 1 .. NbLit : LitAt(n) \in Int
         /\ \A m, n \in 1 .. NbLit : LitAt(m) = LitAt(n) => m = n
         /\ \A n \in 1 .. NbLit : \A c \in Idx :
              LitAt(n) \in Residual(c) <=> Visited(n) /\ LitAt(n) \in clauses[c]
<1>1. /\ Len(component) \in Nat \ {0} /\ DOMAIN component = 1 .. Len(component)
      /\ \A k \in 1 .. Len(component) : component[k] \in Nat \ {0}
  BY EmptySeq, LenProperties, ElementOfSeq DEF TypeOK
<1>2. NbLit \in Nat /\ NbLit >= 2
  BY <1>1 DEF NbLit
<1>3. \A n \in 1 .. NbLit : (n + 1) \div 2 \in 1 .. Len(component)
  BY <1>1, <1>2 DEF NbLit
<1>4. \A n \in 1 .. NbLit : n % 2 # 1 => n \div 2 = (n + 1) \div 2 /\ n = 2 * ((n + 1) \div 2)
  BY <1>1, <1>2 DEF NbLit
<1>5. \A n \in 1 .. NbLit : n % 2 = 1 => n = 2 * ((n + 1) \div 2) - 1
  BY <1>1, <1>2 DEF NbLit
<1> DEFINE V(n) == component[(n + 1) \div 2]
<1>6. \A n \in 1 .. NbLit : V(n) \in Nat \ {0}
  BY <1>1, <1>3
<1>7. \A n \in 1 .. NbLit : LitAt(n) = IF n % 2 = 1 THEN V(n) ELSE -V(n)
  BY <1>4 DEF LitAt
<1> HIDE DEF V
<1>8. \A n \in 1 .. NbLit : LitAt(n) \in Int
  BY <1>6, <1>7
<1>9. ASSUME NEW m \in 1 .. NbLit, NEW n \in 1 .. NbLit, LitAt(m) = LitAt(n)
      PROVE  m = n
  <2>1. V(m) = V(n) /\ (m % 2 = 1 <=> n % 2 = 1)
    BY <1>6, <1>7, <1>9
  <2>2. \A j, k \in 1 .. Len(component) : component[j] = component[k] => j = k
    <3>1. \A j, k \in 1 .. Len(component) : j < k => component[j] < component[k]
      BY <1>1 DEF TypeOK, Increasing
    <3> QED
      BY <1>1, <3>1
  <2>3. (m + 1) \div 2 = (n + 1) \div 2
    BY <1>3, <2>1, <2>2 DEF V
  <2> QED
    BY <1>4, <1>5, <2>1, <2>3
<1>10. ASSUME NEW n \in 1 .. NbLit, NEW c \in Idx
       PROVE  LitAt(n) \in Residual(c) <=> Visited(n) /\ LitAt(n) \in clauses[c]
  <2>1. V(n) \in Nat \ {0} /\ (LitAt(n) = V(n) \/ LitAt(n) = -V(n))
    BY <1>6, <1>7
  <2>2. V(n) \notin Assigned <=> LitAt(n) \notin Assigned /\ -LitAt(n) \notin Assigned
    BY <2>1, AssignedAssumption
  <2> QED
    BY <2>2 DEF Residual, Visited, V
<1> QED
  BY <1>1, <1>2, <1>8, <1>9, <1>10

\* The first n literals.
LEMMA OrderFacts ==
  ASSUME TypeOK, NEW n \in 1 .. NbLit
  PROVE  /\ Order(n) \in Seq(Int) /\ Order(n - 1) \in Seq(Int)
         /\ Order(n) = Append(Order(n - 1), LitAt(n))
         /\ \A k \in 1 .. Len(Order(n - 1)) : Order(n - 1)[k] # LitAt(n)
<1>1. NbLit \in Nat /\ \A k \in 1 .. NbLit : LitAt(k) \in Int
  BY LitFacts
<1>2. ASSUME NEW m \in 0 .. NbLit
      PROVE  Order(m) \in [1 .. m -> Int] /\ Order(m) \in Seq(Int) /\ Len(Order(m)) = m
  <2>1. m \in Nat /\ \A k \in 1 .. m : LitAt(k) \in Int
    BY <1>1
  <2>2. Order(m) \in [1 .. m -> Int]
    BY <2>1 DEF Order
  <2> QED
    BY <2>1, <2>2, FunctionIsSeq
<1>3. n - 1 \in 0 .. NbLit /\ n \in 0 .. NbLit /\ n \in Nat /\ n - 1 \in Nat
  BY <1>1
<1>4. Order(n) = Append(Order(n - 1), LitAt(n))
  <2>1. \A k \in 1 .. n - 1 : k \in 1 .. n
    BY <1>3
  <2>2. Order(n - 1) \in Seq(Int) /\ Len(Order(n - 1)) = n - 1 /\ LitAt(n) \in Int
    BY <1>1, <1>2, <1>3
  <2> DEFINE a == Append(Order(n - 1), LitAt(n))
  <2>3. /\ a \in Seq(Int) /\ Len(a) = n /\ a[n] = LitAt(n)
        /\ \A k \in 1 .. n - 1 : a[k] = Order(n - 1)[k]
    BY <1>3, <2>2, PushFacts
  <2>4. \A k \in 1 .. n - 1 : Order(n - 1)[k] = LitAt(k) /\ Order(n)[k] = LitAt(k)
    BY <2>1 DEF Order
  <2>5. Order(n)[n] = LitAt(n)
    BY <1>3 DEF Order
  <2> HIDE DEF a
  <2>6. \A k \in 1 .. n : a[k] = Order(n)[k]
    <3>1. \A k \in 1 .. n : k \in 1 .. n - 1 \/ k = n
      BY <1>3
    <3> QED
      BY <2>3, <2>4, <2>5, <3>1
  <2>7. Order(n) \in Seq(Int) /\ Len(Order(n)) = n
    BY <1>2, <1>3
  <2>8. a = Order(n)
    BY <2>3, <2>6, <2>7, SeqEqual
  <2> QED
    BY <2>8 DEF a
<1>5. \A k \in 1 .. n - 1 : LitAt(k) # LitAt(n)
  <2>1. \A k \in 1 .. n - 1 : k \in 1 .. NbLit /\ k # n
    BY <1>1
  <2> QED
    BY <2>1, LitFacts
<1>6. \A k \in 1 .. n - 1 : Order(n - 1)[k] = LitAt(k)
  BY DEF Order
<1>7. Len(Order(n - 1)) = n - 1 /\ Order(n - 1) \in Seq(Int) /\ Order(n) \in Seq(Int)
  BY <1>2, <1>3
<1> QED
  BY <1>4, <1>5, <1>6, <1>7

\* A clause that the current literal has been read of is one that has been treated.
LEMMA ReadFacts ==
  ASSUME TypeOK, QueueInv, ~Idle, NEW c \in Idx
  PROVE  /\ pos \in 0 .. NbLit
         /\ Read(c) \in Seq(Int)
         /\ pos # 0 => (Treated(c) <=> LitAt(pos) \in {Read(c)[k] : k \in DOMAIN Read(c)})
<1> DEFINE S == {l \in Residual(c) : ~(c \in idxClauses /\ l = LitAt(pos))}
<1>1. pos \in 0 .. NbLit /\ NbLit \in Nat
  BY LitFacts DEF TypeOK, Idle
<1>2. LitAt(pos) \in S <=> Treated(c)
  BY DEF Treated
<1>3. Read(c) = Kept(Order(pos), S)
  BY DEF Read
<1> HIDE DEF S
<1>4. CASE pos = 0
  <2>1. Order(0) = <<>>
    BY DEF Order
  <2>2. Read(c) = <<>>
    BY <1>3, <1>4, <2>1, KeptEmpty
  <2> QED
    BY <1>1, <1>4, <2>2, EmptySeq
<1>5. CASE pos # 0
  <2>1. pos \in 1 .. NbLit
    BY <1>1, <1>5
  <2>2. Order(pos) \in Seq(Int) /\ Order(pos - 1) \in Seq(Int) /\ Order(pos) = Append(Order(pos - 1), LitAt(pos))
        /\ LitAt(pos) \in Int
    BY <2>1, OrderFacts, LitFacts
  <2>3. /\ Read(c) \in Seq(Int)
        /\ {Read(c)[k] : k \in DOMAIN Read(c)} = {Order(pos)[k] : k \in DOMAIN Order(pos)} \cap S
    <3> DEFINE o == Order(pos)
    <3>1. o \in Seq(Int)
      BY <2>2
    <3> HIDE DEF o
    <3>2. /\ Kept(o, S) \in Seq(Int)
          /\ {Kept(o, S)[n] : n \in DOMAIN Kept(o, S)} = {o[n] : n \in DOMAIN o} \cap S
      BY <3>1, KeptFacts
    <3> QED
      BY <1>3, <3>2 DEF o
  <2>4. LitAt(pos) \in {Order(pos)[k] : k \in DOMAIN Order(pos)}
    <3> DEFINE o == Order(pos - 1)
               e == LitAt(pos)
    <3>1. Len(o) + 1 \in DOMAIN Append(o, e) /\ Append(o, e)[Len(o) + 1] = e
      BY <2>2, PushFacts
    <3> QED
      BY <2>2, <3>1
  <2> QED
    BY <1>1, <1>2, <2>3, <2>4
<1> QED
  BY <1>4, <1>5

\* Treating a clause reads one more literal of it, and of no other.
LEMMA ReadTreat ==
  ASSUME TypeOK, QueueInv, ~Idle, NEW c \in idxClauses,
         idxClauses' = idxClauses \ {c}, UNCHANGED <<component, clauses, pos>>
  PROVE  /\ Read(c)' = Append(Read(c), LitAt(pos))
         /\ \A d \in Idx : d # c => Read(d)' = Read(d)
         /\ pos \in 1 .. NbLit /\ ~Treated(c) /\ Treated(c)'
         /\ \A d \in Idx : d # c => (Treated(d)' <=> Treated(d))
<1> DEFINE S(d) == {l \in Residual(d) : ~(d \in idxClauses /\ l = LitAt(pos))}
<1>1. c \in Idx /\ pos \in 1 .. NbLit
  <2>1. c \in Idx /\ pos # 0
    BY DEF TypeOK, QueueInv
  <2> QED
    BY <2>1, LitFacts DEF TypeOK, Idle
<1>2. \A d \in Idx : Read(d) = Kept(Order(pos), S(d))
  BY DEF Read
<1>3. \A d \in Idx : Read(d)' = Kept(Order(pos), {l \in Residual(d) : ~(d \in idxClauses' /\ l = LitAt(pos))})
  BY DEF Read, Order, LitAt, Residual
<1>4. \A d \in Idx : d # c => Read(d)' = Read(d)
  BY <1>2, <1>3
<1>5. Read(c)' = Kept(Order(pos), Residual(c))
  BY <1>1, <1>3
<1>6. LitAt(pos) \in Residual(c) /\ LitAt(pos) \notin S(c)
  BY DEF QueueInv
<1>7. /\ Order(pos - 1) \in Seq(Int) /\ Order(pos) = Append(Order(pos - 1), LitAt(pos))
      /\ \A k \in 1 .. Len(Order(pos - 1)) : Order(pos - 1)[k] # LitAt(pos)
      /\ LitAt(pos) \in Int
  BY <1>1, OrderFacts, LitFacts
<1>8. \A k \in 1 .. Len(Order(pos - 1)) : Order(pos - 1)[k] \in S(c) <=> Order(pos - 1)[k] \in Residual(c)
  BY <1>7
<1>9. Kept(Order(pos - 1), S(c)) = Kept(Order(pos - 1), Residual(c))
  <2> HIDE DEF S
  <2> QED
    BY <1>8, KeptSame
<1> HIDE DEF S
<1>10. Kept(Order(pos), S(c)) = Kept(Order(pos - 1), S(c))
  BY <1>6, <1>7, KeptAppend
<1>11. Kept(Order(pos), Residual(c)) = Append(Kept(Order(pos - 1), Residual(c)), LitAt(pos))
  BY <1>6, <1>7, KeptAppend
<1>12. ~Treated(c) /\ Treated(c)' /\ \A d \in Idx : d # c => (Treated(d)' <=> Treated(d))
  BY <1>6 DEF Treated, Residual, LitAt
<1> QED
  BY <1>1, <1>2, <1>4, <1>5, <1>9, <1>10, <1>11, <1>12

\* Going on to the next literal reads nothing yet.
LEMMA ReadNext ==
  ASSUME TypeOK, QueueInv, NextLiteral
  PROVE  /\ \A c \in Idx : Read(c)' = Read(c)
         /\ \A c \in Idx : ~Treated(c)'
         /\ QueueInv'
         /\ pos + 1 \in 1 .. NbLit
         /\ \A c \in Idx : Read(c) # <<LitAt(pos + 1)>>
<1> DEFINE l == LitAt(pos + 1)
<1>1. /\ idxClauses = {} /\ pos' = pos + 1 /\ UNCHANGED <<component, clauses, markView, vecBucketSortIntervalle>>
      /\ idxClauses' = IF Visited(pos + 1) THEN {c \in Idx : l \in clauses[c]} ELSE {}
  BY DEF NextLiteral
<1>2. pos \in Nat /\ pos + 1 \in 1 .. NbLit /\ NbLit \in Nat
  BY LitFacts DEF NextLiteral, TypeOK
<1>3. \A c \in Idx : l \in Residual(c) <=> c \in idxClauses'
  BY <1>1, <1>2, LitFacts
<1>4. /\ Order(pos) \in Seq(Int) /\ Order(pos + 1) = Append(Order(pos), l)
      /\ \A k \in 1 .. Len(Order(pos)) : Order(pos)[k] # l
      /\ l \in Int
  <2>1. (pos + 1) - 1 = pos
    BY <1>2
  <2>2. /\ Order((pos + 1) - 1) \in Seq(Int)
        /\ Order(pos + 1) = Append(Order((pos + 1) - 1), LitAt(pos + 1))
        /\ \A k \in 1 .. Len(Order((pos + 1) - 1)) : Order((pos + 1) - 1)[k] # LitAt(pos + 1)
    BY <1>2, OrderFacts
  <2>3. LitAt(pos + 1) \in Int
    BY <1>2, LitFacts
  <2> QED
    BY <2>1, <2>2, <2>3
<1>5. (LitAt(pos))' = l /\ \A c \in Idx : Residual(c)' = Residual(c)
  BY <1>1 DEF LitAt, Residual
<1>6. ASSUME NEW c \in Idx
      PROVE  Read(c)' = Read(c)
  <2> DEFINE T == {x \in Residual(c) : ~(c \in idxClauses' /\ x = l)}
  <2>1. Read(c)' = Kept(Order(pos + 1), T)
    BY <1>1 DEF Read, Order, LitAt, Residual
  <2>2. Read(c) = Kept(Order(pos), Residual(c))
    BY <1>1 DEF Read
  <2>3. l \notin T
    BY <1>3
  <2>4. \A k \in 1 .. Len(Order(pos)) : Order(pos)[k] \in T <=> Order(pos)[k] \in Residual(c)
    BY <1>4
  <2> HIDE DEF T, l
  <2>5. Kept(Order(pos + 1), T) = Kept(Order(pos), T)
    BY <1>4, <2>3, KeptAppend
  <2>6. Kept(Order(pos), T) = Kept(Order(pos), Residual(c))
    BY <2>4, KeptSame
  <2> QED
    BY <2>1, <2>2, <2>5, <2>6
<1>7. \A c \in Idx : ~Treated(c)'
  BY <1>3, <1>5 DEF Treated
<1>8. QueueInv'
  <2>1. pos' # 0 /\ idxClauses' \subseteq Idx /\ ownBucket' = -1
    BY <1>1, <1>2 DEF NextLiteral
  <2> QED
    BY <1>3, <1>5, <2>1 DEF QueueInv
<1>9. ASSUME NEW c \in Idx
      PROVE  Read(c) # <<l>>
  <2> DEFINE o == Order(pos)
             S == Residual(c)
  <2>1. o \in Seq(Int) /\ Read(c) = Kept(o, S)
    BY <1>1, <1>4 DEF Read
  <2>2. \A k \in DOMAIN o : o[k] # l
    BY <1>4
  <2> HIDE DEF o, S, l
  <2>3. {Kept(o, S)[n] : n \in DOMAIN Kept(o, S)} = {o[n] : n \in DOMAIN o} \cap S
    BY <2>1, KeptFacts
  <2>4. ASSUME Kept(o, S) = <<l>>
        PROVE  FALSE
    <3>1. l \in {Kept(o, S)[n] : n \in DOMAIN Kept(o, S)}
      BY <2>4
    <3> QED
      BY <2>2, <2>3, <3>1
  <2> QED
    BY <2>1, <2>4
<1> QED
  BY <1>2, <1>6, <1>7, <1>8, <1>9

-----------------------------------------------------------------------------
(* The steps of a call.                                                    *)

\* The first state.
LEMMA InitInv ==
  ASSUME Init
  PROVE  IInv
<1>1. /\ component \in Seq(Nat \ {0}) /\ component # <<>> /\ Increasing(component)
      /\ clauses \in [Idx -> SUBSET LitsOver(ToSet(component))]
  BY InputsAssumption DEF Init, Increasing
<1>2. Len(component) \in Nat /\ NbLit \in Nat
  BY <1>1, LenProperties DEF NbLit
<1>3. NbIntervals = 0 /\ Buckets = {} /\ Len(distrib) = 0 /\ 1 .. Len(distrib) = {}
  BY DEF Init, NbIntervals, Buckets
<1>4. refCutBucket \in [Buckets -> Buckets]
  <2>1. DOMAIN <<>> = 1 .. 0 /\ <<>> = [k \in 1 .. 0 |-> k]
    OBVIOUS
  <2> QED
    BY <1>3, <2>1 DEF Init
<1>5. TypeOK
  BY <1>1, <1>2, <1>3, <1>4, EmptySeq DEF Init, TypeOK
<1>6. Idle /\ MarkedNoted
  BY DEF Init, Idle, MarkedNoted
<1>7. TileInv
  BY <1>3 DEF TileInv
<1> QED
  BY <1>5, <1>6, <1>7 DEF IInv

\* A call starts from scratch (initSortBucket).
LEMMA SortStep ==
  ASSUME IInv, InitSortBucket
  PROVE  IInv'
<1> USE DEF IInv
<1>1. PICK input \in Inputs : component' = input.component /\ clauses' = input.clauses
  BY DEF InitSortBucket
<1>2. /\ component' \in Seq(Nat \ {0}) /\ component' # <<>> /\ Increasing(component)'
      /\ clauses' \in [Idx -> SUBSET LitsOver(ToSet(component'))]
  BY <1>1, InputsAssumption DEF Increasing
<1>3. Len(component') \in Nat \ {0}
  BY <1>2, EmptySeq, LenProperties
<1>4. NbLit' \in Nat /\ NbLit' >= 2
  BY <1>3 DEF NbLit
<1>5. /\ vecBucketSortIntervalle' = <<>> /\ refCutBucket' = <<>> /\ distrib' = <<>>
      /\ pos' = 0 /\ calls' = calls + 1 /\ Idle
      /\ UNCHANGED <<markView, markIdx, mustUnMark, idxClauses, ownBucket>>
  BY DEF InitSortBucket
<1>6. NbIntervals' = 0 /\ Buckets' = {} /\ 1 .. Len(distrib') = {}
  BY <1>5 DEF NbIntervals, Buckets
<1>7. refCutBucket' \in [Buckets' -> Buckets']
  <2>1. DOMAIN <<>> = 1 .. 0 /\ <<>> = [k \in 1 .. 0 |-> k]
    OBVIOUS
  <2> QED
    BY <1>5, <1>6, <2>1
<1>8. TypeOK'
  <2>1. clauses' \in [Idx -> SUBSET LitsOver(ToSet(component))']
    BY <1>2 DEF LitsOver, ToSet
  <2>2. vecBucketSortIntervalle' \in Seq(Interval) /\ distrib' \in Seq(Seq(Int))
    BY <1>5, EmptySeq
  <2>3. pos' \in 0 .. NbLit' + 1 /\ calls' \in Nat
    <3>1. calls \in Nat
      BY DEF TypeOK
    <3>2. pos' = 0 /\ calls' = calls + 1
      BY <1>5
    <3>3. \A n \in Nat : 0 \in 0 .. n + 1
      OBVIOUS
    <3>4. 0 \in 0 .. NbLit' + 1
      BY <1>4, <3>3
    <3> QED
      BY <3>1, <3>2, <3>4
  <2> QED
    BY <1>2, <1>5, <1>7, <2>1, <2>2, <2>3 DEF TypeOK
<1>9. markView = {} /\ idxClauses = {} /\ mustUnMark = {} /\ MarkedNoted'
  BY <1>5 DEF MarkedNoted
<1>10. TileInv'
  BY <1>6 DEF TileInv
<1>11. QueueInv'
  BY <1>5, <1>6, <1>9 DEF QueueInv
<1>12. MetInv'
  <2>1. Order(0)' = <<>>
    BY DEF Order
  <2>2. \A c \in Idx : Read(c)' = <<>>
    BY <1>5, <2>1, KeptEmpty DEF Read
  <2> QED
    BY <1>5, <1>9, <2>2 DEF MetInv
<1>13. MembersInv' /\ CutInv'
  BY <1>5, <1>6, <1>9 DEF MembersInv, CutInv
<1> QED
  BY <1>8, <1>9, <1>10, <1>11, <1>12, <1>13

\* The loop goes on to the next literal.
LEMMA NextLiteralStep ==
  ASSUME IInv, NextLiteral
  PROVE  IInv'
<1> USE DEF IInv
<1>1. /\ idxClauses = {} /\ pos' = pos + 1
      /\ ownBucket' = -1
      /\ UNCHANGED <<component, clauses, markView, markIdx, mustUnMark, vecBucketSortIntervalle, distrib, calls>>
      /\ refCutBucket' = [b \in DOMAIN refCutBucket |-> b]
  BY DEF NextLiteral, NoCuts
<1>2. ~Idle /\ NbLit \in Nat /\ pos \in Nat /\ pos < NbLit
  BY LitFacts DEF NextLiteral, Idle, TypeOK
<1>3. /\ \A c \in Idx : Read(c)' = Read(c)
      /\ \A c \in Idx : ~Treated(c)'
      /\ QueueInv' /\ pos + 1 \in 1 .. NbLit
      /\ \A c \in Idx : Read(c) # <<LitAt(pos + 1)>>
  BY <1>2, ReadNext
<1>4. /\ NbIntervals' = NbIntervals /\ Buckets' = Buckets /\ NbLit' = NbLit
      /\ DOMAIN refCutBucket = Buckets /\ ToSet(component)' = ToSet(component)
  BY <1>1 DEF NbIntervals, Buckets, NbLit, ToSet, TypeOK
<1>5. idxClauses' \subseteq Idx
  BY DEF NextLiteral
<1>6. refCutBucket' \in [Buckets' -> Buckets'] /\ \A b \in Buckets : ~WasCut(b)'
  BY <1>1, <1>4 DEF WasCut
<1>7. TypeOK'
  BY <1>1, <1>2, <1>3, <1>4, <1>5, <1>6 DEF TypeOK, Increasing, Interval, LitsOver
<1>8. ~Idle'
  BY <1>1, <1>2, <1>4 DEF Idle
<1>9. MarkedNoted' /\ TileInv'
  BY <1>1, <1>4, <1>8 DEF MarkedNoted, TileInv, Slots
<1>10. MetInv'
  BY <1>1, <1>2, <1>3 DEF MetInv
<1>11. MembersInv'
  <2>1. \A c \in markView : Read(c)' = Read(c)
    BY <1>3 DEF TypeOK
  <2>2. \A b : Members(b)' = Members(b) /\ Slots(b)' = Slots(b)
    BY <1>1 DEF Members, Slots
  <2> QED
    BY <1>1, <1>2, <1>4, <2>1, <2>2 DEF MembersInv
<1>12. CutInv'
  <2>1. \A d \in markView : Read(d)' # <<LitAt(pos)>>'
    <3>1. <<LitAt(pos)>>' = <<LitAt(pos + 1)>>
      BY <1>1 DEF LitAt
    <3> QED
      BY <1>3, <3>1 DEF TypeOK
  <2>2. \A d \in markView : markIdx[d] # -1
    BY <1>2 DEF MembersInv, Buckets
  <2>3. \A d \in markView : ~Treated(d)'
    BY <1>3 DEF TypeOK
  <2> QED
    BY <1>1, <1>4, <1>6, <2>1, <2>2, <2>3 DEF CutInv
<1> QED
  BY <1>3, <1>7, <1>9, <1>10, <1>11, <1>12

\* The end of a call takes the marks out.
LEMMA EndStep ==
  ASSUME IInv, EndCollect
  PROVE  IInv'
<1> USE DEF IInv
<1>1. /\ idxClauses = {} /\ pos' = NbLit + 1
      /\ UNCHANGED <<component, clauses, markIdx, vecBucketSortIntervalle, idxClauses, ownBucket, calls>>
      /\ refCutBucket' = [b \in DOMAIN refCutBucket |-> b]
      /\ markView' = markView \ mustUnMark /\ mustUnMark' = {}
      /\ distrib' = [j \in DOMAIN distrib |->
           IF \E b \in DOMAIN vecBucketSortIntervalle : j \in Redundant(vecBucketSortIntervalle[b])
           THEN <<>> ELSE distrib[j]]
  BY DEF EndCollect, NoCuts
<1>2. NbLit \in Nat /\ NbLit' = NbLit /\ Idle'
  BY <1>1, LitFacts DEF Idle, NbLit
<1>3. /\ NbIntervals' = NbIntervals /\ Buckets' = Buckets
      /\ DOMAIN refCutBucket = Buckets /\ ToSet(component)' = ToSet(component)
  BY <1>1 DEF NbIntervals, Buckets, ToSet, TypeOK
<1>4. distrib' \in Seq(Seq(Int)) /\ Len(distrib') = Len(distrib)
  <2>1. Len(distrib) \in Nat /\ distrib \in [1 .. Len(distrib) -> Seq(Int)] /\ DOMAIN distrib = 1 .. Len(distrib)
    BY LenProperties DEF TypeOK
  <2>2. <<>> \in Seq(Int)
    BY EmptySeq
  <2>3. distrib' \in [1 .. Len(distrib) -> Seq(Int)]
    BY <1>1, <2>1, <2>2
  <2> QED
    BY <2>1, <2>3, FunctionIsSeq
<1>5. markView' = {}
  BY <1>1 DEF MarkedNoted
<1>6. refCutBucket' \in [Buckets' -> Buckets']
  BY <1>1, <1>3
<1>7. TypeOK'
  BY <1>1, <1>2, <1>3, <1>4, <1>5, <1>6 DEF TypeOK, Increasing, Interval, LitsOver
<1>8. MarkedNoted' /\ TileInv'
  BY <1>1, <1>3, <1>4, <1>5 DEF MarkedNoted, TileInv, Slots
<1> QED
  BY <1>2, <1>7, <1>8

-----------------------------------------------------------------------------
(* Treating the first literal of a clause.                                 *)

\* What is true whenever a clause is treated.
LEMMA BusyFacts ==
  ASSUME IInv, NEW c \in idxClauses
  PROVE  /\ ~Idle /\ TypeOK /\ MarkedNoted /\ TileInv /\ QueueInv /\ MetInv /\ MembersInv /\ CutInv
         /\ pos # 0 /\ pos \in 1 .. NbLit /\ c \in Idx
         /\ NbIntervals \in Nat /\ Len(distrib) \in Nat
         /\ LitAt(pos) \in Int
         /\ ownBucket \in {-1} \cup Buckets
<1>1. ~Idle
  BY DEF IInv, MarkedNoted
<1>2. pos # 0
  BY <1>1 DEF IInv, QueueInv
<1>3. pos \in 1 .. NbLit
  BY <1>1, <1>2, LitFacts DEF IInv, TypeOK, Idle
<1>4. NbIntervals \in Nat /\ Len(distrib) \in Nat
  BY LenProperties DEF IInv, TypeOK, NbIntervals
<1> QED
  BY <1>1, <1>2, <1>3, <1>4, LitFacts DEF IInv, QueueInv, TypeOK

\* The own interval, made if need be, is one slot longer and the last one.
LEMMA FirstFacts ==
  ASSUME IInv, NEW c \in Idx, FirstLiteral(c)
  PROVE  LET V == vecBucketSortIntervalle
             D == Len(distrib)
             own == ownBucket'
         IN  /\ own \in Nat \ {0} /\ Buckets' = Buckets \cup {own}
             /\ ownBucket = -1 => own \notin Buckets
             /\ ownBucket # -1 => own = ownBucket /\ own \in Buckets
             /\ V' \in Seq(Interval)
             /\ \A b \in Buckets : b # own => V'[b] = V[b]
             /\ V'[own].end = D + 1
             /\ V'[own].start = IF ownBucket = -1 THEN D ELSE V[own].start
             /\ refCutBucket' \in [Buckets' -> Buckets']
             /\ ownBucket = -1 => refCutBucket'[own] = own
             /\ \A b \in Buckets : refCutBucket'[b] = refCutBucket[b]
             /\ distrib' \in Seq(Seq(Int)) /\ Len(distrib') = D + 1
             /\ distrib'[D + 1] = <<LitAt(pos)>>
             /\ \A j \in 1 .. D : distrib'[j] = distrib[j]
<1> DEFINE V == vecBucketSortIntervalle
           D == Len(distrib)
           n == NbIntervals
<1>1. /\ c \in idxClauses
      /\ V' = OwnIntervals
      /\ ownBucket' = IF ownBucket = -1 THEN NextInterval ELSE ownBucket
      /\ refCutBucket' = IF ownBucket = -1 THEN Append(refCutBucket, ownBucket') ELSE refCutBucket
      /\ distrib' = Append(distrib, <<LitAt(pos)>>)
  BY DEF FirstLiteral
<1>2. /\ TypeOK /\ CutInv /\ pos # 0 /\ n \in Nat /\ D \in Nat /\ LitAt(pos) \in Int
      /\ ownBucket \in {-1} \cup Buckets
  BY <1>1, BusyFacts
<1>3. V \in Seq(Interval) /\ n = Len(V) /\ Buckets = 1 .. n /\ Buckets' = 1 .. Len(V')
  BY <1>2 DEF TypeOK, NbIntervals, Buckets
<1>4. /\ distrib' \in Seq(Seq(Int)) /\ Len(distrib') = D + 1
      /\ distrib'[D + 1] = <<LitAt(pos)>>
      /\ \A j \in 1 .. D : distrib'[j] = distrib[j]
  <2>1. distrib \in Seq(Seq(Int)) /\ <<LitAt(pos)>> \in Seq(Int)
    BY <1>2 DEF TypeOK
  <2> DEFINE e == <<LitAt(pos)>>
  <2> HIDE DEF e
  <2> QED
    BY <1>1, <2>1, PushFacts DEF e
<1>5. CASE ownBucket = -1
  <2>1. V' = Append(V, [start |-> D, end |-> D + 1]) /\ ownBucket' = n + 1
        /\ refCutBucket' = Append(refCutBucket, n + 1)
    BY <1>1, <1>5 DEF OwnIntervals, NextInterval, NbIntervals
  <2> DEFINE e == [start |-> D, end |-> D + 1]
  <2>2. e \in Interval /\ e.start = D /\ e.end = D + 1
    BY <1>2 DEF Interval
  <2> HIDE DEF e, D, n, V
  <2>3. /\ V' \in Seq(Interval) /\ Len(V') = n + 1 /\ V'[n + 1] = e
        /\ \A b \in 1 .. n : V'[b] = V[b]
    BY <1>3, <2>1, <2>2, PushFacts DEF e
  <2>4. refCutBucket \in Seq(1 .. n + 1) /\ Len(refCutBucket) = n
    <3>1. refCutBucket \in [1 .. n -> 1 .. n + 1]
      <4>1. refCutBucket \in [1 .. n -> 1 .. n]
        BY <1>2, <1>3 DEF TypeOK
      <4>2. 1 .. n \subseteq 1 .. n + 1
        BY <1>2
      <4> QED
        BY <4>1, <4>2
    <3> QED
      BY <1>2, <3>1, FunctionIsSeq
  <2>5. /\ refCutBucket' \in Seq(1 .. n + 1) /\ Len(refCutBucket') = n + 1
        /\ refCutBucket'[n + 1] = n + 1 /\ \A b \in 1 .. n : refCutBucket'[b] = refCutBucket[b]
    <3>1. n + 1 \in 1 .. n + 1
      BY <1>2
    <3> QED
      BY <2>1, <2>4, <3>1, PushFacts
  <2>6. refCutBucket' \in [1 .. n + 1 -> 1 .. n + 1]
    BY <2>5, LenProperties
  <2>7. 1 .. n + 1 = (1 .. n) \cup {n + 1} /\ n + 1 \notin 1 .. n
    BY <1>2
  <2> QED
    BY <1>2, <1>3, <1>4, <1>5, <2>1, <2>2, <2>3, <2>5, <2>6, <2>7 DEF V, D
<1>6. CASE ownBucket # -1
  <2>1. V' = [V EXCEPT ![ownBucket].end = @ + 1] /\ ownBucket' = ownBucket
        /\ refCutBucket' = refCutBucket /\ ownBucket \in 1 .. n
    BY <1>1, <1>2, <1>3, <1>6 DEF OwnIntervals
  <2>2. V \in [1 .. n -> Interval] /\ V[ownBucket].end = D
    BY <1>2, <1>3, <1>6, LenProperties DEF CutInv
  <2>3. \A b \in 1 .. n : V[b].start \in Nat /\ V[b].end \in Nat
                          /\ V[b] = [start |-> V[b].start, end |-> V[b].end]
    BY <2>2 DEF Interval
  <2>4. /\ V' \in [1 .. n -> Interval] /\ V'[ownBucket].end = D + 1
        /\ V'[ownBucket].start = V[ownBucket].start
        /\ \A b \in 1 .. n : b # ownBucket => V'[b] = V[b]
    BY <1>2, <2>1, <2>2, <2>3 DEF Interval
  <2>5. V' \in Seq(Interval) /\ Len(V') = n
    BY <1>2, <2>4, FunctionIsSeq
  <2> QED
    BY <1>2, <1>3, <1>4, <1>6, <2>1, <2>4, <2>5 DEF TypeOK
<1> QED
  BY <1>5, <1>6

\* The first literal of a clause takes it to the own interval.
LEMMA FirstStep ==
  ASSUME IInv, NEW c \in Idx, FirstLiteral(c)
  PROVE  IInv'
<1> DEFINE V == vecBucketSortIntervalle
           D == Len(distrib)
           l == LitAt(pos)
<1> PICK own : own = ownBucket'
  OBVIOUS
<1>1. /\ c \in idxClauses /\ c \notin markView
      /\ markView' = markView \cup {c} /\ mustUnMark' = mustUnMark \cup {c}
      /\ markIdx' = [markIdx EXCEPT ![c] = own]
      /\ idxClauses' = idxClauses \ {c}
      /\ UNCHANGED <<component, clauses, pos, calls>>
  BY DEF FirstLiteral, ToUnMark
<1>2. /\ ~Idle /\ TypeOK /\ MarkedNoted /\ TileInv /\ QueueInv /\ MetInv /\ MembersInv /\ CutInv
      /\ pos # 0 /\ pos \in 1 .. NbLit
      /\ NbIntervals \in Nat /\ D \in Nat
      /\ l \in Int
      /\ ownBucket \in {-1} \cup Buckets
  BY <1>1, BusyFacts
<1>3. /\ own \in Nat \ {0} /\ Buckets' = Buckets \cup {own}
      /\ ownBucket = -1 => own \notin Buckets
      /\ ownBucket # -1 => own = ownBucket /\ own \in Buckets
      /\ V' \in Seq(Interval)
      /\ \A b \in Buckets : b # own => V'[b] = V[b]
      /\ V'[own].end = D + 1
      /\ V'[own].start = IF ownBucket = -1 THEN D ELSE V[own].start
      /\ refCutBucket' \in [Buckets' -> Buckets']
      /\ ownBucket = -1 => refCutBucket'[own] = own
      /\ \A b \in Buckets : refCutBucket'[b] = refCutBucket[b]
      /\ distrib' \in Seq(Seq(Int)) /\ Len(distrib') = D + 1
      /\ distrib'[D + 1] = <<l>>
      /\ \A j \in 1 .. D : distrib'[j] = distrib[j]
  BY FirstFacts
<1>4. /\ Read(c)' = Append(Read(c), l)
      /\ \A d \in Idx : d # c => Read(d)' = Read(d)
      /\ Treated(c)'
      /\ \A d \in Idx : d # c => (Treated(d)' <=> Treated(d))
  BY <1>1, <1>2, ReadTreat
<1>5. Read(c)' = <<l>>
  <2>1. Read(c) = <<>>
    BY <1>1, <1>2 DEF MetInv
  <2> QED
    BY <1>4, <2>1
<1>6. /\ \A d \in markView : d \in Idx /\ d # c /\ markIdx'[d] = markIdx[d] /\ Read(d)' = Read(d)
                             /\ (Treated(d)' <=> Treated(d)) /\ markIdx[d] \in Buckets
      /\ markIdx'[c] = own
  BY <1>1, <1>2, <1>4 DEF TypeOK, MembersInv
<1>7. l' = l /\ NbLit' = NbLit /\ ToSet(component)' = ToSet(component)
  BY <1>1 DEF LitAt, NbLit, ToSet
<1>8. ~Idle'
  BY <1>1, <1>2, <1>7 DEF Idle
<1>9. TypeOK'
  <2>1. markIdx' \in [Idx -> Int] /\ markView' \subseteq Idx /\ idxClauses' \subseteq Idx /\ own \in Int
    BY <1>1, <1>2, <1>3 DEF TypeOK
  <2>2. refCutBucket' \in [Buckets' -> Buckets'] /\ V' \in Seq(Interval) /\ distrib' \in Seq(Seq(Int))
    BY <1>3
  <2> QED
    BY <1>1, <1>2, <1>7, <2>1, <2>2 DEF TypeOK, Increasing, Interval, LitsOver
<1>10. MarkedNoted'
  BY <1>1, <1>2, <1>8 DEF MarkedNoted
<1>11. QueueInv'
  <2>1. \A d \in idxClauses' : l \in Residual(d)
    BY <1>1, <1>2 DEF QueueInv
  <2>2. \A d : Residual(d)' = Residual(d)
    BY <1>1 DEF Residual
  <2> QED
    BY <1>1, <1>2, <1>3, <1>7, <2>1, <2>2 DEF QueueInv
<1>12. MetInv'
  <2>1. ASSUME NEW d \in Idx
        PROVE  d \in markView' <=> Read(d)' # <<>>
    <3>1. CASE d = c
      BY <1>1, <1>5, <3>1
    <3>2. CASE d # c
      BY <1>1, <1>2, <1>4, <3>2 DEF MetInv
    <3> QED
      BY <3>1, <3>2
  <2> QED
    BY <2>1 DEF MetInv
<1> HIDE DEF l, D, V
<1>13. /\ \A b \in Buckets : V[b].start \in Nat /\ V[b].end \in Nat /\ V[b].start <= V[b].end /\ V[b].end <= D
       /\ ownBucket # -1 => V[own].end = D
  <2>1. \A b \in Buckets : V[b] \in Interval
    BY <1>2, ElementOfSeq DEF TypeOK, Buckets, NbIntervals, V
  <2>2. ownBucket # -1 => V[ownBucket].end = D
    BY <1>2 DEF CutInv, V, D
  <2> QED
    BY <1>2, <1>3, <2>1, <2>2 DEF TileInv, Interval, V, D
<1>14. /\ \A b \in Buckets : b # own => Slots(b)' = Slots(b) /\ Members(b)' = Members(b)
       /\ Slots(own)' = (IF ownBucket = -1 THEN {} ELSE Slots(own)) \cup {D + 1}
       /\ Members(own)' = (IF ownBucket = -1 THEN {} ELSE Members(own)) \cup {c}
  <2>1. ASSUME NEW b \in Buckets, b # own
        PROVE  Slots(b)' = Slots(b) /\ Members(b)' = Members(b)
    <3>1. Slots(b)' = V'[b].start + 1 .. V'[b].end
      BY DEF Slots, V
    <3>2. Slots(b) = V[b].start + 1 .. V[b].end
      BY DEF Slots, V
    <3> QED
      BY <1>1, <1>3, <1>6, <2>1, <3>1, <3>2 DEF Members
  <2>2. Slots(own)' = V'[own].start + 1 .. V'[own].end
    BY DEF Slots, V
  <2>3. Members(own)' = {d \in markView' : markIdx'[d] = own}
    BY DEF Members
  <2>4. CASE ownBucket = -1
    <3>1. D + 1 .. D + 1 = {D + 1}
      BY <1>2
    <3>2. \A d \in markView : markIdx'[d] # own
      BY <1>3, <1>6, <2>4
    <3> QED
      BY <1>1, <1>3, <1>6, <2>1, <2>2, <2>3, <2>4, <3>1, <3>2
  <2>5. CASE ownBucket # -1
    <3>1. V[own].start \in Nat /\ V[own].start <= D /\ V[own].end = D
      BY <1>3, <1>13, <2>5
    <3>2. V[own].start + 1 .. D + 1 = (V[own].start + 1 .. D) \cup {D + 1}
      BY <1>2, <3>1
    <3>3. Slots(own) = V[own].start + 1 .. D
      BY <3>1 DEF Slots, V
    <3>4. Members(own)' = Members(own) \cup {c}
      BY <1>1, <1>6, <2>3 DEF Members
    <3> QED
      BY <1>3, <2>1, <2>2, <2>5, <3>2, <3>3, <3>4
  <2> QED
    BY <2>4, <2>5
<1>15. \A b \in Buckets : \A j \in Slots(b) : j \in 1 .. D
  BY <1>2, <1>13 DEF Slots, V
<1>16. TileInv'
  <2>1. ASSUME NEW b \in Buckets'
        PROVE  V'[b].start <= V'[b].end /\ V'[b].end <= D + 1
    <3>1. CASE b = own
      <4>1. V'[own].start \in Nat /\ V'[own].start <= D
        BY <1>2, <1>3, <1>13
      <4> QED
        BY <1>2, <1>3, <3>1, <4>1
    <3>2. CASE b # own
      <4>1. b \in Buckets /\ V'[b] = V[b]
        BY <1>3, <3>2
      <4> QED
        BY <1>2, <1>13, <4>1
    <3> QED
      BY <3>1, <3>2
  <2>2. ASSUME NEW j \in 1 .. D + 1
        PROVE  \E b \in Buckets' : j \in Slots(b)'
    <3>1. CASE j = D + 1
      BY <1>3, <1>14, <3>1
    <3>2. CASE j # D + 1
      <4>1. j \in 1 .. D
        BY <1>2, <3>2
      <4>2. PICK b \in Buckets : j \in Slots(b)
        BY <1>2, <4>1 DEF TileInv, D
      <4>3. j \in Slots(b)'
        BY <1>3, <1>14, <4>2
      <4> QED
        BY <1>3, <4>3
    <3> QED
      BY <3>1, <3>2
  <2>3. ASSUME NEW a \in Buckets', NEW b \in Buckets', NEW j \in Slots(a)', j \in Slots(b)'
        PROVE  a = b
    <3>1. D + 1 \notin 1 .. D
      BY <1>2
    <3>2. CASE j = D + 1
      BY <1>3, <1>14, <1>15, <2>3, <3>1, <3>2
    <3>3. CASE j # D + 1
      <4>1. a \in Buckets /\ b \in Buckets /\ j \in Slots(a) /\ j \in Slots(b)
        BY <1>3, <1>14, <2>3, <3>3
      <4> QED
        BY <1>2, <4>1 DEF TileInv
    <3> QED
      BY <3>2, <3>3
  <2>4. Len(distrib') = D + 1
    BY <1>3
  <2> QED
    BY <2>1, <2>2, <2>3, <2>4 DEF TileInv, V
<1>17. MembersInv'
  <2>1. \A d \in markView' : markIdx'[d] \in Buckets'
    BY <1>1, <1>3, <1>6
  <2>2. ASSUME NEW b \in Buckets'
        PROVE  Cardinality(Members(b))' = V'[b].end - V'[b].start
    <3>1. CASE b # own
      <4>1. Cardinality(Members(b)) = V[b].end - V[b].start
        BY <1>2, <1>3, <3>1 DEF MembersInv, V
      <4> QED
        BY <1>3, <1>14, <3>1, <4>1
    <3>2. CASE b = own
      <4> DEFINE M == IF ownBucket = -1 THEN {} ELSE Members(own)
      <4>1. M \subseteq Idx /\ c \notin M
        BY <1>1, <1>2 DEF Members, TypeOK
      <4>2. IsFiniteSet(M)
        BY <4>1, IdxAssumption, FS_Subset
      <4>3. Cardinality(M \cup {c}) = Cardinality(M) + 1
        <5> HIDE DEF M
        <5> QED
          BY <4>1, <4>2, FS_AddElement
      <4>4. CASE ownBucket = -1
        <5>1. Cardinality(M) = 0
          BY <4>4, FS_EmptySet
        <5>2. V'[b].end = D + 1 /\ V'[b].start = D
          BY <1>3, <3>2, <4>4
        <5>3. Members(b)' = M \cup {c}
          BY <1>14, <3>2 DEF Members
        <5> QED
          BY <1>2, <4>3, <5>1, <5>2, <5>3
      <4>5. CASE ownBucket # -1
        <5>1. Cardinality(M) = D - V[own].start
          BY <1>2, <1>3, <1>13, <4>5 DEF MembersInv, V
        <5>2. V'[b].end = D + 1 /\ V'[b].start = V[own].start /\ V[own].start \in Nat
          BY <1>3, <1>13, <3>2, <4>5
        <5>3. Members(b)' = M \cup {c}
          BY <1>14, <3>2 DEF Members
        <5> QED
          BY <1>2, <4>3, <5>1, <5>2, <5>3
      <4> QED
        BY <4>4, <4>5
    <3> QED
      BY <3>1, <3>2
  <2>3. ASSUME NEW d \in markView'
        PROVE  \A j \in Slots(markIdx[d])' : distrib'[j] = Read(d)'
    <3>1. CASE d = c
      <4>1. markIdx'[d] = own /\ Slots(markIdx[d])' = (IF ownBucket = -1 THEN {} ELSE Slots(own)) \cup {D + 1}
        BY <1>6, <1>14, <3>1 DEF Slots
      <4>2. ASSUME NEW j \in Slots(own), ownBucket # -1
            PROVE  distrib'[j] = <<l>>
        <5>1. own \in Buckets /\ own = ownBucket /\ j \in 1 .. D
          BY <1>3, <1>15, <4>2
        <5>2. Members(own) # {}
          <6>1. Cardinality(Members(own)) = V[own].end - V[own].start
            BY <1>2, <5>1 DEF MembersInv, V
          <6>2. V[own].start + 1 \in Nat /\ V[own].end \in Nat /\ V[own].start < V[own].end
            BY <1>2, <1>13, <5>1, <4>2 DEF Slots, V
          <6>3. V[own].end - V[own].start # 0
            BY <1>13, <5>1, <6>2
          <6> QED
            BY <6>1, <6>3, FS_EmptySet
        <5>3. PICK e \in markView : markIdx[e] = ownBucket
          BY <5>1, <5>2 DEF Members
        <5>4. Read(e) = <<l>>
          BY <1>2, <5>3 DEF CutInv, l
        <5>5. distrib[j] = Read(e)
          BY <1>2, <4>2, <5>1, <5>3 DEF MembersInv
        <5> QED
          BY <1>3, <5>1, <5>4, <5>5
      <4> QED
        BY <1>3, <1>5, <3>1, <4>1, <4>2
    <3>2. CASE d # c
      <4>1. d \in markView
        BY <1>1, <3>2
      <4>2. CASE markIdx[d] = own
        <5>1. ownBucket # -1 /\ markIdx[d] = ownBucket
          BY <1>3, <1>6, <4>1, <4>2
        <5>2. Read(d) = <<l>>
          BY <1>2, <4>1, <5>1 DEF CutInv, l
        <5>3. \A j \in Slots(own) : distrib'[j] = <<l>>
          BY <1>2, <1>3, <1>15, <4>1, <4>2, <5>1, <5>2 DEF MembersInv
        <5>4. Slots(markIdx[d])' = Slots(own) \cup {D + 1}
          BY <1>6, <1>14, <4>1, <4>2, <5>1 DEF Slots
        <5> QED
          BY <1>3, <1>6, <4>1, <5>2, <5>3, <5>4
      <4>3. CASE markIdx[d] # own
        <5>1. markIdx[d] \in Buckets /\ Slots(markIdx[d])' = Slots(markIdx[d])
          BY <1>6, <1>14, <4>1, <4>3 DEF Slots
        <5>2. \A j \in Slots(markIdx[d]) : distrib[j] = Read(d)
          BY <1>2, <4>1 DEF MembersInv
        <5>3. \A j \in Slots(markIdx[d]) : distrib'[j] = distrib[j]
          BY <1>3, <1>15, <5>1
        <5> QED
          BY <1>6, <4>1, <5>1, <5>2, <5>3
      <4> QED
        BY <4>2, <4>3
    <3> QED
      BY <3>1, <3>2
  <2>4. ASSUME NEW d \in markView'
        PROVE  markIdx'[d] = own <=> Read(d)' = <<l>>
    <3>1. CASE d = c
      BY <1>5, <1>6, <3>1
    <3>2. CASE d # c
      <4>1. d \in markView /\ markIdx[d] \in Buckets /\ markIdx[d] # -1
        BY <1>1, <1>2, <1>6, <3>2 DEF Buckets
      <4>2. markIdx[d] = ownBucket <=> Read(d) = <<l>>
        BY <1>2, <4>1 DEF CutInv, l
      <4> QED
        BY <1>3, <1>6, <4>1, <4>2
    <3> QED
      BY <3>1, <3>2
  <2>5. ASSUME NEW d \in markView', NEW e \in markView'
        PROVE  Read(d)' = Read(e)' <=> markIdx'[d] = markIdx'[e]
    <3>1. CASE d = c \/ e = c
      BY <1>5, <1>6, <2>4, <3>1
    <3>2. CASE d # c /\ e # c
      <4>1. d \in markView /\ e \in markView
        BY <1>1, <3>2
      <4>2. Read(d) = Read(e) <=> markIdx[d] = markIdx[e]
        BY <1>2, <4>1 DEF MembersInv
      <4> QED
        BY <1>6, <4>1, <4>2
    <3> QED
      BY <3>1, <3>2
  <2> QED
    BY <2>1, <2>2, <2>3, <2>5 DEF MembersInv, V
<1>18. CutInv'
  <2>1. ASSUME NEW d \in markView'
        PROVE  markIdx'[d] = own <=> Read(d)' = <<l>>
    <3>1. CASE d = c
      BY <1>5, <1>6, <3>1
    <3>2. CASE d # c
      <4>1. d \in markView /\ markIdx[d] \in Buckets /\ markIdx[d] # -1
        BY <1>1, <1>2, <1>6, <3>2 DEF Buckets
      <4>2. markIdx[d] = ownBucket <=> Read(d) = <<l>>
        BY <1>2, <4>1 DEF CutInv, l
      <4> QED
        BY <1>3, <1>6, <4>1, <4>2
    <3> QED
      BY <3>1, <3>2
  <2>2. V'[own].end = Len(distrib') /\ refCutBucket'[own] = own
    BY <1>2, <1>3 DEF CutInv, WasCut
  <2>3. ASSUME NEW e \in markView', NEW d \in markView', ~Treated(e)', Treated(d)'
        PROVE  Read(d)' = Append(Read(e)', l) <=> refCutBucket'[markIdx'[e]] = markIdx'[d]
    <3>1. e # c /\ e \in markView /\ ~Treated(e) /\ e \in Idx
      BY <1>1, <1>4, <1>6, <2>3
    <3>2. markIdx'[e] = markIdx[e] /\ markIdx[e] \in Buckets /\ Read(e)' = Read(e)
          /\ refCutBucket'[markIdx[e]] = refCutBucket[markIdx[e]]
      BY <1>3, <1>6, <3>1
    <3>3. CASE d # c
      <4>1. d \in markView /\ Treated(d)
        BY <1>1, <1>6, <2>3, <3>3
      <4>2. Read(d) = Append(Read(e), l) <=> refCutBucket[markIdx[e]] = markIdx[d]
        BY <1>2, <3>1, <4>1 DEF CutInv, l
      <4> QED
        BY <1>6, <3>2, <4>1, <4>2
    <3>4. CASE d = c
      <4>1. Read(e) # <<>> /\ Read(e) \in Seq(Int)
        BY <1>2, <3>1, ReadFacts DEF MetInv
      <4>2. Append(Read(e), l) # <<l>>
        <5> DEFINE s == Read(e)
        <5>1. s \in Seq(Int) /\ s # <<>>
          BY <4>1
        <5> HIDE DEF s
        <5>2. Len(s) \in Nat /\ Len(s) # 0
          BY <5>1, EmptySeq, LenProperties
        <5>3. Len(Append(s, l)) = Len(s) + 1
          BY <1>2, <5>1, PushFacts
        <5>4. Len(<<l>>) = 1
          OBVIOUS
        <5> QED
          BY <5>2, <5>3, <5>4 DEF s
      <4>3. refCutBucket[markIdx[e]] # own
        <5>1. refCutBucket[markIdx[e]] \in Buckets
          BY <1>2, <3>2 DEF TypeOK
        <5>2. CASE ownBucket = -1
          BY <1>3, <5>1, <5>2
        <5>3. CASE ownBucket # -1 /\ WasCut(markIdx[e])
          BY <1>2, <1>3, <3>2, <5>3 DEF CutInv
        <5>4. CASE ownBucket # -1 /\ ~WasCut(markIdx[e])
          <6>1. ASSUME markIdx[e] = ownBucket
                PROVE  FALSE
            <7>1. Read(e) = <<l>>
              BY <1>2, <3>1, <6>1 DEF CutInv, l
            <7>2. l \in {Read(e)[k] : k \in DOMAIN Read(e)}
              BY <7>1
            <7> QED
              BY <1>2, <3>1, <7>2, ReadFacts DEF l
          <6> QED
            BY <1>3, <5>4, <6>1 DEF WasCut
        <5> QED
          BY <5>2, <5>3, <5>4
      <4> QED
        BY <1>5, <1>6, <3>2, <3>4, <4>2, <4>3
    <3> QED
      BY <3>3, <3>4
  <2>4. ASSUME NEW d \in markView', Treated(d)'
        PROVE  refCutBucket'[markIdx'[d]] = markIdx'[d]
    <3>1. CASE d = c
      BY <1>6, <2>2, <3>1
    <3>2. CASE d # c
      <4>1. d \in markView /\ Treated(d)
        BY <1>1, <1>6, <2>4, <3>2
      <4>2. ~WasCut(markIdx[d])
        BY <1>2, <4>1 DEF CutInv
      <4> QED
        BY <1>3, <1>6, <4>1, <4>2 DEF WasCut
    <3> QED
      BY <3>1, <3>2
  <2>5. ASSUME NEW b \in Buckets', refCutBucket'[b] # b
        PROVE  /\ b \in Buckets /\ b # own /\ refCutBucket'[b] = refCutBucket[b] /\ WasCut(b)
               /\ refCutBucket[b] \in Buckets
               /\ refCutBucket'[refCutBucket[b]] = refCutBucket[b] /\ refCutBucket[b] # own
               /\ V'[refCutBucket[b]].end = V'[b].start
               /\ \A d \in Members(refCutBucket[b])' : Treated(d)'
    <3>1. b \in Buckets /\ b # own /\ refCutBucket'[b] = refCutBucket[b] /\ WasCut(b)
      BY <1>3, <2>2, <2>5 DEF WasCut
    <3>2. refCutBucket[b] \in Buckets
      BY <1>2, <3>1 DEF TypeOK
    <3>3. /\ ~WasCut(refCutBucket[b]) /\ refCutBucket[b] # ownBucket
          /\ V[refCutBucket[b]].end = V[b].start
          /\ \A d \in Members(refCutBucket[b]) : Treated(d)
      BY <1>2, <3>1 DEF CutInv, V
    <3>4. refCutBucket[b] # own
      BY <1>3, <3>2, <3>3
    <3>5. refCutBucket'[refCutBucket[b]] = refCutBucket[b]
      BY <1>3, <3>2, <3>3 DEF WasCut
    <3>6. V'[refCutBucket[b]] = V[refCutBucket[b]] /\ V'[b] = V[b]
      BY <1>3, <3>1, <3>2, <3>4
    <3>7. ASSUME NEW d \in markView', markIdx'[d] = refCutBucket[b]
          PROVE  Treated(d)'
      <4>1. d # c /\ d \in markView /\ d \in Members(refCutBucket[b])
        BY <1>1, <1>6, <3>4, <3>7 DEF Members
      <4> QED
        BY <1>6, <3>3, <4>1
    <3>8. \A d \in Members(refCutBucket[b])' : Treated(d)'
      BY <3>1, <3>7 DEF Members
    <3> QED
      BY <3>1, <3>2, <3>3, <3>4, <3>5, <3>6, <3>8
  <2>6. ASSUME NEW a \in Buckets', NEW b \in Buckets', refCutBucket'[a] # a, refCutBucket'[b] # b,
               refCutBucket'[a] = refCutBucket'[b]
        PROVE  a = b
    BY <1>2, <2>5, <2>6 DEF CutInv
  <2> QED
    BY <1>7, <2>1, <2>2, <2>3, <2>4, <2>5, <2>6 DEF CutInv, WasCut, V, l
<1> QED
  BY <1>9, <1>10, <1>11, <1>12, <1>16, <1>17, <1>18 DEF IInv

-----------------------------------------------------------------------------
(* Treating a further literal of a clause.                                 *)

\* What a clause moves between: from the front of its interval, a slot goes to the
\* one that was cut from it, or is cut from it now.
MovesClause(c, old, new) ==
  /\ old = markIdx[c] /\ old \in Buckets /\ new \in Nat \ {0} /\ new # old
  /\ Buckets' = Buckets \cup {new}
  /\ IF WasCut(old) THEN new = refCutBucket[old] /\ new \in Buckets
                    ELSE new \notin Buckets
  /\ markIdx' = [markIdx EXCEPT ![c] = new]
  /\ refCutBucket' \in [Buckets' -> Buckets']
  /\ refCutBucket'[old] = new /\ refCutBucket'[new] = new
  /\ \A b \in Buckets : b # old => refCutBucket'[b] = refCutBucket[b]

MovesSlot(old, new, s) ==
  LET V == vecBucketSortIntervalle
  IN /\ s \in Nat /\ V[old].start = s /\ s + 1 <= V[old].end
     /\ V' \in Seq(Interval)
     /\ \A b \in Buckets : b # old /\ b # new => V'[b] = V[b]
     /\ V'[old].start = s + 1 /\ V'[old].end = V[old].end
     /\ V'[new].start = (IF WasCut(old) THEN V[new].start ELSE s) /\ V'[new].end = s + 1
     /\ WasCut(old) => V[new].end = s

WritesSlot(c, s) ==
  /\ distrib' \in Seq(Seq(Int)) /\ Len(distrib') = Len(distrib)
  /\ s + 1 \in 1 .. Len(distrib) /\ distrib'[s + 1] = Append(Read(c), LitAt(pos))
  /\ \A j \in 1 .. Len(distrib) : j # s + 1 => distrib'[j] = distrib[j]

LEMMA FurtherFacts ==
  ASSUME IInv, NEW c \in Idx, FurtherLiteral(c)
  PROVE  \E old, new, s : MovesClause(c, old, new) /\ MovesSlot(old, new, s) /\ WritesSlot(c, s)
<1> DEFINE V == vecBucketSortIntervalle
           D == Len(distrib)
           n == NbIntervals
           l == LitAt(pos)
           R == refCutBucket
           old == markIdx[c]
           s == V[old].start
           isCut == R[old] # old
           new == IF isCut THEN R[old] ELSE NextInterval
           W == IF isCut THEN V ELSE Append(V, Cut(V[old]))
<1>1. /\ c \in idxClauses /\ c \in markView
      /\ R' = IF isCut THEN R ELSE Append([R EXCEPT ![old] = new], new)
      /\ markIdx' = [markIdx EXCEPT ![c] = new]
      /\ V' = Move(W, old, new)
      /\ distrib' = [distrib EXCEPT ![W[new].end + 1] = Append(@, l)]
  BY Zenon DEF FurtherLiteral
<1>0. /\ old = markIdx[c] /\ s = V[old].start
      /\ isCut => new = R[old] /\ W = V
      /\ ~isCut => new = NextInterval /\ W = Append(V, Cut(V[old]))
  BY Zenon
<1> HIDE DEF old, s, new, W
<1>2. /\ ~Idle /\ TypeOK /\ TileInv /\ QueueInv /\ MembersInv /\ CutInv /\ n \in Nat /\ D \in Nat /\ l \in Int
  BY <1>1, BusyFacts
<1>3. V \in Seq(Interval) /\ n = Len(V) /\ Buckets = 1 .. n /\ Buckets' = 1 .. Len(V')
  BY <1>2 DEF TypeOK, NbIntervals, Buckets
<1>4. old \in Buckets /\ old \in 1 .. n
  BY <1>0, <1>1, <1>2, <1>3 DEF MembersInv
<1>5. R \in [1 .. n -> 1 .. n] /\ (isCut <=> WasCut(old))
  BY <1>2, <1>3 DEF TypeOK, WasCut
<1>6. V \in [1 .. n -> Interval]
  BY <1>3, LenProperties
<1>7. \A b \in 1 .. n : V[b].start \in Nat /\ V[b].end \in Nat /\ V[b] = [start |-> V[b].start, end |-> V[b].end]
  BY <1>6 DEF Interval
<1>8. s \in Nat /\ s + 1 <= V[old].end /\ V[old].end <= D /\ s + 1 \in 1 .. D
  <2>1. s \in Nat /\ V[old].end \in Nat /\ s <= V[old].end /\ V[old].end <= D
    BY <1>0, <1>2, <1>4, <1>7 DEF TileInv
  <2>2. Cardinality(Members(old)) = V[old].end - s
    BY <1>0, <1>2, <1>4 DEF MembersInv
  <2>3. Members(old) # {} /\ IsFiniteSet(Members(old))
    <3>1. c \in Members(old) /\ Members(old) \subseteq Idx
      BY <1>0, <1>1, <1>2 DEF Members, TypeOK
    <3> QED
      BY <3>1, IdxAssumption, FS_Subset
  <2>4. Cardinality(Members(old)) # 0
    BY <2>3, FS_EmptySet
  <2> HIDE DEF V, D
  <2>5. s < V[old].end
    BY <2>1, <2>2, <2>4
  <2> QED
    BY <1>2, <2>1, <2>5
<1>9. distrib[s + 1] = Read(c) /\ Read(c) \in Seq(Int)
  <2>1. s + 1 \in Slots(old)
    BY <1>0, <1>4, <1>7, <1>8 DEF Slots
  <2> QED
    BY <1>0, <1>1, <1>2, <2>1, ReadFacts DEF MembersInv
<1>10. distrib \in Seq(Seq(Int)) /\ distrib \in [1 .. D -> Seq(Int)]
  BY <1>2, LenProperties DEF TypeOK
<1>11. ASSUME W[new].end = s
       PROVE  /\ distrib' \in Seq(Seq(Int)) /\ Len(distrib') = D
              /\ distrib'[s + 1] = Append(Read(c), l)
              /\ \A j \in 1 .. D : j # s + 1 => distrib'[j] = distrib[j]
  <2>1. distrib' = [distrib EXCEPT ![s + 1] = Append(@, l)]
    BY <1>1, <1>11
  <2>2. Append(Read(c), l) \in Seq(Int)
    BY <1>2, <1>9, AppendProperties
  <2> HIDE DEF D, l
  <2>3. /\ distrib' \in [1 .. D -> Seq(Int)]
        /\ distrib'[s + 1] = Append(Read(c), l)
        /\ \A j \in 1 .. D : j # s + 1 => distrib'[j] = distrib[j]
    BY <1>8, <1>9, <1>10, <2>1, <2>2
  <2> QED
    BY <1>2, <2>3, FunctionIsSeq
<1>12. CASE isCut
  <2>1. new = R[old] /\ new \in 1 .. n /\ new # old /\ WasCut(old) /\ W = V
    BY <1>0, <1>4, <1>5, <1>12
  <2>2. V[new].end = s /\ ~WasCut(new)
    BY <1>0, <1>2, <1>4, <2>1 DEF CutInv
  <2>3. V' = [V EXCEPT ![old].start = @ + 1, ![new].end = @ + 1] /\ R' = R
    BY Zenon, <1>1, <1>12, <2>1 DEF Move
  <2>4. V[new].start \in Nat
    BY <1>7, <2>1
  <2> HIDE DEF D, l
  <2>5. /\ V' \in [1 .. n -> Interval]
        /\ \A b \in 1 .. n : b # old /\ b # new => V'[b] = V[b]
        /\ V'[old].start = V[old].start + 1 /\ V'[old].end = V[old].end
        /\ V'[new].start = V[new].start /\ V'[new].end = V[new].end + 1
    BY <1>4, <1>6, <1>7, <2>1, <2>3 DEF Interval
  <2>6. V' \in Seq(Interval) /\ Len(V') = n
    BY <1>2, <2>5, FunctionIsSeq
  <2>7. Buckets' = Buckets \cup {new} /\ new \in Nat \ {0}
    BY <1>2, <1>3, <2>1, <2>6
  <2>8. R' \in [Buckets' -> Buckets'] /\ R'[old] = new /\ R'[new] = new
    BY <1>3, <1>5, <2>1, <2>2, <2>3, <2>6 DEF WasCut
  <2>9. W[new].end = s
    BY <2>1, <2>2
  <2>10. V'[old].start = s + 1 /\ V'[new].end = s + 1 /\ V[old].start = s
    BY <1>0, <2>2, <2>5
  <2>11. /\ distrib' \in Seq(Seq(Int)) /\ Len(distrib') = D
         /\ distrib'[s + 1] = Append(Read(c), l)
         /\ \A j \in 1 .. D : j # s + 1 => distrib'[j] = distrib[j]
    BY <1>11, <2>9
  <2>12. MovesClause(c, old, new)
    <3>1. new \in Buckets /\ \A b \in Buckets : b # old => R'[b] = R[b]
      BY <1>3, <2>1, <2>3
    <3> QED
      BY <1>0, <1>1, <1>4, <2>1, <2>7, <2>8, <3>1 DEF MovesClause
  <2>13. MovesSlot(old, new, s)
    BY <1>0, <1>3, <1>8, <2>1, <2>2, <2>5, <2>6, <2>10 DEF MovesSlot
  <2>14. WritesSlot(c, s)
    BY <1>8, <2>11 DEF WritesSlot, D, l
  <2> QED
    BY <2>12, <2>13, <2>14
<1>13. CASE ~isCut
  <2>1. new = n + 1 /\ new # old /\ ~WasCut(old) /\ W = Append(V, Cut(V[old]))
    BY <1>0, <1>2, <1>4, <1>5, <1>13 DEF NextInterval, NbIntervals
  <2>2. Cut(V[old]) \in Interval /\ Cut(V[old]).start = s /\ Cut(V[old]).end = s
    BY <1>0, <1>8 DEF Cut, Interval
  <2> HIDE DEF D, l
  <2>3. W \in Seq(Interval) /\ Len(W) = n + 1 /\ W[n + 1] = Cut(V[old]) /\ \A b \in 1 .. n : W[b] = V[b]
    BY <1>3, <2>1, <2>2, PushFacts
  <2>4. W \in [1 .. n + 1 -> Interval]
    BY <2>3, LenProperties
  <2>5. V' = [W EXCEPT ![old].start = @ + 1, ![new].end = @ + 1]
    BY Zenon, <1>1, <2>1 DEF Move
  <2>6. 1 .. n + 1 = (1 .. n) \cup {n + 1} /\ n + 1 \notin 1 .. n
    BY <1>2
  <2>7. /\ W[old].start = s /\ W[old].end = V[old].end /\ W[old].end \in Nat
        /\ W[new].start = s /\ W[new].end = s
        /\ W[new] = [start |-> s, end |-> s] /\ W[old] = [start |-> s, end |-> W[old].end]
        /\ old \in 1 .. n + 1 /\ new \in 1 .. n + 1
    BY <1>0, <1>4, <1>7, <2>1, <2>2, <2>3, <2>6 DEF Cut
  <2>8. /\ V' \in [1 .. n + 1 -> Interval]
        /\ \A b \in 1 .. n + 1 : b # old /\ b # new => V'[b] = W[b]
        /\ V'[old].start = s + 1 /\ V'[old].end = V[old].end
        /\ V'[new].start = s /\ V'[new].end = s + 1
    <3> DEFINE m == n + 1
    <3>1. W \in [1 .. m -> [start : Nat, end : Nat]] /\ old \in 1 .. m /\ new \in 1 .. m
      BY <2>4, <2>7 DEF Interval
    <3>2. new # old /\ s \in Nat
      BY <1>8, <2>1
    <3> HIDE DEF m, V
    <3>4. W[old] \in [start : Nat, end : Nat] /\ W[new] \in [start : Nat, end : Nat]
      BY <3>1
    <3> DEFINE X == [W EXCEPT ![old].start = @ + 1]
    <3>5. /\ X \in [1 .. m -> [start : Nat, end : Nat]]
          /\ \A b \in 1 .. m : b # old => X[b] = W[b]
          /\ X[old].start = W[old].start + 1 /\ X[old].end = W[old].end
      BY <3>1, <3>4
    <3>6. V' = [X EXCEPT ![new].end = @ + 1]
      BY <2>5
    <3> HIDE DEF X
    <3>7. /\ V' \in [1 .. m -> [start : Nat, end : Nat]]
          /\ \A b \in 1 .. m : b # new => V'[b] = X[b]
          /\ V'[new].start = X[new].start /\ V'[new].end = X[new].end + 1
      BY <3>1, <3>5, <3>6
    <3>3. /\ V' \in [1 .. m -> [start : Nat, end : Nat]]
          /\ \A b \in 1 .. m : b # old /\ b # new => V'[b] = W[b]
          /\ V'[old].start = W[old].start + 1 /\ V'[old].end = W[old].end
          /\ V'[new].start = W[new].start /\ V'[new].end = W[new].end + 1
      BY <3>1, <3>2, <3>5, <3>7
    <3> QED
      BY <2>7, <3>3 DEF m, Interval
  <2>9. V' \in Seq(Interval) /\ Len(V') = n + 1
    BY <1>2, <2>8, FunctionIsSeq
  <2>10. Buckets' = Buckets \cup {new} /\ new \in Nat \ {0} /\ new \notin Buckets
    BY <1>2, <1>3, <2>1, <2>6, <2>9
  <2>11. \A b \in Buckets : b # old => V'[b] = V[b]
    BY <1>3, <2>1, <2>3, <2>6, <2>8
  <2> DEFINE Q == [R EXCEPT ![old] = n + 1]
  <2>12. Q \in Seq(1 .. n + 1) /\ Len(Q) = n /\ Q[old] = n + 1 /\ \A b \in 1 .. n : b # old => Q[b] = R[b]
    <3>1. Q \in [1 .. n -> 1 .. n + 1] /\ Q[old] = n + 1 /\ \A b \in 1 .. n : b # old => Q[b] = R[b]
      BY <1>4, <1>5, <2>6
    <3> HIDE DEF Q
    <3> QED
      BY <1>2, <3>1, FunctionIsSeq
  <2>13. R' = Append(Q, n + 1)
    BY <1>1, <1>13, <2>1
  <2>14. /\ R' \in Seq(1 .. n + 1) /\ Len(R') = n + 1
         /\ R'[n + 1] = n + 1 /\ \A b \in 1 .. n : R'[b] = Q[b]
    <3>1. n + 1 \in 1 .. n + 1
      BY <1>2
    <3> HIDE DEF Q
    <3> QED
      BY <2>12, <2>13, <3>1, PushFacts
  <2>15. R' \in [Buckets' -> Buckets']
    BY <1>3, <2>9, <2>14, LenProperties
  <2>16. R'[old] = new /\ R'[new] = new /\ \A b \in Buckets : b # old => R'[b] = R[b]
    BY <1>3, <1>4, <2>1, <2>12, <2>14
  <2>17. W[new].end = s /\ V[old].start = s
    BY <1>0, <2>7
  <2>18. /\ distrib' \in Seq(Seq(Int)) /\ Len(distrib') = D
         /\ distrib'[s + 1] = Append(Read(c), l)
         /\ \A j \in 1 .. D : j # s + 1 => distrib'[j] = distrib[j]
    BY <1>11, <2>17
  <2>19. MovesClause(c, old, new)
    BY <1>0, <1>1, <1>4, <2>1, <2>10, <2>15, <2>16 DEF MovesClause
  <2>20. MovesSlot(old, new, s)
    BY <1>0, <1>3, <1>8, <2>1, <2>8, <2>9, <2>11, <2>17 DEF MovesSlot
  <2>21. WritesSlot(c, s)
    BY <1>8, <2>18 DEF WritesSlot, D, l
  <2> QED
    BY <2>19, <2>20, <2>21
<1> QED
  BY <1>12, <1>13

\* The clauses that have been moved there are those that read what c will read.
LEMMA MovedFacts ==
  ASSUME IInv, NEW c \in idxClauses, c \in markView, NEW old, NEW new, MovesClause(c, old, new)
  PROVE  /\ \A d \in markView :
              markIdx[d] = new <=> Read(d) = Append(Read(c), LitAt(pos))
         /\ ~Treated(c) /\ old # ownBucket /\ new # ownBucket
         /\ Read(c) \in Seq(Int) /\ Append(Read(c), LitAt(pos)) # <<LitAt(pos)>>
         /\ \A d \in Idx : \A q : Read(d) = Append(q, LitAt(pos)) /\ q \in Seq(Int) => Treated(d)
         /\ \A q : q \in Seq(Int) /\ Append(q, LitAt(pos)) = Append(Read(c), LitAt(pos)) => q = Read(c)
<1> DEFINE l == LitAt(pos)
           r == Append(Read(c), l)
<1>1. /\ ~Idle /\ TypeOK /\ TileInv /\ QueueInv /\ MetInv /\ MembersInv /\ CutInv
      /\ pos # 0 /\ l \in Int /\ c \in Idx /\ ownBucket \in {-1} \cup Buckets
  BY BusyFacts
<1>2. /\ old = markIdx[c] /\ old \in Buckets /\ new \in Nat \ {0} /\ new # old
      /\ IF WasCut(old) THEN new = refCutBucket[old] /\ new \in Buckets
                        ELSE new \notin Buckets
  BY DEF MovesClause
<1>3. ~Treated(c)
  BY DEF Treated
<1>4. \A d \in Idx : /\ Read(d) \in Seq(Int)
                     /\ Treated(d) <=> l \in {Read(d)[k] : k \in DOMAIN Read(d)}
  BY <1>1, ReadFacts
<1>5. ASSUME NEW q \in Seq(Int)
      PROVE  Len(Append(q, l)) = Len(q) + 1 /\ Len(q) \in Nat /\ Append(q, l)[Len(q) + 1] = l
             /\ Len(q) + 1 \in DOMAIN Append(q, l)
             /\ \A k \in 1 .. Len(q) : Append(q, l)[k] = q[k]
  <2>1. /\ Append(q, l) \in Seq(Int) /\ Len(q) \in Nat /\ Len(Append(q, l)) = Len(q) + 1
        /\ Append(q, l)[Len(q) + 1] = l /\ \A k \in 1 .. Len(q) : Append(q, l)[k] = q[k]
    <3> HIDE DEF l
    <3> QED
      BY <1>1, PushFacts
  <2>2. DOMAIN Append(q, l) = 1 .. Len(Append(q, l))
    <3> HIDE DEF l
    <3> QED
      BY <2>1, LenProperties
  <2>3. Len(q) + 1 \in 1 .. Len(q) + 1
    BY <2>1
  <2> QED
    BY <2>1, <2>2, <2>3
<1>6. \A d \in Idx : \A q : Read(d) = Append(q, l) /\ q \in Seq(Int) => Treated(d)
  <2>1. ASSUME NEW d \in Idx, NEW q, Read(d) = Append(q, l), q \in Seq(Int)
        PROVE  Treated(d)
    <3>1. l \in {Read(d)[k] : k \in DOMAIN Read(d)}
      BY <1>5, <2>1
    <3> QED
      BY <1>4, <3>1
  <2> QED
    BY <2>1
<1>7. old # ownBucket
  <2>1. ASSUME old = ownBucket
        PROVE  FALSE
    <3>1. Read(c) = <<l>>
      BY <1>1, <1>2, <2>1 DEF CutInv
    <3>2. l \in {Read(c)[k] : k \in DOMAIN Read(c)}
      BY <3>1
    <3> QED
      BY <1>1, <1>3, <1>4, <3>2
  <2> QED
    BY <2>1
<1>8. new # ownBucket
  BY <1>1, <1>2 DEF CutInv
<1>9. Read(c) \in Seq(Int) /\ Read(c) # <<>>
  BY <1>1, <1>4 DEF MetInv
<1>10. r # <<l>>
  <2>1. Len(Read(c)) \in Nat /\ Len(Read(c)) # 0 /\ Len(r) = Len(Read(c)) + 1
    BY <1>5, <1>9, EmptySeq
  <2>2. Len(<<l>>) = 1
    OBVIOUS
  <2>3. Len(r) # 1
    <3> HIDE DEF r
    <3> QED
      BY <2>1
  <2> HIDE DEF r, l
  <2> QED
    BY <2>2, <2>3
<1>11. \A q : q \in Seq(Int) /\ Append(q, l) = r => q = Read(c)
  <2>1. ASSUME NEW q \in Seq(Int), Append(q, l) = r
        PROVE  q = Read(c)
    <3>1. Len(q) = Len(Read(c)) /\ Len(q) \in Nat
      BY <1>5, <1>9, <2>1
    <3>2. \A k \in 1 .. Len(q) : q[k] = Read(c)[k]
      BY <1>5, <1>9, <2>1, <3>1
    <3> DEFINE t == Read(c)
    <3>3. t \in Seq(Int) /\ Len(q) = Len(t) /\ \A k \in 1 .. Len(q) : q[k] = t[k]
      BY <1>9, <3>1, <3>2
    <3> HIDE DEF t
    <3>4. q = t
      BY <3>3, SeqEqual
    <3> QED
      BY <3>4 DEF t
  <2> QED
    BY <2>1
<1>12. ASSUME NEW d \in markView
       PROVE  markIdx[d] = new <=> Read(d) = r
  <2>1. d \in Idx /\ markIdx[d] \in Buckets
    BY <1>1 DEF TypeOK, MembersInv
  <2>2. Treated(d) => (Read(d) = r <=> refCutBucket[old] = markIdx[d])
    BY <1>1, <1>2, <1>3 DEF CutInv
  <2>3. Read(d) = r => Treated(d)
    BY <1>6, <1>9, <2>1
  <2>4. CASE WasCut(old)
    <3>1. markIdx[d] = new => Treated(d)
      <4>1. \A e \in Members(refCutBucket[old]) : Treated(e)
        BY <1>1, <1>2, <2>4 DEF CutInv
      <4> QED
        BY <1>2, <2>4, <4>1 DEF Members
    <3> QED
      BY <1>2, <2>2, <2>3, <2>4, <3>1
  <2>5. CASE ~WasCut(old)
    <3>1. markIdx[d] # new
      BY <1>2, <2>1, <2>5
    <3>2. ASSUME Read(d) = r
          PROVE  FALSE
      <4>1. old = markIdx[d]
        BY <2>2, <2>3, <2>5, <3>2 DEF WasCut
      <4>2. Read(d) = Read(c)
        BY <1>1, <1>2, <4>1 DEF MembersInv
      <4>3. Len(r) = Len(Read(c)) + 1 /\ Len(Read(c)) \in Nat
        BY <1>5, <1>9
      <4> HIDE DEF r
      <4> QED
        BY <3>2, <4>2, <4>3
    <3> QED
      BY <3>1, <3>2
  <2> QED
    BY <2>4, <2>5
<1> QED
  BY <1>3, <1>6, <1>7, <1>8, <1>9, <1>10, <1>11, <1>12

\* A further literal takes its clause, and one slot, to another interval.
LEMMA FurtherStep ==
  ASSUME IInv, NEW c \in Idx, FurtherLiteral(c)
  PROVE  IInv'
<1> DEFINE V == vecBucketSortIntervalle
           R == refCutBucket
           D == Len(distrib)
           l == LitAt(pos)
           r == Append(Read(c), l)
<1>1. /\ c \in idxClauses /\ c \in markView
      /\ idxClauses' = idxClauses \ {c}
      /\ UNCHANGED <<component, clauses, markView, mustUnMark, pos, ownBucket, calls>>
  BY Zenon DEF FurtherLiteral
<1>2. /\ ~Idle /\ TypeOK /\ MarkedNoted /\ TileInv /\ QueueInv /\ MetInv /\ MembersInv /\ CutInv
      /\ pos # 0 /\ NbIntervals \in Nat /\ D \in Nat /\ l \in Int
      /\ ownBucket \in {-1} \cup Buckets
  BY <1>1, BusyFacts
<1>3. PICK old, new, s : MovesClause(c, old, new) /\ MovesSlot(old, new, s) /\ WritesSlot(c, s)
  BY FurtherFacts
<1>4. /\ old = markIdx[c] /\ old \in Buckets /\ new \in Nat \ {0} /\ new # old
      /\ Buckets' = Buckets \cup {new}
      /\ IF WasCut(old) THEN new = R[old] /\ new \in Buckets ELSE new \notin Buckets
      /\ markIdx' = [markIdx EXCEPT ![c] = new]
      /\ R' \in [Buckets' -> Buckets']
      /\ R'[old] = new /\ R'[new] = new
      /\ \A b \in Buckets : b # old => R'[b] = R[b]
  BY <1>3 DEF MovesClause
<1>5. /\ s \in Nat /\ V[old].start = s /\ s + 1 <= V[old].end
      /\ V' \in Seq(Interval)
      /\ \A b \in Buckets : b # old /\ b # new => V'[b] = V[b]
      /\ V'[old].start = s + 1 /\ V'[old].end = V[old].end
      /\ V'[new].start = (IF WasCut(old) THEN V[new].start ELSE s) /\ V'[new].end = s + 1
      /\ WasCut(old) => V[new].end = s
  BY <1>3 DEF MovesSlot
<1>6. /\ distrib' \in Seq(Seq(Int)) /\ Len(distrib') = D
      /\ s + 1 \in 1 .. D /\ distrib'[s + 1] = r
      /\ \A j \in 1 .. D : j # s + 1 => distrib'[j] = distrib[j]
  BY <1>3 DEF WritesSlot
<1>7. /\ \A d \in markView : markIdx[d] = new <=> Read(d) = r
      /\ ~Treated(c) /\ old # ownBucket /\ new # ownBucket
      /\ Read(c) \in Seq(Int) /\ r # <<l>>
      /\ \A d \in Idx : \A q : Read(d) = Append(q, l) /\ q \in Seq(Int) => Treated(d)
      /\ \A q : q \in Seq(Int) /\ Append(q, l) = r => q = Read(c)
  BY <1>1, <1>3, MovedFacts
<1>8. /\ Read(c)' = r
      /\ \A d \in Idx : d # c => Read(d)' = Read(d)
      /\ Treated(c)'
      /\ \A d \in Idx : d # c => (Treated(d)' <=> Treated(d))
  BY <1>1, <1>2, ReadTreat
<1>9. /\ \A d \in markView : d # c => /\ d \in Idx /\ markIdx'[d] = markIdx[d] /\ Read(d)' = Read(d)
                                      /\ Treated(d)' <=> Treated(d)
      /\ \A d \in markView : d \in Idx /\ markIdx[d] \in Buckets /\ Read(d) \in Seq(Int)
      /\ markIdx'[c] = new
  <2>1. \A d \in markView : d \in Idx /\ markIdx[d] \in Buckets
    BY <1>2 DEF TypeOK, MembersInv
  <2>2. \A d \in markView : Read(d) \in Seq(Int)
    BY <1>2, <2>1, ReadFacts
  <2>3. markIdx'[c] = new /\ \A d \in Idx : d # c => markIdx'[d] = markIdx[d]
    BY <1>2, <1>4 DEF TypeOK
  <2> QED
    BY <1>8, <2>1, <2>2, <2>3
<1>10. l' = l /\ NbLit' = NbLit /\ ToSet(component)' = ToSet(component)
  BY <1>1 DEF LitAt, NbLit, ToSet
<1>11. ~Idle'
  BY <1>1, <1>2, <1>10 DEF Idle
<1>12. TypeOK'
  <2>1. markIdx' \in [Idx -> Int] /\ markView' \subseteq Idx /\ idxClauses' \subseteq Idx
    BY <1>1, <1>2, <1>4 DEF TypeOK
  <2>2. refCutBucket' \in [Buckets' -> Buckets'] /\ V' \in Seq(Interval) /\ distrib' \in Seq(Seq(Int))
    BY <1>4, <1>5, <1>6
  <2> QED
    BY <1>1, <1>2, <1>10, <2>1, <2>2 DEF TypeOK, Increasing, Interval, LitsOver
<1>13. MarkedNoted'
  BY <1>1, <1>2, <1>11 DEF MarkedNoted
<1>14. QueueInv'
  <2>1. \A d \in idxClauses' : l \in Residual(d)
    BY <1>1, <1>2 DEF QueueInv
  <2>2. \A d : Residual(d)' = Residual(d)
    BY <1>1 DEF Residual
  <2> QED
    BY <1>1, <1>2, <1>4, <1>10, <2>1, <2>2 DEF QueueInv
<1>15. MetInv'
  <2>1. r # <<>>
    <3> DEFINE q == Read(c)
    <3>1. q \in Seq(Int) /\ l \in Int
      BY <1>2, <1>7
    <3> HIDE DEF q, l
    <3>2. Append(q, l) # <<>>
      <4>1. Len(Append(q, l)) = Len(q) + 1 /\ Len(q) \in Nat
        BY <3>1, PushFacts
      <4>2. Len(<<>>) = 0
        OBVIOUS
      <4> QED
        BY <4>1, <4>2
    <3> QED
      BY <3>2 DEF q
  <2>2. ASSUME NEW d \in Idx
        PROVE  d \in markView' <=> Read(d)' # <<>>
    <3>1. CASE d = c
      BY <1>1, <1>8, <2>1, <3>1
    <3>2. CASE d # c
      BY <1>1, <1>2, <1>8, <3>2 DEF MetInv
    <3> QED
      BY <3>1, <3>2
  <2> QED
    BY <2>2 DEF MetInv
<1> HIDE DEF r, l, D, V, R
<1> DEFINE N == IF WasCut(old) THEN Slots(new) ELSE {}
           M == IF WasCut(old) THEN Members(new) ELSE {}
<1>16. \A b \in Buckets : V[b].start \in Nat /\ V[b].end \in Nat /\ V[b].start <= V[b].end /\ V[b].end <= D
  <2>1. \A b \in Buckets : V[b] \in Interval
    BY <1>2, ElementOfSeq DEF TypeOK, Buckets, NbIntervals, V
  <2> QED
    BY <1>2, <2>1 DEF TileInv, Interval, V, D
<1>17. /\ \A b \in Buckets : b # old /\ b # new => Slots(b)' = Slots(b) /\ Members(b)' = Members(b)
       /\ Slots(old) = Slots(old)' \cup {s + 1} /\ s + 1 \notin Slots(old)'
       /\ Slots(new)' = N \cup {s + 1} /\ s + 1 \notin N
       /\ Members(old)' = Members(old) \ {c} /\ c \in Members(old)
       /\ Members(new)' = M \cup {c} /\ c \notin M
  <2>1. \A b : /\ Slots(b) = V[b].start + 1 .. V[b].end
               /\ Slots(b)' = V'[b].start + 1 .. V'[b].end
               /\ Members(b) = {d \in markView : markIdx[d] = b}
               /\ Members(b)' = {d \in markView : markIdx'[d] = b}
    BY <1>1 DEF Slots, V, Members
  <2>2. ASSUME NEW b \in Buckets, b # old, b # new
        PROVE  Slots(b)' = Slots(b) /\ Members(b)' = Members(b)
    <3>1. Slots(b)' = Slots(b)
      BY <1>5, <2>1, <2>2
    <3>2. \A d \in markView : markIdx'[d] = b <=> markIdx[d] = b
      BY <1>4, <1>9, <2>2
    <3> QED
      BY <2>1, <3>1, <3>2
  <2>3. Slots(old) = Slots(old)' \cup {s + 1} /\ s + 1 \notin Slots(old)'
    <3>1. V[old].end \in Nat
      BY <1>4, <1>16
    <3>2. s + 1 .. V[old].end = (s + 1 + 1 .. V[old].end) \cup {s + 1} /\ s + 1 \notin s + 1 + 1 .. V[old].end
      BY <1>5, <3>1
    <3> QED
      BY <1>5, <2>1, <3>2
  <2>4. Slots(new)' = N \cup {s + 1} /\ s + 1 \notin N
    <3>1. CASE WasCut(old)
      <4>1. V[new].start \in Nat /\ V[new].start <= s /\ V[new].end = s
        BY <1>4, <1>5, <1>16, <3>1
      <4>2. V[new].start + 1 .. s + 1 = (V[new].start + 1 .. s) \cup {s + 1} /\ s + 1 \notin V[new].start + 1 .. s
        <5>1. \A a \in Nat : a <= s => a + 1 .. s + 1 = (a + 1 .. s) \cup {s + 1} /\ s + 1 \notin a + 1 .. s
          BY <1>5
        <5> QED
          BY <4>1, <5>1
      <4> QED
        BY <1>5, <2>1, <3>1, <4>1, <4>2
    <3>2. CASE ~WasCut(old)
      <4>1. s + 1 .. s + 1 = {s + 1}
        BY <1>5
      <4> QED
        BY <1>5, <2>1, <3>2, <4>1
    <3> QED
      BY <3>1, <3>2
  <2>5. Members(old)' = Members(old) \ {c} /\ c \in Members(old)
    <3>1. \A d \in markView : markIdx'[d] = old <=> markIdx[d] = old /\ d # c
      BY <1>4, <1>9
    <3> QED
      BY <1>1, <1>4, <2>1, <3>1
  <2>6. Members(new)' = M \cup {c} /\ c \notin M
    <3>1. \A d \in markView : markIdx'[d] = new <=> markIdx[d] = new \/ d = c
      BY <1>9
    <3>2. ~WasCut(old) => Members(new) = {}
      BY <1>4, <1>9, <2>1
    <3> QED
      BY <1>1, <1>4, <2>1, <3>1, <3>2
  <2> QED
    BY <2>2, <2>3, <2>4, <2>5, <2>6
<1>18. \A b \in Buckets : \A j \in Slots(b) : j \in 1 .. D
  BY <1>2, <1>16 DEF Slots, V
<1>19. s + 1 \in Slots(old) /\ \A b \in Buckets : s + 1 \in Slots(b) => b = old
  <2>1. s + 1 \in Slots(old)
    BY <1>17
  <2> QED
    BY <1>2, <1>4, <2>1 DEF TileInv
<1> HIDE DEF N, M
<1>20. WasCut(old) => N = Slots(new) /\ M = Members(new)
  BY DEF N, M
<1>21. ~WasCut(old) => N = {} /\ M = {}
  BY DEF N, M
<1>22. TileInv'
  <2>1. ASSUME NEW b \in Buckets'
        PROVE  V'[b].start <= V'[b].end /\ V'[b].end <= D
    <3>1. CASE b = old
      BY <1>4, <1>5, <1>16, <3>1
    <3>2. CASE b = new
      <4>1. V'[new].start \in Nat /\ V'[new].start <= s
        BY <1>4, <1>5, <1>16
      <4>2. V[old].end \in Nat /\ V[old].end <= D
        BY <1>4, <1>16
      <4> QED
        BY <1>2, <1>5, <3>2, <4>1, <4>2
    <3>3. CASE b # old /\ b # new
      <4>1. b \in Buckets /\ V'[b] = V[b]
        BY <1>4, <1>5, <3>3
      <4> QED
        BY <1>16, <4>1
    <3> QED
      BY <3>1, <3>2, <3>3
  <2>2. ASSUME NEW j \in 1 .. D
        PROVE  \E b \in Buckets' : j \in Slots(b)'
    <3>1. CASE j = s + 1
      BY <1>4, <1>17, <3>1
    <3>2. CASE j # s + 1
      <4>1. PICK b \in Buckets : j \in Slots(b)
        BY <1>2 DEF TileInv, D
      <4>2. j \in Slots(b)'
        <5>1. CASE b = old
          BY <1>17, <3>2, <4>1, <5>1
        <5>2. CASE b = new
          BY <1>4, <1>17, <1>20, <4>1, <5>2
        <5>3. CASE b # old /\ b # new
          BY <1>17, <4>1, <5>3
        <5> QED
          BY <5>1, <5>2, <5>3
      <4> QED
        BY <1>4, <4>2
    <3> QED
      BY <3>1, <3>2
  <2>3. ASSUME NEW b \in Buckets', NEW j \in Slots(b)'
        PROVE  IF j = s + 1 THEN b = new ELSE b \in Buckets /\ j \in Slots(b)
    <3>1. CASE b = old
      BY <1>4, <1>17, <3>1, <2>3
    <3>2. CASE b = new
      BY <1>4, <1>17, <1>20, <1>21, <3>2, <2>3
    <3>3. CASE b # old /\ b # new
      BY <1>4, <1>17, <1>19, <3>3, <2>3
    <3> QED
      BY <3>1, <3>2, <3>3
  <2>4. ASSUME NEW a \in Buckets', NEW b \in Buckets', NEW j \in Slots(a)', j \in Slots(b)'
        PROVE  a = b
    <3>1. CASE j = s + 1
      BY <2>3, <2>4, <3>1
    <3>2. CASE j # s + 1
      <4>1. a \in Buckets /\ b \in Buckets /\ j \in Slots(a) /\ j \in Slots(b)
        BY <2>3, <2>4, <3>2
      <4> QED
        BY <1>2, <4>1 DEF TileInv
    <3> QED
      BY <3>1, <3>2
  <2>5. Len(distrib') = D
    BY <1>6
  <2> QED
    BY <2>1, <2>2, <2>4, <2>5 DEF TileInv, V
<1>23. \A d \in markView : markIdx'[d] = new <=> Read(d)' = r
  BY <1>7, <1>8, <1>9
<1>24. MembersInv'
  <2>1. \A d \in markView' : markIdx'[d] \in Buckets'
    BY <1>1, <1>4, <1>9
  <2>2. \A b \in Buckets : Cardinality(Members(b)) = V[b].end - V[b].start /\ IsFiniteSet(Members(b))
    <3>1. \A b \in Buckets : Members(b) \subseteq Idx
      BY <1>2 DEF Members, TypeOK
    <3> QED
      BY <1>2, <3>1, IdxAssumption, FS_Subset DEF MembersInv, V
  <2>3. ASSUME NEW b \in Buckets'
        PROVE  Cardinality(Members(b))' = V'[b].end - V'[b].start
    <3>0. Cardinality(Members(b))' = Cardinality(Members(b)')
      OBVIOUS
    <3>1. CASE b # old /\ b # new
      <4>1. b \in Buckets
        BY <1>4, <3>1
      <4> QED
        BY <1>5, <1>17, <2>2, <3>0, <3>1, <4>1
    <3>2. CASE b = old
      <4> DEFINE m == Members(old)
      <4>1. IsFiniteSet(m) /\ c \in m /\ Cardinality(m) = V[old].end - s
        BY <1>4, <1>5, <1>17, <2>2
      <4>2. Cardinality(m \ {c}) = Cardinality(m) - 1
        <5> HIDE DEF m
        <5> QED
          BY <4>1, FS_RemoveElement
      <4>3. Members(b)' = m \ {c}
        BY <1>17, <3>2 DEF Members
      <4>4. V[old].end \in Nat
        BY <1>4, <1>16
      <4> HIDE DEF m
      <4> QED
        BY <1>5, <3>0, <3>2, <4>1, <4>2, <4>3, <4>4
    <3>3. CASE b = new
      <4>1. IsFiniteSet(M) /\ c \notin M
        <5>1. IsFiniteSet({})
          BY FS_EmptySet
        <5>2. WasCut(old) => IsFiniteSet(Members(new))
          BY <1>4, <2>2
        <5>3. M = {} \/ (WasCut(old) /\ M = Members(new))
          BY <1>20, <1>21
        <5> QED
          BY <1>17, <5>1, <5>2, <5>3
      <4>2. Cardinality(M \cup {c}) = Cardinality(M) + 1
        BY <4>1, FS_AddElement
      <4>3. Members(b)' = M \cup {c}
        BY <1>17, <3>3 DEF Members
      <4>4. Cardinality(M) = s - V'[new].start
        <5>1. CASE WasCut(old)
          BY <1>4, <1>5, <1>20, <2>2, <5>1
        <5>2. CASE ~WasCut(old)
          <6>1. Cardinality({}) = 0
            BY FS_EmptySet
          <6>2. M = {} /\ V'[new].start = s
            BY <1>5, <1>21, <5>2
          <6> QED
            BY <1>5, <6>1, <6>2
        <5> QED
          BY <5>1, <5>2
      <4>5. V'[new].start \in Nat
        BY <1>4, <1>5, <1>16
      <4> QED
        <5> DEFINE k2 == Cardinality(M)
                   k3 == V'[new].start
        <5>1. Cardinality(Members(b))' = k2 + 1 /\ k2 = s - k3 /\ k3 \in Nat /\ s \in Nat
          BY <1>5, <3>0, <4>2, <4>3, <4>4, <4>5
        <5>2. V'[b].end = s + 1 /\ V'[b].start = k3
          BY <1>5, <3>3
        <5> HIDE DEF k2, k3
        <5>3. k2 + 1 = s + 1 - k3
          BY <5>1
        <5>4. Cardinality(Members(b))' = s + 1 - k3
          BY <5>1, <5>3
        <5> QED
          BY <5>1, <5>2, <5>4
    <3> QED
      BY <3>1, <3>2, <3>3
  <2>4. \A j \in N : distrib[j] = r /\ j \in 1 .. D /\ j # s + 1
    <3>1. ASSUME NEW j \in N
          PROVE  distrib[j] = r /\ j \in 1 .. D
      <4>1. WasCut(old) /\ j \in Slots(new) /\ new \in Buckets
        BY <1>4, <1>20, <1>21, <3>1
      <4>2. Members(new) # {}
        <5>1. V[new].start + 1 <= V[new].end /\ V[new].start \in Nat /\ V[new].end \in Nat
          BY <1>16, <4>1 DEF Slots, V
        <5>2. Cardinality(Members(new)) # 0
          BY <2>2, <4>1, <5>1
        <5> QED
          BY <5>2, FS_EmptySet
      <4>3. PICK e \in markView : markIdx[e] = new
        BY <4>2 DEF Members
      <4>4. distrib[j] = Read(e)
        BY <1>2, <4>1, <4>3 DEF MembersInv
      <4>5. j \in 1 .. D
        BY <1>18, <4>1
      <4> QED
        BY <1>7, <4>3, <4>4, <4>5
    <3> QED
      BY <1>17, <3>1
  <2>5. \A j \in Slots(new)' : distrib'[j] = r
    <3>1. \A j \in N : distrib'[j] = r
      <4>1. ASSUME NEW j \in N
            PROVE  distrib'[j] = r
        <5>1. distrib[j] = r /\ j \in 1 .. D /\ j # s + 1
          BY <2>4
        <5>2. distrib'[j] = distrib[j]
          BY <1>6, <5>1
        <5> QED
          BY <5>1, <5>2
      <4> QED
        BY <4>1
    <3>2. distrib'[s + 1] = r
      BY <1>6
    <3>3. Slots(new)' = N \cup {s + 1}
      BY <1>17
    <3> QED
      BY <3>1, <3>2, <3>3
  <2>6. ASSUME NEW d \in markView, d # c, markIdx[d] # new
        PROVE  \A j \in Slots(markIdx[d])' : distrib'[j] = Read(d)'
    <3>1. markIdx'[d] = markIdx[d] /\ markIdx[d] \in Buckets /\ Read(d)' = Read(d)
      BY <1>9, <2>6
    <3>2. \A j \in Slots(markIdx[d]) : distrib[j] = Read(d) /\ j \in 1 .. D
      BY <1>2, <1>18, <3>1 DEF MembersInv
    <3>3. PICK b : b = markIdx[d]
      OBVIOUS
    <3>4. Slots(markIdx[d])' = Slots(b)'
      BY <3>1, <3>3 DEF Slots
    <3>5. \A j \in Slots(b)' : j \in Slots(b) /\ j # s + 1
      <4>1. CASE b = old
        BY <1>17, <4>1
      <4>2. CASE b # old
        BY <1>17, <1>19, <2>6, <3>1, <3>3, <4>2
      <4> QED
        BY <4>1, <4>2
    <3> QED
      BY <1>6, <3>1, <3>2, <3>3, <3>4, <3>5
  <2>7. ASSUME NEW d \in markView, d = c \/ markIdx[d] = new
        PROVE  \A j \in Slots(markIdx[d])' : distrib'[j] = Read(d)'
    <3>1. markIdx'[d] = new /\ Read(d)' = r
      BY <1>8, <1>9, <1>23, <2>7
    <3>2. Slots(markIdx[d])' = Slots(new)'
      BY <3>1 DEF Slots
    <3> QED
      BY <2>5, <3>1, <3>2
  <2>8. ASSUME NEW d \in markView, NEW e \in markView
        PROVE  Read(d)' = Read(e)' <=> markIdx'[d] = markIdx'[e]
    <3>1. CASE d = c \/ e = c
      BY <1>8, <1>9, <1>23, <3>1
    <3>2. CASE d # c /\ e # c
      <4>1. Read(d) = Read(e) <=> markIdx[d] = markIdx[e]
        BY <1>2 DEF MembersInv
      <4> QED
        BY <1>9, <3>2, <4>1
    <3> QED
      BY <3>1, <3>2
  <2>9. \A d \in markView' : \A j \in Slots(markIdx[d])' : distrib'[j] = Read(d)'
    BY <1>1, <2>6, <2>7
  <2>10. \A d, e \in markView' : Read(d)' = Read(e)' <=> markIdx'[d] = markIdx'[e]
    BY <1>1, <2>8
  <2> QED
    BY <2>1, <2>3, <2>9, <2>10 DEF MembersInv, V
<1>25. CutInv'
  <2>0. /\ \A b \in Buckets : WasCut(b) <=> R[b] # b
        /\ \A b \in Buckets : R[b] \in Buckets
    BY <1>2 DEF WasCut, R, TypeOK
  <2>1. ASSUME NEW d \in markView
        PROVE  markIdx'[d] = ownBucket <=> Read(d)' = <<l>>
    <3>1. CASE d = c
      BY <1>7, <1>8, <1>9, <3>1
    <3>2. CASE d # c
      <4>1. markIdx[d] = ownBucket <=> Read(d) = <<l>>
        BY <1>2 DEF CutInv, l
      <4> QED
        BY <1>9, <3>2, <4>1
    <3> QED
      BY <3>1, <3>2
  <2>2. ownBucket # -1 => V'[ownBucket].end = D /\ R'[ownBucket] = ownBucket
    <3>1. ownBucket # -1 => ownBucket \in Buckets /\ V[ownBucket].end = D /\ ~WasCut(ownBucket)
      BY <1>2 DEF CutInv, V, D
    <3> QED
      BY <1>4, <1>5, <1>7, <2>0, <3>1
  <2>3. ASSUME NEW e \in markView, NEW d \in markView, ~Treated(e)', Treated(d)'
        PROVE  Read(d)' = Append(Read(e)', l) <=> R'[markIdx'[e]] = markIdx'[d]
    <3> DEFINE q == Read(e)
               m == markIdx[e]
    <3>1. e # c /\ ~Treated(e) /\ e \in Idx /\ m \in Buckets /\ markIdx'[e] = m /\ Read(e)' = q /\ q \in Seq(Int)
      BY <1>8, <1>9, <2>3
    <3>2. q = Read(c) <=> m = old
      BY <1>1, <1>2, <1>4 DEF MembersInv
    <3>3. CASE d = c
      <4>1. r = Append(q, l) <=> m = old
        BY <1>7, <3>1, <3>2 DEF r
      <4>2. ASSUME m # old
            PROVE  R[m] # new
        <5>1. R[m] \in Buckets
          BY <2>0, <3>1
        <5>2. ASSUME R[m] = new
              PROVE  FALSE
          <6>1. WasCut(old) /\ new = R[old]
            BY <1>4, <5>1, <5>2
          <6>2. CASE WasCut(m)
            BY <1>2, <1>4, <3>1, <4>2, <5>2, <6>1, <6>2 DEF CutInv, R
          <6>3. CASE ~WasCut(m)
            <7>1. m = R[old]
              BY <2>0, <3>1, <5>2, <6>1, <6>3
            <7>2. \A f \in Members(R[old]) : Treated(f)
              BY <1>2, <1>4, <6>1 DEF CutInv, R
            <7>3. e \in Members(R[old])
              BY <7>1 DEF Members
            <7> QED
              BY <3>1, <7>2, <7>3
          <6> QED
            BY <6>2, <6>3
        <5> QED
          BY <5>2
      <4>3. R'[m] = new <=> m = old
        BY <1>4, <3>1, <4>2
      <4> QED
        BY <1>8, <1>9, <3>1, <3>3, <4>1, <4>3
    <3>4. CASE d # c
      <4>1. Treated(d) /\ markIdx'[d] = markIdx[d] /\ Read(d)' = Read(d)
        BY <1>9, <2>3, <3>4
      <4>2. Read(d) = Append(q, l) <=> R[m] = markIdx[d]
        BY <1>2, <3>1, <4>1 DEF CutInv, l, R
      <4>3. CASE m # old
        BY <1>4, <3>1, <4>1, <4>2, <4>3
      <4>4. CASE m = old
        <5>1. Append(q, l) = r
          BY <3>2, <4>4 DEF r
        <5>2. R'[m] = new
          BY <1>4, <4>4
        <5>3. markIdx[d] = new <=> Read(d) = r
          BY <1>7
        <5> HIDE DEF q, m
        <5> QED
          BY <3>1, <4>1, <5>1, <5>2, <5>3
      <4> QED
        BY <4>3, <4>4
    <3> QED
      BY <3>3, <3>4
  <2>4. ASSUME NEW d \in markView, Treated(d)'
        PROVE  R'[markIdx'[d]] = markIdx'[d]
    <3>1. CASE d = c
      BY <1>4, <1>9, <3>1
    <3>2. CASE d # c
      <4>1. Treated(d) /\ markIdx'[d] = markIdx[d] /\ markIdx[d] \in Buckets
        BY <1>9, <2>4, <3>2
      <4>2. R[markIdx[d]] = markIdx[d]
        BY <1>2, <2>0, <4>1 DEF CutInv
      <4>3. markIdx[d] # old
        <5>1. ASSUME markIdx[d] = old
              PROVE  FALSE
          <6>1. Read(d) = Read(c)
            BY <1>1, <1>2, <1>4, <5>1 DEF MembersInv
          <6>2. c \in Idx /\ d \in Idx
            BY <1>9
          <6>3. Treated(d) <=> LitAt(pos) \in {Read(d)[k] : k \in DOMAIN Read(d)}
            BY <1>2, <6>2, ReadFacts
          <6>4. Treated(c) <=> LitAt(pos) \in {Read(c)[k] : k \in DOMAIN Read(c)}
            BY <1>2, <6>2, ReadFacts
          <6>5. Treated(c)
            BY <4>1, <6>1, <6>3, <6>4
          <6> QED
            BY <1>7, <6>5
        <5> QED
          BY <5>1
      <4> QED
        BY <1>4, <4>1, <4>2, <4>3
    <3> QED
      BY <3>1, <3>2
  <2>5. ASSUME NEW b \in Buckets', R'[b] # b, b # old
        PROVE  /\ b \in Buckets /\ b # new /\ R'[b] = R[b] /\ WasCut(b)
               /\ R[b] \in Buckets /\ R[b] # new /\ R[b] # old
               /\ R'[R[b]] = R[b] /\ R[b] # ownBucket
               /\ V'[R[b]].end = V'[b].start
               /\ \A d \in Members(R[b])' : Treated(d)'
    <3>1. b \in Buckets /\ b # new /\ R'[b] = R[b] /\ WasCut(b) /\ R[b] \in Buckets
      BY <1>4, <2>0, <2>5
    <3>2. /\ R[R[b]] = R[b] /\ R[b] # ownBucket
          /\ V[R[b]].end = V[b].start
          /\ \A d \in Members(R[b]) : Treated(d)
      <4>1. /\ ~WasCut(R[b]) /\ R[b] # ownBucket
            /\ V[R[b]].end = V[b].start
            /\ \A d \in Members(R[b]) : Treated(d)
        BY <1>2, <3>1 DEF CutInv, V, R
      <4> QED
        BY <2>0, <3>1, <4>1
    <3>3. R[b] # old
      BY <1>7, <1>17, <3>2
    <3>4. R[b] # new
      <4>1. WasCut(old) => R[b] # R[old]
        BY <1>2, <1>4, <2>5, <3>1 DEF CutInv, R
      <4> QED
        BY <1>4, <3>1, <4>1
    <3>5. R'[R[b]] = R[b]
      BY <1>4, <3>1, <3>2, <3>3
    <3>6. V'[R[b]] = V[R[b]] /\ V'[b] = V[b]
      BY <1>5, <2>5, <3>1, <3>3, <3>4
    <3>7. ASSUME NEW d \in markView, markIdx'[d] = R[b]
          PROVE  Treated(d)'
      <4>1. d # c /\ d \in Members(R[b])
        BY <1>9, <3>4, <3>7 DEF Members
      <4> QED
        BY <1>9, <3>2, <4>1
    <3>8. \A d \in Members(R[b])' : Treated(d)'
      <4>1. PICK t : t = R[b]
        OBVIOUS
      <4>2. Members(R[b])' = {d \in markView : markIdx'[d] = R'[b]}
        BY <1>1 DEF Members
      <4> QED
        BY <3>1, <3>7, <4>2
    <3> QED
      BY <3>1, <3>2, <3>3, <3>4, <3>5, <3>6, <3>8
  <2>6. /\ R'[old] = new /\ R'[new] = new /\ new # ownBucket /\ V'[new].end = V'[old].start
        /\ \A d \in markView : markIdx'[d] = new => Treated(d)'
    <3>1. \A d \in markView : markIdx'[d] = new => Treated(d)'
      <4>1. ASSUME NEW d \in markView, markIdx'[d] = new, d # c
            PROVE  Treated(d)'
        <5>1. Read(d) = r /\ d \in Idx
          BY <1>7, <1>9, <4>1
        <5>2. Treated(d)
          BY <1>7, <5>1 DEF r
        <5> QED
          BY <1>9, <4>1, <5>2
      <4> QED
        BY <1>8, <4>1
    <3> QED
      BY <1>4, <1>5, <1>7, <3>1
  <2>7. ASSUME NEW b \in Buckets', WasCut(b)'
        PROVE  /\ ~WasCut(refCutBucket[b])' /\ (refCutBucket[b])' # ownBucket'
               /\ (vecBucketSortIntervalle[refCutBucket[b]].end)' = (vecBucketSortIntervalle[b].start)'
               /\ \A d \in Members(refCutBucket[b])' : Treated(d)'
    <3>1. R'[b] # b
      BY <2>7 DEF WasCut, R
    <3>2. ownBucket' = ownBucket /\ markView' = markView
      BY <1>1
    <3>3. CASE b = old
      <4>1. refCutBucket'[b] = new /\ refCutBucket'[new] = new
        BY <2>6, <3>3 DEF R
      <4>2. \A d \in Members(refCutBucket[b])' : Treated(d)'
        BY <2>6, <3>2, <4>1 DEF Members
      <4>3. ~WasCut(refCutBucket[b])'
        BY <4>1 DEF WasCut
      <4>4. vecBucketSortIntervalle'[new].end = vecBucketSortIntervalle'[b].start
        BY <2>6, <3>3 DEF V
      <4> QED
        BY <2>6, <3>2, <4>1, <4>2, <4>3, <4>4
    <3>4. CASE b # old
      <4>1. /\ R'[b] = R[b] /\ R'[R[b]] = R[b] /\ R[b] # ownBucket
            /\ V'[R[b]].end = V'[b].start
            /\ \A d \in markView : markIdx'[d] = R[b] => Treated(d)'
        <5>1. /\ R'[b] = R[b] /\ R'[R[b]] = R[b] /\ R[b] # ownBucket
              /\ V'[R[b]].end = V'[b].start
          BY <2>5, <3>1, <3>4
        <5>2. \A d \in Members(R[b])' : Treated(d)'
          BY <2>5, <3>1, <3>4
        <5>3. Members(R[b])' = {d \in markView : markIdx'[d] = R'[b]}
          BY <1>1 DEF Members
        <5> QED
          BY <5>1, <5>2, <5>3
      <4>2. refCutBucket'[b] = R[b] /\ refCutBucket'[R[b]] = R[b]
        BY <4>1 DEF R
      <4>3. ~WasCut(refCutBucket[b])'
        BY <4>2 DEF WasCut
      <4>4. \A d \in Members(refCutBucket[b])' : Treated(d)'
        BY <3>2, <4>1, <4>2 DEF Members
      <4>5. vecBucketSortIntervalle'[refCutBucket'[b]].end = vecBucketSortIntervalle'[b].start
        BY <4>1, <4>2 DEF V
      <4> QED
        BY <3>2, <4>1, <4>2, <4>3, <4>4, <4>5
    <3> QED
      BY <3>3, <3>4
  <2>8. ASSUME NEW a \in Buckets', NEW b \in Buckets', R'[a] # a, R'[b] # b, R'[a] = R'[b]
        PROVE  a = b
    <3>1. CASE a # old /\ b # old
      BY <1>2, <2>5, <2>8, <3>1 DEF CutInv, R
    <3>2. CASE a = old \/ b = old
      BY <2>5, <2>6, <2>8, <3>2
    <3> QED
      BY <3>1, <3>2
  <2> QED
    <3>1. \A d \in markView' : markIdx'[d] = ownBucket' <=> Read(d)' = <<LitAt(pos)>>'
      BY <1>1, <1>10, <2>1 DEF l
    <3>2. pos' # 0 /\ ownBucket' # -1 =>
            vecBucketSortIntervalle'[ownBucket'].end = Len(distrib') /\ ~WasCut(ownBucket)'
      BY <1>1, <1>6, <2>2 DEF WasCut, V, R
    <3>3. \A e, d \in markView' : ~Treated(e)' /\ Treated(d)' =>
            (Read(d)' = Append(Read(e)', LitAt(pos)') <=> refCutBucket'[markIdx'[e]] = markIdx'[d])
      BY <1>1, <1>10, <2>3 DEF l, R
    <3>4. \A d \in markView' : Treated(d)' => ~WasCut(markIdx[d])'
      BY <1>1, <2>4 DEF WasCut, R
    <3>5. \A a, b \in Buckets' : WasCut(a)' /\ WasCut(b)' /\ refCutBucket'[a] = refCutBucket'[b] => a = b
      BY <2>8 DEF WasCut, R
    <3> QED
      BY <2>7, <3>1, <3>2, <3>3, <3>4, <3>5 DEF CutInv
<1> QED
  BY <1>12, <1>13, <1>14, <1>15, <1>22, <1>24, <1>25 DEF IInv

-----------------------------------------------------------------------------
(* The theorems.                                                           *)

\* The invariant says at least what the run's properties say.
LEMMA GroupsFollow ==
  ASSUME IInv
  PROVE  GroupsExact /\ ScratchClean
<1> DEFINE V == vecBucketSortIntervalle
<1>1. /\ DOMAIN distrib = 1 .. Len(distrib) /\ Len(distrib) \in Nat
      /\ DOMAIN V = Buckets /\ TypeOK /\ TileInv /\ MarkedNoted
  BY LenProperties DEF IInv, TypeOK, Buckets, NbIntervals
<1>2. \A b \in Buckets : V[b].start \in Nat /\ V[b].end \in Nat /\ V[b].start <= V[b].end /\ V[b].end <= Len(distrib)
  <2>1. \A b \in Buckets : V[b] \in Interval
    BY <1>1, ElementOfSeq DEF TypeOK, Buckets, NbIntervals
  <2> QED
    BY <1>1, <2>1 DEF TileInv, Interval
<1>3. ASSUME NEW b \in Buckets
      PROVE  Slots(b) \subseteq DOMAIN distrib /\ Cardinality(Slots(b)) = V[b].end - V[b].start
  <2>1. Slots(b) = V[b].start + 1 .. V[b].end
    BY DEF Slots
  <2> DEFINE x == V[b].start
             y == V[b].end
  <2>2. x \in Nat /\ y \in Nat /\ x <= y /\ y <= Len(distrib) /\ x + 1 \in Int /\ y \in Int
    BY <1>2
  <2> HIDE DEF x, y
  <2>3. Cardinality(x + 1 .. y) = y - x
    <3>1. Cardinality(x + 1 .. y) = IF x + 1 > y THEN 0 ELSE y - (x + 1) + 1
      BY <2>2, FS_Interval
    <3> QED
      BY <2>2, <3>1
  <2>4. x + 1 .. y \subseteq 1 .. Len(distrib)
    BY <1>1, <2>2
  <2> QED
    BY <1>1, <2>1, <2>3, <2>4 DEF x, y
<1>4. IntervalsPartition
  <2>1. \A j \in DOMAIN distrib : \E b \in DOMAIN V : j \in Slots(b)
    BY <1>1 DEF TileInv
  <2>2. \A a, b \in DOMAIN V : Slots(a) \cap Slots(b) # {} => a = b
    BY <1>1 DEF TileInv
  <2>3. ~Idle => \A b \in DOMAIN V :
          /\ Slots(b) \subseteq DOMAIN distrib
          /\ Cardinality(Members(b)) = Cardinality(Slots(b))
    BY <1>1, <1>3 DEF IInv, MembersInv
  <2> QED
    BY <2>1, <2>2, <2>3 DEF IntervalsPartition
<1>5. SlotsRead
  BY DEF IInv, MembersInv, SlotsRead
<1>6. ~Idle => \A c, d \in markView : Read(c) = Read(d) <=> markIdx[c] = markIdx[d]
  BY DEF IInv, MembersInv
<1>7. ScratchClean
  BY <1>1 DEF MarkedNoted, ScratchClean
<1> QED
  BY <1>4, <1>5, <1>6, <1>7 DEF GroupsExact

\* Nothing happens: the invariant stays.
LEMMA StutterStep ==
  ASSUME IInv, UNCHANGED vars
  PROVE  IInv'
<1>1. UNCHANGED <<component, clauses, vecBucketSortIntervalle, refCutBucket, distrib, markIdx, markView,
                 mustUnMark, pos, idxClauses, ownBucket, calls>>
  BY DEF vars, scratch
<1>2. /\ Buckets' = Buckets /\ NbIntervals' = NbIntervals /\ NbLit' = NbLit /\ (Idle' <=> Idle)
      /\ ToSet(component)' = ToSet(component) /\ LitAt(pos)' = LitAt(pos)
  BY <1>1 DEF Buckets, NbIntervals, NbLit, Idle, ToSet, LitAt
<1>3. TypeOK'
  BY <1>1, <1>2 DEF IInv, TypeOK, Increasing, LitsOver
<1>4. MarkedNoted' /\ TileInv'
  BY <1>1, <1>2 DEF IInv, MarkedNoted, TileInv, Slots
<1>5. \A b : Slots(b)' = Slots(b) /\ Members(b)' = Members(b) /\ (WasCut(b)' <=> WasCut(b))
  BY <1>1 DEF Slots, Members, WasCut
<1>6. \A c : Residual(c)' = Residual(c) /\ Read(c)' = Read(c) /\ (Treated(c)' <=> Treated(c))
  BY <1>1 DEF Residual, Read, Order, LitAt, Treated
<1>7. CASE ~Idle
  <2>1. QueueInv' /\ MetInv'
    BY <1>1, <1>2, <1>6, <1>7 DEF IInv, QueueInv, MetInv
  <2>2. MembersInv'
    BY <1>1, <1>2, <1>5, <1>6, <1>7 DEF IInv, MembersInv, Slots
  <2>3. CutInv'
    BY <1>1, <1>2, <1>5, <1>6, <1>7 DEF IInv, CutInv, Members, WasCut
  <2> QED
    BY <1>3, <1>4, <2>1, <2>2, <2>3 DEF IInv
<1>8. CASE Idle
  BY <1>2, <1>3, <1>4, <1>8 DEF IInv
<1> QED
  BY <1>7, <1>8

\* Whatever is asked for, in every state of the sort the invariant holds: the
\* intervals tile the slots, and the clauses are where collectDistrib and
\* createDistribWrTLit expect them.
THEOREM SortCorrect == Spec => []IInv
<1>1. Init => IInv
  BY InitInv
<1>2. IInv /\ [Next]_vars => IInv'
  <2> SUFFICES ASSUME IInv, [Next]_vars
               PROVE  IInv'
    OBVIOUS
  <2>1. CASE InitSortBucket
    BY <2>1, SortStep
  <2>2. CASE NextLiteral
    BY <2>2, NextLiteralStep
  <2>3. ASSUME NEW c \in Idx, FirstLiteral(c)
        PROVE  IInv'
    BY <2>3, FirstStep
  <2>4. ASSUME NEW c \in Idx, FurtherLiteral(c)
        PROVE  IInv'
    BY <2>4, FurtherStep
  <2>5. CASE EndCollect
    BY <2>5, EndStep
  <2>6. CASE UNCHANGED vars
    BY <2>6, StutterStep
  <2> QED
    BY <2>1, <2>2, <2>3, <2>4, <2>5, <2>6 DEF Next
<1> QED
  BY <1>1, <1>2, PTL DEF Spec

\* The intervals are disjoint, every slot of one holds what has been read of each of
\* its clauses, and clauses share an interval exactly if the same has been read of them.
THEOREM GroupsCorrect == Spec => []GroupsExact
<1>1. IInv => GroupsExact
  BY GroupsFollow
<1> QED
  BY <1>1, SortCorrect, PTL

\* A call that ends leaves no clause marked, so that the next one meets all of them.
THEOREM MarksCorrect == Spec => []ScratchClean
<1>1. IInv => ScratchClean
  BY GroupsFollow
<1> QED
  BY <1>1, SortCorrect, PTL

-----------------------------------------------------------------------------
(* What is collected: the order of the slots.  Two slots read clauses that *)
(* share an interval or differ in a literal read before the current one, or *)
(* in the current one, whose clauses move to the front of their interval.  *)

\* What has been read of a clause, as a set; the slots are in the order of what they read.
Met(c) == LitsOf(Read(c))
SlotsSorted == \A i, j \in DOMAIN distrib :
  i < j /\ distrib[i] # distrib[j] => Before(LitsOf(distrib[i]), LitsOf(distrib[j]))

KeyInv == IInv /\ (~Idle => SlotsSorted) /\ KeyExact

\* The literals of the first n turns of the loops.
LitsUpTo(n) == {LitAt(k) : k \in 1 .. n}

\* The place of a literal is its turn, and a clause holds only literals that have one.
LEMMA PlaceFacts ==
  ASSUME TypeOK
  PROVE  /\ \A n \in 1 .. NbLit : PlaceOf(LitAt(n)) = n
         /\ \A c \in Idx : Residual(c) \subseteq LitsUpTo(NbLit)
<1>1. NbLit \in Nat /\ \A m, n \in 1 .. NbLit : LitAt(m) = LitAt(n) => m = n
  BY LitFacts
<1>2. \A n \in 1 .. NbLit : PlaceOf(LitAt(n)) = n
  <2> SUFFICES ASSUME NEW n \in 1 .. NbLit
               PROVE  PlaceOf(LitAt(n)) = n
    OBVIOUS
  <2>1. PlaceOf(LitAt(n)) \in 1 .. NbLit /\ LitAt(PlaceOf(LitAt(n))) = LitAt(n)
    BY DEF PlaceOf
  <2> QED
    BY <1>1, <2>1
<1>3. ASSUME NEW c \in Idx, NEW l \in Residual(c)
      PROVE  l \in LitsUpTo(NbLit)
  <2>1. l \in LitsOver(ToSet(component)) /\ Len(component) \in Nat /\ DOMAIN component = 1 .. Len(component)
    BY LenProperties DEF Residual, TypeOK
  <2>2. PICK k \in 1 .. Len(component) : l = component[k] \/ l = -component[k]
    BY <2>1 DEF LitsOver, ToSet
  <2>3. /\ 2 * k - 1 \in 1 .. NbLit /\ 2 * k \in 1 .. NbLit
        /\ (2 * k - 1) % 2 = 1 /\ (2 * k) % 2 # 1
        /\ (2 * k - 1 + 1) \div 2 = k /\ (2 * k) \div 2 = k
    BY <2>1 DEF NbLit
  <2>4. LitAt(2 * k - 1) = component[k] /\ LitAt(2 * k) = -component[k]
    BY <2>3 DEF LitAt
  <2> QED
    BY <2>2, <2>3, <2>4 DEF LitsUpTo
<1> QED
  BY <1>2, <1>3

\* What has been read of a clause is determined by the set of its literals.
LEMMA MetFacts ==
  ASSUME TypeOK, ~Idle, NEW c \in Idx
  PROVE  /\ Met(c) \subseteq LitsUpTo(pos)
         /\ Met(c) = {l \in Residual(c) : ~(c \in idxClauses /\ l = LitAt(pos))} \cap LitsUpTo(pos)
         /\ Read(c) = Kept(Order(pos), Met(c))
         /\ Read(c) \in Seq(Int)
<1> DEFINE S == {l \in Residual(c) : ~(c \in idxClauses /\ l = LitAt(pos))}
<1>1. pos \in 0 .. NbLit /\ NbLit \in Nat /\ pos \in Nat /\ \A n \in 1 .. NbLit : LitAt(n) \in Int
  BY LitFacts DEF TypeOK, Idle
<1>2. Read(c) = Kept(Order(pos), S)
  BY DEF Read
<1> HIDE DEF S
<1>3. Order(pos) \in Seq(Int) /\ Len(Order(pos)) = pos /\ DOMAIN Order(pos) = 1 .. pos
      /\ \A k \in 1 .. pos : Order(pos)[k] = LitAt(k)
  <2>1. Order(pos) \in [1 .. pos -> Int]
    BY <1>1 DEF Order
  <2>2. \A k \in 1 .. pos : Order(pos)[k] = LitAt(k)
    BY DEF Order
  <2> QED
    BY <1>1, <2>1, <2>2, FunctionIsSeq
<1> PICK o : o = Order(pos)
  OBVIOUS
<1>4. o \in Seq(Int)
  BY <1>3
<1>5. /\ Kept(o, S) \in Seq(Int)
      /\ {Kept(o, S)[n] : n \in DOMAIN Kept(o, S)} = {o[n] : n \in DOMAIN o} \cap S
  BY <1>4, KeptFacts
<1>6. {o[n] : n \in DOMAIN o} = LitsUpTo(pos)
  BY <1>3 DEF LitsUpTo
<1>7. Met(c) = LitsUpTo(pos) \cap S
  BY <1>2, <1>5, <1>6 DEF Met, LitsOf
<1>8. Kept(o, S) = Kept(o, Met(c))
  <2>1. \A n \in 1 .. Len(o) : o[n] \in S <=> o[n] \in Met(c)
    BY <1>3, <1>6, <1>7
  <2> QED
    BY <2>1, KeptSame
<1> QED
  BY <1>2, <1>5, <1>7, <1>8 DEF S

\* One more literal, the last, does not change which of two clauses comes first,
\* unless it makes them equal.
LEMMA BeforeMore ==
  ASSUME TypeOK, NEW n \in 1 .. NbLit, NEW k, NEW m,
         k \subseteq LitsUpTo(n), m \subseteq LitsUpTo(n), LitAt(n) \notin k
  PROVE  /\ Before(k, m) => Before(k \cup {LitAt(n)}, m)
         /\ Before(m, k) /\ m # k \cup {LitAt(n)} => Before(m, k \cup {LitAt(n)})
         /\ Before(k \cup {LitAt(n)}, k)
         /\ m # {} /\ m # {LitAt(n)} => Before(m, {LitAt(n)})
<1> DEFINE l == LitAt(n)
<1>1. NbLit \in Nat /\ PlaceOf(l) = n /\ n \in Nat
  BY LitFacts, PlaceFacts
<1>2. \A x \in LitsUpTo(n) : PlaceOf(x) \in Nat /\ PlaceOf(x) <= n /\ x = LitAt(PlaceOf(x))
  <2> SUFFICES ASSUME NEW x \in LitsUpTo(n)
               PROVE  PlaceOf(x) \in Nat /\ PlaceOf(x) <= n /\ x = LitAt(PlaceOf(x))
    OBVIOUS
  <2>1. PICK j \in 1 .. n : x = LitAt(j)
    BY DEF LitsUpTo
  <2>2. j \in 1 .. NbLit
    BY <1>1
  <2>3. PlaceOf(x) = j
    BY <2>1, <2>2, PlaceFacts
  <2> QED
    BY <1>1, <2>1, <2>3
<1>3. \A x \in LitsUpTo(n) : PlaceOf(x) = n => x = l
  BY <1>2
<1> HIDE DEF l
<1>4. ASSUME Before(k, m)
      PROVE  Before(k \cup {l}, m)
  <2>1. PICK p \in k \ m : \A x \in (k \ m) \cup (m \ k) : PlaceOf(p) <= PlaceOf(x)
    BY <1>4 DEF Before
  <2>2. p \in (k \cup {l}) \ m /\ PlaceOf(p) <= PlaceOf(l)
    BY <1>1, <1>2, <2>1
  <2> QED
    BY <2>1, <2>2 DEF Before
<1>5. ASSUME Before(m, k), m # k \cup {l}
      PROVE  Before(m, k \cup {l})
  <2>1. PICK p \in m \ k : \A x \in (m \ k) \cup (k \ m) : PlaceOf(p) <= PlaceOf(x)
    BY <1>5 DEF Before
  <2>2. p # l
    <3> SUFFICES ASSUME p = l
                 PROVE  FALSE
      OBVIOUS
    <3>1. \A x \in (m \ k) \cup (k \ m) : PlaceOf(x) <= n /\ n <= PlaceOf(x) /\ PlaceOf(x) \in Nat
      BY <1>1, <1>2, <2>1
    <3>2. \A x \in (m \ k) \cup (k \ m) : x = l
      BY <1>1, <1>3, <3>1
    <3> QED
      BY <1>5, <2>1, <3>2 DEF l
  <2>3. p \in m \ (k \cup {l}) /\ PlaceOf(p) <= PlaceOf(l)
    BY <1>1, <1>2, <2>1, <2>2
  <2> QED
    BY <2>1, <2>3 DEF Before
<1>6. Before(k \cup {l}, k)
  <2>1. l \in (k \cup {l}) \ k /\ ((k \cup {l}) \ k) \cup (k \ (k \cup {l})) = {l}
    BY DEF l
  <2> QED
    BY <1>1, <2>1 DEF Before
<1>7. ASSUME m # {}, m # {l}
      PROVE  Before(m, {l})
  <2> DEFINE T == {PlaceOf(x) : x \in m \ {l}}
  <2>1. T \subseteq Nat /\ T # {}
    BY <1>2, <1>7
  <2> HIDE DEF T
  <2>2. PICK t \in T : \A y \in T : t <= y
    BY <2>1, LeastNumber
  <2>3. PICK p \in m \ {l} : t = PlaceOf(p)
    BY DEF T
  <2>4. \A x \in m \ {l} : PlaceOf(p) <= PlaceOf(x)
    BY <2>2, <2>3 DEF T
  <2>5. PlaceOf(p) <= PlaceOf(l)
    BY <1>1, <1>2
  <2> QED
    BY <2>3, <2>4, <2>5 DEF Before
<1> QED
  BY <1>4, <1>5, <1>6, <1>7 DEF l

\* Every slot reads what has been read of a clause of its interval.
LEMMA SlotReads ==
  ASSUME IInv, ~Idle
  PROVE  /\ DOMAIN distrib = 1 .. Len(distrib) /\ Len(distrib) \in Nat
         /\ \A b \in Buckets : /\ vecBucketSortIntervalle[b].start \in Nat /\ vecBucketSortIntervalle[b].end \in Nat
                              /\ vecBucketSortIntervalle[b].end <= Len(distrib)
         /\ \A b \in Buckets : \A i \in Slots(b) :
              \E c \in markView : c \in Idx /\ markIdx[c] = b /\ distrib[i] = Read(c)
         /\ \A i \in DOMAIN distrib :
              \E c \in markView : c \in Idx /\ i \in Slots(markIdx[c]) /\ distrib[i] = Read(c)
<1> DEFINE V == vecBucketSortIntervalle
<1>1. /\ DOMAIN distrib = 1 .. Len(distrib) /\ Len(distrib) \in Nat
      /\ TypeOK /\ TileInv /\ MembersInv
  BY LenProperties DEF IInv, TypeOK
<1>2. \A b \in Buckets : V[b].start \in Nat /\ V[b].end \in Nat /\ V[b].end <= Len(distrib)
  <2>1. \A b \in Buckets : V[b] \in Interval
    BY <1>1, ElementOfSeq DEF TypeOK, Buckets, NbIntervals
  <2> QED
    BY <1>1, <2>1 DEF TileInv, Interval
<1>3. ASSUME NEW b \in Buckets, NEW i \in Slots(b)
      PROVE  \E c \in markView : c \in Idx /\ markIdx[c] = b /\ distrib[i] = Read(c)
  <2>1. V[b].end - V[b].start # 0
    BY <1>2 DEF Slots
  <2>2. Members(b) # {}
    <3> SUFFICES ASSUME Members(b) = {}
                 PROVE  FALSE
      OBVIOUS
    <3>1. Cardinality(Members(b)) = 0
      BY FS_EmptySet
    <3> QED
      BY <1>1, <2>1, <3>1 DEF MembersInv
  <2>3. PICK c \in markView : markIdx[c] = b
    BY <2>2 DEF Members
  <2> QED
    BY <1>1, <2>3 DEF MembersInv, TypeOK
<1>4. ASSUME NEW i \in DOMAIN distrib
      PROVE  \E c \in markView : c \in Idx /\ i \in Slots(markIdx[c]) /\ distrib[i] = Read(c)
  <2>1. PICK b \in Buckets : i \in Slots(b)
    BY <1>1 DEF TileInv
  <2> QED
    BY <1>3, <2>1
<1> QED
  BY <1>1, <1>2, <1>3, <1>4

\* The order of two clauses depends on the component only.
LEMMA BeforeSame ==
  ASSUME UNCHANGED component
  PROVE  /\ NbLit' = NbLit
         /\ \A n : LitAt(n)' = LitAt(n)
         /\ \A l : PlaceOf(l)' = PlaceOf(l)
<1>1. NbLit' = NbLit /\ \A n : LitAt(n)' = LitAt(n)
  BY DEF NbLit, LitAt
<1> QED
  BY <1>1 DEF PlaceOf

\* The first literal of a clause: its slot is the last.
LEMMA FirstSorted ==
  ASSUME IInv, SlotsSorted, NEW c \in Idx, FirstLiteral(c)
  PROVE  SlotsSorted'
<1> DEFINE D == Len(distrib)
           l == LitAt(pos)
<1>1. c \in idxClauses /\ UNCHANGED <<component, clauses, pos>> /\ distrib' = Append(distrib, <<l>>)
  BY DEF FirstLiteral
<1>2. ~Idle /\ TypeOK /\ QueueInv /\ MetInv /\ pos \in 1 .. NbLit /\ l \in Int /\ distrib \in Seq(Seq(Int))
  BY <1>1, BusyFacts DEF TypeOK
<1>3. DOMAIN distrib = 1 .. D /\ D \in Nat
  BY <1>2, SlotReads
<1> HIDE DEF l
<1>4. <<l>> \in Seq(Int)
  BY <1>2
<1>5. DOMAIN distrib' = 1 .. D + 1 /\ distrib'[D + 1] = <<l>> /\ \A j \in 1 .. D : distrib'[j] = distrib[j]
  BY <1>1, <1>2, <1>3, <1>4, PushFacts
<1>6. LitsOf(<<l>>) = {l}
  BY DEF LitsOf
<1>7. ASSUME NEW i \in 1 .. D, distrib[i] # <<l>>
      PROVE  Before(LitsOf(distrib[i]), {l})
  <2>1. PICK d \in markView : d \in Idx /\ distrib[i] = Read(d)
    BY <1>2, <1>3, SlotReads
  <2>2. Met(d) \subseteq LitsUpTo(pos) /\ Read(d) = Kept(Order(pos), Met(d)) /\ Read(d) \in Seq(Int)
    BY <1>2, <2>1, MetFacts
  <2>3. Read(c) \in Seq(Int) /\ Met(c) \subseteq LitsUpTo(pos) /\ l \notin Met(c) /\ Read(c) = Kept(Order(pos), Met(c))
    BY <1>1, <1>2, MetFacts DEF l
  <2>4. Read(c) = <<>> /\ Read(d) # <<>>
    BY <1>2, <2>1 DEF MetInv, FirstLiteral
  <2>5. Met(d) # {}
    <3> PICK r : r = Read(d)
      OBVIOUS
    <3>1. Len(r) \in Nat \ {0} /\ DOMAIN r = 1 .. Len(r)
      BY <2>2, <2>4, EmptySeq, LenProperties
    <3>2. r[1] \in {r[n] : n \in DOMAIN r}
      BY <3>1
    <3> QED
      BY <3>2 DEF Met, LitsOf
  <2>6. Met(d) # {l}
    <3>1. Read(c)' = Append(Read(c), l) /\ idxClauses' = idxClauses \ {c}
      BY <1>1, <1>2, ReadTreat DEF FirstLiteral, l
    <3>2. Read(c)' = <<l>>
      BY <2>4, <3>1
    <3>3. Kept(Order(pos), {l}) = <<l>>
      <4>1. Read(c)' = Kept(Order(pos), {x \in Residual(c) : ~(c \in idxClauses' /\ x = l)})
        BY <1>1 DEF Read, Order, LitAt, Residual, l
      <4>2. Order(pos) \in Seq(Int)
        BY <1>2, OrderFacts
      <4> QED
        BY <3>2, <4>1, <4>2, KeptOne
    <3> QED
      BY <1>7, <2>1, <2>2, <3>3
  <2>7. Before(Met(d), {l})
    BY <1>2, <2>2, <2>3, <2>5, <2>6, BeforeMore DEF l
  <2> QED
    BY <2>1, <2>7 DEF Met
<1>8. ASSUME NEW i \in DOMAIN distrib', NEW j \in DOMAIN distrib', i < j, distrib'[i] # distrib'[j]
      PROVE  Before(LitsOf(distrib'[i]), LitsOf(distrib'[j]))
  <2>1. i \in 1 .. D
    BY <1>3, <1>5, <1>8
  <2>2. CASE j \in 1 .. D
    BY <1>3, <1>5, <1>8, <2>1, <2>2 DEF SlotsSorted
  <2>3. CASE j = D + 1
    BY <1>5, <1>6, <1>7, <1>8, <2>1, <2>3
  <2> QED
    BY <1>3, <1>5, <2>2, <2>3
<1>9. \A x : PlaceOf(x)' = PlaceOf(x)
  BY <1>1, BeforeSame
<1> QED
  BY <1>8, <1>9 DEF SlotsSorted, Before, LitsOf

\* A further literal of a clause: the clause comes before what stays in its interval.
LEMMA FurtherSorted ==
  ASSUME IInv, SlotsSorted, NEW c \in Idx, FurtherLiteral(c)
  PROVE  SlotsSorted'
<1> DEFINE D == Len(distrib)
           l == LitAt(pos)
           r == Append(Read(c), l)
<1>1. /\ c \in idxClauses /\ c \in markView /\ idxClauses' = idxClauses \ {c}
      /\ UNCHANGED <<component, clauses, markView, pos>>
  BY Zenon DEF FurtherLiteral
<1>2. ~Idle /\ TypeOK /\ QueueInv /\ MembersInv /\ TileInv /\ pos \in 1 .. NbLit /\ pos # 0
  BY <1>1, BusyFacts
<1>3. PICK old, new, s : MovesClause(c, old, new) /\ MovesSlot(old, new, s) /\ WritesSlot(c, s)
  BY FurtherFacts
<1>4. /\ DOMAIN distrib = 1 .. D /\ D \in Nat /\ DOMAIN distrib' = 1 .. D
      /\ s + 1 \in 1 .. D /\ distrib'[s + 1] = r /\ s \in Nat
      /\ \A j \in 1 .. D : j # s + 1 => distrib'[j] = distrib[j]
  <2>1. distrib' \in Seq(Seq(Int)) /\ Len(distrib') = D
    BY <1>3 DEF WritesSlot
  <2>2. DOMAIN distrib' = 1 .. D
    BY <2>1, LenProperties
  <2> QED
    BY <1>2, <1>3, <2>2, SlotReads DEF WritesSlot, MovesSlot
<1>5. /\ Read(c) \in Seq(Int) /\ Met(c) \subseteq LitsUpTo(pos) /\ l \notin Met(c)
      /\ Read(c) = Kept(Order(pos), Met(c))
  BY <1>1, <1>2, MetFacts
<1>6. Read(c)' = r
  BY <1>1, <1>2, ReadTreat

\* The clause is now read up to the literal.
<1>7. /\ LitsOf(r) = Met(c) \cup {l}
      /\ r = Kept(Order(pos), Met(c) \cup {l})
  <2>1. l \in Residual(c) /\ l \in LitsUpTo(pos)
    BY <1>1, <1>2 DEF QueueInv, LitsUpTo
  <2>2. Read(c)' = Kept(Order(pos), Residual(c))
    <3>1. Read(c)' = Kept(Order(pos), {x \in Residual(c) : ~(c \in idxClauses' /\ x = l)})
      BY <1>1 DEF Read, Order, LitAt, Residual
    <3> QED
      BY <1>1, <3>1
  <2>3. Met(c) = {x \in Residual(c) : ~(c \in idxClauses /\ x = l)} \cap LitsUpTo(pos)
    BY <1>2, MetFacts
  <2>4. Met(c) \cup {l} = Residual(c) \cap LitsUpTo(pos)
    BY <1>1, <2>1, <2>3
  <2> PICK o : o = Order(pos)
    OBVIOUS
  <2>5. o \in Seq(Int)
    BY <1>2, OrderFacts
  <2>6. {o[n] : n \in DOMAIN o} = LitsUpTo(pos)
    BY DEF Order, LitsUpTo
  <2> PICK S : S = Residual(c)
    OBVIOUS
  <2>7. /\ Kept(o, S) \in Seq(Int)
        /\ {Kept(o, S)[n] : n \in DOMAIN Kept(o, S)} = {o[n] : n \in DOMAIN o} \cap S
    BY <2>5, KeptFacts
  <2>8. LitsOf(r) = LitsUpTo(pos) \cap Residual(c)
    BY <1>6, <2>2, <2>6, <2>7 DEF LitsOf
  <2>9. Kept(o, Residual(c)) = Kept(o, Met(c) \cup {l})
    <3>1. \A n \in 1 .. Len(o) : o[n] \in LitsUpTo(pos)
      BY <2>5, <2>6
    <3>2. \A n \in 1 .. Len(o) : o[n] \in Residual(c) <=> o[n] \in Met(c) \cup {l}
      BY <2>4, <3>1
    <3> QED
      BY <3>2, KeptSame
  <2> QED
    BY <1>6, <2>2, <2>4, <2>8, <2>9
<1>8. distrib[s + 1] = Read(c)
  <2>1. s + 1 \in Slots(markIdx[c])
    BY <1>3, <1>4, SlotReads, <1>2 DEF MovesClause, MovesSlot, Slots
  <2> QED
    BY <1>1, <1>2, <2>1 DEF MembersInv
<1>9. \A j \in 1 .. D : \E d \in Idx : /\ d \in markView /\ j \in Slots(markIdx[d]) /\ distrib[j] = Read(d)
                                       /\ Met(d) \subseteq LitsUpTo(pos) /\ Read(d) = Kept(Order(pos), Met(d))
  <2> SUFFICES ASSUME NEW j \in 1 .. D
               PROVE  \E d \in Idx : /\ d \in markView /\ j \in Slots(markIdx[d]) /\ distrib[j] = Read(d)
                                     /\ Met(d) \subseteq LitsUpTo(pos) /\ Read(d) = Kept(Order(pos), Met(d))
    OBVIOUS
  <2>1. PICK d \in markView : d \in Idx /\ j \in Slots(markIdx[d]) /\ distrib[j] = Read(d)
    BY <1>2, <1>4, SlotReads
  <2> QED
    BY <1>2, <2>1, MetFacts
<1> HIDE DEF r, l
<1>10. ASSUME NEW j \in s + 2 .. D
       PROVE  Before(LitsOf(r), LitsOf(distrib[j]))
  <2>1. j \in 1 .. D /\ s + 1 < j
    BY <1>4
  <2>2. PICK d \in Idx : distrib[j] = Read(d) /\ Met(d) \subseteq LitsUpTo(pos)
    BY <1>9, <2>1
  <2>3. CASE distrib[j] = Read(c)
    <3>1. Before(Met(c) \cup {l}, Met(c))
      BY <1>2, <1>5, BeforeMore DEF l
    <3> QED
      BY <1>7, <2>3, <3>1 DEF Met
  <2>4. CASE distrib[j] # Read(c)
    <3>1. Before(Met(c), Met(d))
      BY <1>4, <1>8, <2>1, <2>2, <2>4 DEF SlotsSorted, Met
    <3>2. Before(Met(c) \cup {l}, Met(d))
      BY <1>2, <1>5, <2>2, <3>1, BeforeMore DEF l
    <3> QED
      BY <1>7, <2>2, <3>2 DEF Met
  <2> QED
    BY <2>3, <2>4
<1>11. ASSUME NEW j \in 1 .. s, distrib[j] # r
       PROVE  Before(LitsOf(distrib[j]), LitsOf(r))
  <2>1. j \in 1 .. D /\ j < s + 1
    BY <1>4
  <2>2. PICK d \in Idx : /\ d \in markView /\ j \in Slots(markIdx[d]) /\ distrib[j] = Read(d)
                         /\ Met(d) \subseteq LitsUpTo(pos) /\ Read(d) = Kept(Order(pos), Met(d))
    BY <1>9, <2>1
  <2>3. distrib[j] # Read(c)
    <3> SUFFICES ASSUME distrib[j] = Read(c)
                 PROVE  FALSE
      OBVIOUS
    <3>1. markIdx[d] = markIdx[c]
      BY <1>1, <1>2, <2>2 DEF MembersInv
    <3>2. j \in Slots(old) /\ vecBucketSortIntervalle[old].start = s
      BY <1>3, <2>2, <3>1 DEF MovesClause, MovesSlot
    <3> QED
      BY <1>4, <3>2 DEF Slots
  <2>4. Before(Met(d), Met(c))
    BY <1>4, <1>8, <2>1, <2>2, <2>3 DEF SlotsSorted, Met
  <2>5. Met(d) # Met(c) \cup {l}
    BY <1>7, <1>11, <2>2
  <2>6. Before(Met(d), Met(c) \cup {l})
    BY <1>2, <1>5, <2>2, <2>4, <2>5, BeforeMore DEF l
  <2> QED
    BY <1>7, <2>2, <2>6 DEF Met
<1>12. ASSUME NEW i \in DOMAIN distrib', NEW j \in DOMAIN distrib', i < j, distrib'[i] # distrib'[j]
       PROVE  Before(LitsOf(distrib'[i]), LitsOf(distrib'[j]))
  <2>1. i \in 1 .. D /\ j \in 1 .. D
    BY <1>4
  <2>2. CASE i = s + 1
    <3>1. j \in s + 2 .. D /\ j # s + 1
      BY <1>4, <1>12, <2>1, <2>2
    <3> QED
      BY <1>4, <1>10, <2>1, <2>2, <3>1
  <2>3. CASE j = s + 1
    <3>1. i \in 1 .. s /\ i # s + 1
      BY <1>4, <1>12, <2>1, <2>3
    <3> QED
      BY <1>4, <1>11, <1>12, <2>1, <2>3, <3>1
  <2>4. CASE i # s + 1 /\ j # s + 1
    BY <1>4, <1>12, <2>1, <2>4 DEF SlotsSorted
  <2> QED
    BY <2>2, <2>3, <2>4
<1>13. \A x : PlaceOf(x)' = PlaceOf(x)
  BY <1>1, BeforeSame
<1> QED
  BY <1>12, <1>13 DEF SlotsSorted, Before, LitsOf

\* What is left of a sequence when the places that hold e are passed over.
Lists(K, W, e) ==
  /\ \A i \in DOMAIN K : K[i] # e /\ \E j \in DOMAIN W : K[i] = W[j]
  /\ \A j \in DOMAIN W : W[j] # e => \E i \in DOMAIN K : K[i] = W[j]
  /\ \A i, j \in DOMAIN K : i < j => \E m, n \in DOMAIN W : m < n /\ K[i] = W[m] /\ K[j] = W[n]

LEMMA KeptLists ==
  ASSUME NEW E, NEW W \in Seq(E), NEW e
  PROVE  Kept(W, ToSet(W) \ {e}) \in Seq(E) /\ Lists(Kept(W, ToSet(W) \ {e}), W, e)
<1>1. PICK S : S = ToSet(W) \ {e}
  OBVIOUS
<1>2. /\ Kept(W, S) \in Seq(E)
      /\ {Kept(W, S)[n] : n \in DOMAIN Kept(W, S)} = {W[n] : n \in DOMAIN W} \cap S
  BY KeptFacts
<1>3. \A i, j \in DOMAIN Kept(W, S) : i < j =>
        \E m, n \in DOMAIN W : m < n /\ Kept(W, S)[i] = W[m] /\ Kept(W, S)[j] = W[n]
  BY KeptOrder
<1>4. (\A j \in DOMAIN W : W[j] \in S <=> W[j] # e) /\ \A x \in S : x # e
  BY <1>1 DEF ToSet
<1>5. PICK K : K = Kept(W, S)
  OBVIOUS
<1>6. {K[n] : n \in DOMAIN K} = {W[n] : n \in DOMAIN W} \cap S
  BY <1>2, <1>5
<1>7. \A i \in DOMAIN K : K[i] # e /\ \E j \in DOMAIN W : K[i] = W[j]
  <2>1. \A i \in DOMAIN K : K[i] \in {K[n] : n \in DOMAIN K}
    OBVIOUS
  <2>2. \A i \in DOMAIN K : K[i] \in {W[n] : n \in DOMAIN W} /\ K[i] \in S
    BY <1>6, <2>1
  <2> QED
    BY <1>4, <2>2
<1>8. \A j \in DOMAIN W : W[j] # e => \E i \in DOMAIN K : K[i] = W[j]
  <2> SUFFICES ASSUME NEW j \in DOMAIN W, W[j] # e
               PROVE  \E i \in DOMAIN K : K[i] = W[j]
    OBVIOUS
  <2>1. W[j] \in {K[n] : n \in DOMAIN K}
    BY <1>4, <1>6
  <2> QED
    BY <2>1
<1>9. \A i, j \in DOMAIN K : i < j => \E m, n \in DOMAIN W : m < n /\ K[i] = W[m] /\ K[j] = W[n]
  BY <1>3, <1>5
<1>10. Lists(K, W, e)
  BY <1>7, <1>8, <1>9 DEF Lists
<1> QED
  BY <1>1, <1>2, <1>10, <1>5

\* The end of a call: one slot of each interval is left.
LEMMA EndKey ==
  ASSUME IInv, SlotsSorted, EndCollect
  PROVE  KeyExact'
<1> DEFINE V == vecBucketSortIntervalle
           D == Len(distrib)
           Gone(j) == \E b \in DOMAIN V : j \in Redundant(V[b])
<1>1. /\ idxClauses = {} /\ pos = NbLit /\ UNCHANGED <<component, clauses>>
      /\ distrib' = [j \in DOMAIN distrib |-> IF Gone(j) THEN <<>> ELSE distrib[j]]
  BY DEF EndCollect
<1>2. /\ ~Idle /\ TypeOK /\ TileInv /\ MetInv /\ MembersInv /\ NbLit \in Nat
      /\ distrib \in Seq(Seq(Int)) /\ DOMAIN V = Buckets
  <2>1. NbLit \in Nat /\ TypeOK
    BY LitFacts DEF IInv
  <2>2. ~Idle
    BY <1>1, <2>1 DEF Idle
  <2> QED
    BY <2>1, <2>2, LenProperties DEF IInv, TypeOK, Buckets, NbIntervals
<1>3. /\ DOMAIN distrib = 1 .. D /\ D \in Nat
      /\ \A b \in Buckets : /\ V[b].start \in Nat /\ V[b].end \in Nat /\ V[b].start <= V[b].end
                            /\ V[b].end <= D
  BY <1>2, SlotReads DEF TileInv
<1>4. PICK W : W = distrib'
  OBVIOUS
<1>5. W \in Seq(Seq(Int)) /\ DOMAIN W = 1 .. D /\ \A j \in 1 .. D : W[j] = IF Gone(j) THEN <<>> ELSE distrib[j]
  <2>1. <<>> \in Seq(Int) /\ \A j \in 1 .. D : distrib[j] \in Seq(Int)
    BY <1>2, EmptySeq, ElementOfSeq
  <2>2. W \in [1 .. D -> Seq(Int)]
    BY <1>4, <1>1, <1>3, <2>1
  <2> QED
    BY <1>4, <1>1, <1>3, <2>2, FunctionIsSeq
<1> HIDE DEF Gone
<1>6. \A c \in Idx : Met(c) = Residual(c) /\ Read(c) \in Seq(Int) /\ Read(c) = Kept(Order(NbLit), Residual(c))
  <2> SUFFICES ASSUME NEW c \in Idx
               PROVE  Met(c) = Residual(c) /\ Read(c) \in Seq(Int) /\ Read(c) = Kept(Order(NbLit), Residual(c))
    OBVIOUS
  <2>1. /\ Met(c) = {l \in Residual(c) : ~(c \in idxClauses /\ l = LitAt(pos))} \cap LitsUpTo(pos)
        /\ Read(c) \in Seq(Int) /\ Read(c) = Kept(Order(pos), Met(c))
    BY <1>2, MetFacts
  <2>2. Residual(c) \subseteq LitsUpTo(NbLit)
    BY <1>2, PlaceFacts
  <2> QED
    BY <1>1, <2>1, <2>2
<1>7. \A c \in Idx : Read(c) # <<>> <=> Residual(c) # {}
  <2> SUFFICES ASSUME NEW c \in Idx
               PROVE  Read(c) # <<>> <=> Residual(c) # {}
    OBVIOUS
  <2> PICK r : r = Read(c)
    OBVIOUS
  <2>1. {r[n] : n \in DOMAIN r} = Residual(c) /\ r \in Seq(Int)
    BY <1>6 DEF Met, LitsOf
  <2>2. CASE r = <<>>
    BY <2>1, <2>2
  <2>3. CASE r # <<>>
    <3>1. Len(r) \in Nat \ {0} /\ DOMAIN r = 1 .. Len(r)
      BY <2>1, <2>3, EmptySeq, LenProperties
    <3>2. r[1] \in {r[n] : n \in DOMAIN r}
      BY <3>1
    <3> QED
      BY <2>1, <2>3, <3>2
  <2> QED
    BY <2>2, <2>3

\* A slot that is left reads its clause, and no other that is left reads the same.
<1>8. \A j \in 1 .. D : W[j] # <<>> => \E c \in Idx : W[j] = distrib[j] /\ W[j] = Read(c)
  <2> SUFFICES ASSUME NEW j \in 1 .. D, W[j] # <<>>
               PROVE  \E c \in Idx : W[j] = distrib[j] /\ W[j] = Read(c)
    OBVIOUS
  <2>1. PICK c \in markView : c \in Idx /\ distrib[j] = Read(c)
    BY <1>2, <1>3, SlotReads
  <2>2. W[j] = distrib[j]
    BY <1>5
  <2> QED
    BY <2>1, <2>2
<1>9. ASSUME NEW i \in 1 .. D, NEW j \in 1 .. D, i < j, W[i] # <<>>, W[j] # <<>>
      PROVE  distrib[i] # distrib[j]
  <2> SUFFICES ASSUME distrib[i] = distrib[j]
               PROVE  FALSE
    OBVIOUS
  <2>1. PICK c \in markView : i \in Slots(markIdx[c]) /\ distrib[i] = Read(c)
    BY <1>2, <1>3, SlotReads
  <2>2. PICK d \in markView : j \in Slots(markIdx[d]) /\ distrib[j] = Read(d)
    BY <1>2, <1>3, SlotReads
  <2>3. markIdx[c] = markIdx[d] /\ markIdx[c] \in Buckets
    BY <1>2, <2>1, <2>2 DEF MembersInv
  <2> PICK b : b = markIdx[c]
    OBVIOUS
  <2>4. b \in Buckets /\ V[b].start \in Nat /\ V[b].end \in Nat
        /\ i \in V[b].start + 1 .. V[b].end /\ j \in V[b].start + 1 .. V[b].end
    BY <1>3, <2>1, <2>2, <2>3 DEF Slots
  <2>5. j \in V[b].start + 2 .. V[b].end
    BY <1>9, <2>4
  <2>6. Gone(j)
    BY <1>2, <2>4, <2>5 DEF Gone, Redundant
  <2> QED
    BY <1>5, <1>9, <2>6

\* The first slot of an interval is left.
<1>10. ASSUME NEW c \in Idx, Read(c) # <<>>
      PROVE  \E j \in 1 .. D : W[j] = Read(c)
  <2>1. c \in markView
    BY <1>2, <1>10 DEF MetInv
  <2> PICK b : b = markIdx[c]
    OBVIOUS
  <2>2. b \in Buckets /\ Cardinality(Members(b)) = V[b].end - V[b].start
        /\ V[b].start \in Nat /\ V[b].end \in Nat /\ V[b].start <= V[b].end /\ V[b].end <= D
    BY <1>2, <1>3, <2>1 DEF MembersInv
  <2>3. Cardinality(Members(b)) # 0
    <3>1. IsFiniteSet(Members(b))
      <4>1. Members(b) \subseteq Idx
        BY <1>2 DEF Members, TypeOK
      <4> QED
        BY <4>1, IdxAssumption, FS_Subset
    <3>2. Members(b) # {}
      BY <2>1 DEF Members
    <3> QED
      BY <3>1, <3>2, FS_EmptySet
  <2>4. V[b].start + 1 \in Slots(b) /\ V[b].start + 1 \in 1 .. D
    BY <2>2, <2>3 DEF Slots
  <2>5. ~Gone(V[b].start + 1)
    <3> SUFFICES ASSUME NEW a \in DOMAIN V, V[b].start + 1 \in Redundant(V[a])
                 PROVE  FALSE
      BY DEF Gone
    <3>1. a \in Buckets /\ V[a].start \in Nat /\ V[a].end \in Nat
      BY <1>2, <1>3
    <3>2. V[b].start + 1 \in V[a].start + 2 .. V[a].end
      BY DEF Redundant
    <3>3. V[b].start + 1 \in Slots(a)
      BY <2>2, <3>1, <3>2 DEF Slots
    <3>4. a = b
      BY <1>2, <2>2, <2>4, <3>1, <3>3 DEF TileInv
    <3> QED
      BY <2>2, <3>2, <3>4
  <2>6. distrib[V[b].start + 1] = Read(c)
    BY <1>2, <2>1, <2>4 DEF MembersInv
  <2> QED
    BY <1>5, <2>4, <2>5, <2>6
<1>11. PICK K : K = Kept(W, ToSet(W) \ {<<>>})
  OBVIOUS
<1>12. Lists(K, W, <<>>)
  <2>1. PICK Q, e : Q = Seq(Int) /\ e = <<>>
    OBVIOUS
  <2>2. W \in Seq(Q)
    BY <1>5, <2>1
  <2>3. Kept(W, ToSet(W) \ {e}) \in Seq(Q) /\ Lists(Kept(W, ToSet(W) \ {e}), W, e)
    BY <2>2, KeptLists
  <2> QED
    BY <1>11, <2>1, <2>3
<1>13. DOMAIN W = 1 .. D
  BY <1>5
<1>14. \A i \in DOMAIN K : K[i] # <<>> /\ \E j \in 1 .. D : K[i] = W[j]
  BY <1>12, <1>13 DEF Lists
<1>15. \A j \in 1 .. D : W[j] # <<>> => \E i \in DOMAIN K : K[i] = W[j]
  BY <1>12, <1>13 DEF Lists
<1>16. \A i, j \in DOMAIN K : i < j => \E m, n \in 1 .. D : m < n /\ K[i] = W[m] /\ K[j] = W[n]
  BY <1>12, <1>13 DEF Lists
<1>17. \A i \in DOMAIN K : \E c \in Idx : K[i] = Read(c) /\ LitsOf(K[i]) = Residual(c) /\ Residual(c) # {}
  <2> SUFFICES ASSUME NEW i \in DOMAIN K
               PROVE  \E c \in Idx : K[i] = Read(c) /\ LitsOf(K[i]) = Residual(c) /\ Residual(c) # {}
    OBVIOUS
  <2>1. PICK j \in 1 .. D : K[i] = W[j] /\ W[j] # <<>>
    BY <1>14
  <2>2. PICK c \in Idx : W[j] = Read(c)
    BY <1>8, <2>1
  <2> QED
    BY <1>6, <1>7, <2>1, <2>2 DEF Met
<1>18. {LitsOf(K[i]) : i \in DOMAIN K} = {Residual(c) : c \in Idx} \ {{}}
  <2>1. ASSUME NEW c \in Idx, Residual(c) # {}
        PROVE  \E i \in DOMAIN K : LitsOf(K[i]) = Residual(c)
    <3>1. Read(c) # <<>>
      BY <1>7, <2>1
    <3>2. PICK j \in 1 .. D : W[j] = Read(c)
      BY <1>10, <3>1
    <3>3. PICK i \in DOMAIN K : K[i] = Read(c)
      BY <1>15, <3>1, <3>2
    <3> QED
      BY <1>6, <3>3 DEF Met
  <2> DEFINE L == {LitsOf(K[i]) : i \in DOMAIN K}
             R == {Residual(c) : c \in Idx} \ {{}}
  <2>2. ASSUME NEW x \in L
        PROVE  x \in R
    <3>1. PICK i \in DOMAIN K : x = LitsOf(K[i])
      BY Zenon
    <3>2. PICK c \in Idx : LitsOf(K[i]) = Residual(c) /\ Residual(c) # {}
      BY <1>17
    <3> QED
      BY <3>1, <3>2, Zenon
  <2>3. ASSUME NEW x \in R
        PROVE  x \in L
    <3>1. PICK c \in Idx : x = Residual(c) /\ Residual(c) # {}
      BY Zenon
    <3>2. PICK i \in DOMAIN K : LitsOf(K[i]) = Residual(c)
      BY <2>1, <3>1
    <3> QED
      BY <3>1, <3>2, Zenon
  <2> HIDE DEF L, R
  <2>4. L = R
    BY <2>2, <2>3
  <2> QED
    BY <2>4 DEF L, R
<1>19. ASSUME NEW i \in DOMAIN K, NEW n \in 2 .. Len(K[i])
       PROVE  PlaceOf(K[i][n - 1]) < PlaceOf(K[i][n])
  <2>1. PICK c \in Idx : K[i] = Read(c)
    BY <1>17
  <2> PICK r : r = Read(c)
    OBVIOUS
  <2>2. r \in Seq(Int) /\ r = Kept(Order(NbLit), Residual(c))
    BY <1>6
  <2>3. Len(r) \in Nat /\ DOMAIN r = 1 .. Len(r) /\ n \in 2 .. Len(r)
    BY <2>1, <2>2, LenProperties
  <2>4. n - 1 \in DOMAIN r /\ n \in DOMAIN r /\ n - 1 < n
    BY <2>3
  <2> PICK o : o = Order(NbLit)
    OBVIOUS
  <2> PICK S : S = Residual(c)
    OBVIOUS
  <2>5. o \in Seq(Int) /\ DOMAIN o = 1 .. NbLit /\ \A k \in 1 .. NbLit : o[k] = LitAt(k)
    <3>1. NbLit \in 1 .. NbLit
      BY <1>2, LitFacts
    <3>2. o \in Seq(Int)
      BY <1>2, <3>1, OrderFacts
    <3> QED
      BY <3>2 DEF Order
  <2>6. \A x, y \in DOMAIN Kept(o, S) : x < y =>
          \E m, p \in DOMAIN o : m < p /\ Kept(o, S)[x] = o[m] /\ Kept(o, S)[y] = o[p]
    <3>1. o \in Seq(Int)
      BY <2>5
    <3> QED
      BY <3>1, KeptOrder
  <2>7. PICK m \in 1 .. NbLit, p \in 1 .. NbLit : m < p /\ r[n - 1] = LitAt(m) /\ r[n] = LitAt(p)
    BY <2>2, <2>4, <2>5, <2>6
  <2> QED
    BY <1>2, <2>1, <2>7, PlaceFacts
<1>20. ASSUME NEW i \in DOMAIN K, NEW j \in DOMAIN K, i < j
       PROVE  Before(LitsOf(K[i]), LitsOf(K[j]))
  <2>1. PICK m \in 1 .. D, n \in 1 .. D : m < n /\ K[i] = W[m] /\ K[j] = W[n]
    BY <1>16, <1>20
  <2>2. W[m] # <<>> /\ W[n] # <<>>
    BY <1>14, <2>1
  <2>3. W[m] = distrib[m] /\ W[n] = distrib[n] /\ distrib[m] # distrib[n]
    BY <1>8, <1>9, <2>1, <2>2
  <2> QED
    BY <1>3, <2>1, <2>3 DEF SlotsSorted
<1>21. Collected' = K
  BY <1>4, <1>11 DEF Collected, Kept, ToSet
<1>22. (\A x : PlaceOf(x)' = PlaceOf(x)) /\ \A c : Residual(c)' = Residual(c)
  BY <1>1, BeforeSame DEF Residual
<1> QED
  <2>1. {LitsOf(K[i]) : i \in DOMAIN K} = {Residual(c)' : c \in Idx} \ {{}}
    BY <1>18, <1>22
  <2>2. \A i \in DOMAIN K : \A n \in 2 .. Len(K[i]) : PlaceOf(K[i][n - 1])' < PlaceOf(K[i][n])'
    BY <1>19, <1>22
  <2>3. \A i, j \in DOMAIN K : i < j => Before(LitsOf(K[i]), LitsOf(K[j]))'
    BY <1>20, <1>22 DEF Before, LitsOf
  <2> QED
    <3>1. \A i : LitsOf(Collected[i])' = LitsOf(K[i])
      BY <1>21 DEF LitsOf
    <3>2. {LitsOf(Collected[i])' : i \in DOMAIN Collected'} = {Residual(c)' : c \in Idx} \ {{}}
      BY <1>21, <2>1, <3>1
    <3>3. \A i \in DOMAIN Collected' : \A n \in 2 .. Len(Collected'[i]) :
            PlaceOf(Collected[i][n - 1])' < PlaceOf(Collected[i][n])'
      BY <1>21, <2>2
    <3>4. \A i, j \in DOMAIN Collected' : i < j => Before(LitsOf(Collected[i]), LitsOf(Collected[j]))'
      BY <1>21, <2>3
    <3> QED
      BY <3>2, <3>3, <3>4, Zenon DEF KeyExact

\* The slots stay in the order of what they read; what is collected is the key.
LEMMA SortedStep ==
  ASSUME KeyInv, [Next]_vars, IInv'
  PROVE  KeyInv'
<1>1. IInv /\ (~Idle => SlotsSorted) /\ KeyExact
  BY DEF KeyInv
<1>2. CASE InitSortBucket
  <2>1. distrib' = <<>> /\ DOMAIN <<>> = {}
    BY <1>2 DEF InitSortBucket
  <2>2. SlotsSorted'
    BY <2>1 DEF SlotsSorted
  <2>3. ~Idle'
    <3>1. NbLit' \in Nat /\ pos' = 0
      <4>1. component' \in Seq(Nat \ {0})
        BY DEF IInv, TypeOK
      <4>2. Len(component') \in Nat
        BY <4>1, LenProperties
      <4> QED
        BY <1>2, <4>2 DEF NbLit, InitSortBucket
    <3>2. PICK n : n = NbLit'
      OBVIOUS
    <3>3. Idle' <=> pos' = n + 1
      BY <3>2 DEF Idle
    <3>4. n \in Nat /\ pos' = 0
      BY <3>1, <3>2
    <3> HIDE DEF Idle
    <3>5. 0 # n + 1
      BY <3>4
    <3> QED
      BY <3>3, <3>4, <3>5
  <2> QED
    BY <2>2, <2>3 DEF KeyInv, KeyExact
<1>3. CASE NextLiteral
  <2>1. UNCHANGED <<component, distrib>> /\ pos' = pos + 1 /\ pos < NbLit
    BY <1>3 DEF NextLiteral
  <2>2. NbLit \in Nat /\ pos \in Nat /\ NbLit' = NbLit
    BY <1>1, <2>1, LitFacts, BeforeSame DEF IInv, TypeOK
  <2>3. ~Idle /\ ~Idle'
    BY <2>1, <2>2 DEF Idle
  <2>4. \A x : PlaceOf(x)' = PlaceOf(x)
    BY <2>1, BeforeSame
  <2>5. SlotsSorted'
    BY <1>1, <2>1, <2>3, <2>4 DEF SlotsSorted, Before, LitsOf
  <2> QED
    BY <2>3, <2>5 DEF KeyInv, KeyExact
<1>4. ASSUME NEW c \in Idx, FirstLiteral(c) \/ FurtherLiteral(c)
      PROVE  KeyInv'
  <2>1. c \in idxClauses /\ UNCHANGED <<component, pos>>
    BY <1>4, Zenon DEF FirstLiteral, FurtherLiteral
  <2>2. ~Idle /\ ~Idle'
    BY <1>1, <2>1, BusyFacts, BeforeSame DEF Idle
  <2>3. SlotsSorted'
    BY <1>1, <1>4, <2>2, FirstSorted, FurtherSorted
  <2> QED
    BY <2>2, <2>3 DEF KeyInv, KeyExact
<1>5. CASE EndCollect
  <2>1. UNCHANGED component /\ pos = NbLit /\ pos' = NbLit + 1
    BY <1>5 DEF EndCollect
  <2>2. NbLit \in Nat /\ NbLit' = NbLit
    BY <1>1, <2>1, LitFacts, BeforeSame DEF IInv
  <2>3. ~Idle /\ Idle'
    BY <2>1, <2>2 DEF Idle
  <2>4. KeyExact'
    <3>1. IInv /\ SlotsSorted /\ EndCollect
      BY <1>1, <1>5, <2>3
    <3> QED
      BY <3>1, EndKey, Zenon
  <2> QED
    BY <2>3, <2>4 DEF KeyInv
<1>6. CASE UNCHANGED vars
  <2>1. UNCHANGED <<component, clauses, distrib, pos, calls>>
    BY <1>6 DEF vars, scratch
  <2>2. (Idle' <=> Idle) /\ Collected' = Collected /\ (\A x : PlaceOf(x)' = PlaceOf(x))
        /\ \A c : Residual(c)' = Residual(c)
    BY <2>1, BeforeSame DEF Idle, Collected, Kept, ToSet, Residual
  <2>3. (~Idle => SlotsSorted)'
    BY <1>1, <2>1, <2>2 DEF SlotsSorted, Before, LitsOf
  <2>4. KeyExact'
    <3>1. CASE ~(Idle /\ calls > 0)
      BY <2>1, <2>2, <3>1 DEF KeyExact
    <3>2. CASE Idle /\ calls > 0
      <4>1. PICK K : K = Collected
        OBVIOUS
      <4>2. K = Collected'
        BY <2>2, <4>1
      <4>3. \A i : LitsOf(Collected[i])' = LitsOf(K[i])
        BY <4>2 DEF LitsOf
      <4>4. \A i : LitsOf(Collected[i]) = LitsOf(K[i])
        BY <4>1
      <4>5. {LitsOf(K[i]) : i \in DOMAIN K} = {Residual(c) : c \in Idx} \ {{}}
        BY <1>1, <3>2, <4>1, <4>4 DEF KeyExact
      <4>6. {LitsOf(Collected[i])' : i \in DOMAIN Collected'} = {Residual(c)' : c \in Idx} \ {{}}
        BY <2>2, <4>2, <4>3, <4>5
      <4>7. \A i \in DOMAIN Collected' : \A n \in 2 .. Len(Collected'[i]) :
              PlaceOf(Collected[i][n - 1])' < PlaceOf(Collected[i][n])'
        BY <1>1, <2>2, <3>2, <4>1, <4>2 DEF KeyExact
      <4>8. \A i, j \in DOMAIN K : i < j => Before(LitsOf(K[i]), LitsOf(K[j]))
        BY <1>1, <3>2, <4>1 DEF KeyExact
      <4>9. \A i, j \in DOMAIN Collected' : i < j => Before(LitsOf(Collected[i]), LitsOf(Collected[j]))'
        BY <2>2, <4>2, <4>8 DEF Before, LitsOf
      <4> QED
        BY <4>6, <4>7, <4>9, Zenon DEF KeyExact
    <3> QED
      BY <3>1, <3>2
  <2> QED
    BY <2>3, <2>4 DEF KeyInv
<1> QED
  BY <1>2, <1>3, <1>4, <1>5, <1>6 DEF Next

\* In every state of a call the slots are in the order of what they read, and
\* between two calls what was collected is the key of the clauses.
THEOREM SlotsCorrect == Spec => []KeyInv
<1>1. Init => KeyInv
  <2> SUFFICES ASSUME Init
               PROVE  KeyInv
    OBVIOUS
  <2>1. IInv
    BY InitInv
  <2>2. Idle /\ calls = 0
    BY DEF Init, Idle
  <2> QED
    BY <2>1, <2>2 DEF KeyInv, KeyExact
<1>2. KeyInv /\ [Next]_vars /\ IInv' => KeyInv'
  BY SortedStep
<1>3. Spec => []IInv
  BY SortCorrect
<1> QED
  BY <1>1, <1>2, <1>3, PTL DEF Spec

\* What collectDistrib leaves holds every residual clause once, its literals in the order of
\* the loops, in an order that the clauses alone determine, whatever the order of the lists
\* of occurrences: components with the same residual clauses get the same key.
THEOREM KeyCorrect == Spec => []KeyExact
<1>1. KeyInv => KeyExact
  BY DEF KeyInv
<1> QED
  BY <1>1, SlotsCorrect, PTL
=============================================================================
