-------------------------------- MODULE KeyForm --------------------------------
(***************************************************************************)
(* What the cache compares: the stored form of a component, a header of    *)
(* two packed words and the bytes of the variables, of the distribution of *)
(* the clauses by size, and of the clauses that BucketSort has sorted.     *)
(* The numbers of each part take 1, 2 or 4 bytes; one that does not fit    *)
(* loses its high bytes.                                                   *)
(*                                                                         *)
(* The header gives each of the three widths two bits, and ORs its fields  *)
(* together.  A width of 4 reads back as 0 and sets the lowest bit of the  *)
(* next field.                                                             *)
(***************************************************************************)
EXTENDS BucketSort, Bitwise

CONSTANTS
  ByteBits,  \* the bits of a byte (8)
  SizeBits   \* the bits that info2 has left for szData (26)

ASSUME ByteBitsAssumption == ByteBits \in Nat \ {0}
ASSUME SizeBitsAssumption == SizeBits \in Nat \ {0}

Byte == 2 ^ ByteBits
NbOctetToEncodeInt(v) == IF v < Byte THEN 1 ELSE IF v < Byte * Byte THEN 2 ELSE 4
Octets(n, octets) == [i \in 1 .. octets |-> (n \div Byte ^ (i - 1)) % Byte]

\* getInfoClDistrib: sorted is the sequence of the sorted clauses.
LastSize(sorted) == FoldLeft(LAMBDA n, s : IF Len(s) > n THEN Len(s) ELSE n, 0, sorted)
OfSize(sorted, n) == SelectSeq(sorted, LAMBDA s : Len(s) = n)
Sizes(sorted) ==
  SelectSeq([n \in 1 .. LastSize(sorted) |-> n], LAMBDA n : OfSize(sorted, n) # <<>>)
MaxDistribSz(sorted) ==
  FoldLeft(LAMBDA most, n : LET count == Len(OfSize(sorted, n)) IN
                            IF count > most THEN (IF n > count THEN n ELSE count)
                            ELSE IF n > most THEN n ELSE most, 0, Sizes(sorted))
NbLitOf(sorted) == FoldLeft(LAMBDA n, s : n + Len(s), 0, sorted)

\* Variables count from 0 in the code; vs is the component.
StoreVariables(vs, octets) == FlattenSeq([i \in DOMAIN vs |-> Octets(vs[i] - 1, octets)])
StoreDistribInfo(sorted, octets) ==
  FlattenSeq([i \in DOMAIN Sizes(sorted) |-> LET n == Sizes(sorted)[i] IN
    Octets(Len(OfSize(sorted, n)), octets) \o Octets(n, octets)])
MapVar(vs, v) == (CHOOSE i \in DOMAIN vs : vs[i] = v) - 1
Number(vs, l) == IF l > 0 THEN 2 * MapVar(vs, l) ELSE 2 * MapVar(vs, -l) + 1
StoreClauses(sorted, vs, octets) ==
  LET clause(s) == FlattenSeq([k \in DOMAIN s |-> Octets(Number(vs, s[k]), octets)])
      ofSize(n) == LET own == OfSize(sorted, n) IN FlattenSeq([i \in DOMAIN own |-> clause(own[i])])
  IN  FlattenSeq([i \in DOMAIN Sizes(sorted) |-> ofSize(Sizes(sorted)[i])])

ComputeNeededBytes(h) ==
  h.nbOVar * h.nbVar + h.nbOData * h.nbLit + 2 * h.nbODistrib * h.nbDiffSize

\* The header of the bucket: info1 has 8 bytes, info2 six bits and the size.
Shifted(n, bits) == n * 2 ^ bits
Header(h) ==
  [info1 |-> (h.nbVar | Shifted(h.nbLit, 3 * ByteBits) | Shifted(h.nbClause, 6 * ByteBits))
               % 2 ^ (8 * ByteBits),
   info2 |-> (h.nbOData | Shifted(h.nbOVar, 2) | Shifted(h.nbODistrib, 4)
                | Shifted(ComputeNeededBytes(h), 6)) % 2 ^ (SizeBits + 6)]
SzData(header) == header.info2 \div 2 ^ 6

\* The greatest number that the variables are written with.
\* (Mutant of LastVariable: their number instead.)
NbVariables(vs) == Len(vs)
LastVariable(vs) == vs[Len(vs)]

\* storeFormula: the header of the bucket and its data.
StoreFormula(vs, sorted) ==
  LET h == [nbVar |-> Len(vs), nbLit |-> NbLitOf(sorted), nbClause |-> Len(sorted),
            nbOVar |-> NbOctetToEncodeInt(LastVariable(vs)),
            nbOData |-> NbOctetToEncodeInt(2 * (Len(vs) + 2)),
            nbODistrib |-> NbOctetToEncodeInt(MaxDistribSz(sorted)),
            nbDiffSize |-> Len(Sizes(sorted))]
  IN  [header |-> Header(h),
       data |-> StoreVariables(vs, h.nbOVar) \o StoreDistribInfo(sorted, h.nbODistrib)
                  \o StoreClauses(sorted, vs, h.nbOData)]

-----------------------------------------------------------------------------
(* Properties.                                                             *)

\* What may be in the cache: the stored form of any component and clauses, sorted here
\* by the definition of the order and not by the intervals.
Formula(vs, K) == [component |-> vs, clauses |-> K]
ResidualClauses(input) ==
  {{l \in input.clauses[c] : l \notin Assigned /\ -l \notin Assigned} : c \in Idx} \ {{}}
InOrder(vs, k) ==
  SelectSeq([n \in 1 .. 2 * Len(vs) |-> IF n % 2 = 1 THEN vs[(n + 1) \div 2] ELSE -vs[n \div 2]],
            LAMBDA l : l \in k)
SortedClauses(vs, K) ==
  LET first(k, m) == \E l \in k \ m : \A x \in (k \ m) \cup (m \ k) : Number(vs, l) <= Number(vs, x)
      sorted == SetToSortSeq(K, first)
  IN  [i \in DOMAIN sorted |-> InOrder(vs, sorted[i])]
Forms ==
  {LET vs == input.component
       K == ResidualClauses(input)
   IN  [of |-> Formula(vs, K), form |-> StoreFormula(vs, SortedClauses(vs, K))] : input \in Inputs}

\* sameHeader and memcmp, which reads as many bytes as the header says.  A byte that
\* lies behind a block may be any.
Alike(f, g) ==
  /\ f.header = g.header
  /\ \A n \in 1 .. SzData(f.header) :
       n \in DOMAIN f.data /\ n \in DOMAIN g.data => f.data[n] = g.data[n]

\* The stored form tells components and their clauses apart, although every number is
\* cut to its width and the widths run over in the header: the cache takes no other
\* component's form for it.  What the header says of the size is right, and one byte
\* too much only if a number of the distribution needs 4 bytes.
FormExact ==
  Idle /\ calls > 0 =>
    LET this == StoreFormula(component, Collected)
        tooWide == MaxDistribSz(Collected) >= Byte * Byte
    IN  /\ \A f \in Forms :
             Alike(this, f.form) => f.of = Formula(component, {Residual(c) : c \in Idx} \ {{}})
        /\ SzData(this.header) \in {Len(this.data)} \cup (IF tooWide THEN {Len(this.data) + 1} ELSE {})
=============================================================================
