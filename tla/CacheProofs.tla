----------------------------- MODULE CacheProofs -----------------------------
(***************************************************************************)
(* The cache.  The blocks of BucketMemory tile its pages, whatever sizes   *)
(* are asked for in whatever order, and what was stored stays what it was. *)
(* The table of colliding lists over this memory, CacheTable, implements   *)
(* the flat set of entries of BucketMemory, and inherits what is proved of *)
(* it.                                                                     *)
(***************************************************************************)
EXTENDS CacheTable, SequenceFacts, FiniteSetTheorems

USE PageSizeAssumption, SizeAssumption, NoBucketAssumption, BlankAssumption

-----------------------------------------------------------------------------
(* Tilings.                                                                *)

\* A set of blocks with owners.
PartSet == [owner : Key \cup {NoBucket, Blank}, block : Block]

\* Splitting a block, or giving it to another owner (getArray, releaseMemory):
\* pieces that cover what x covered, without a common byte, take its place.
LEMMA Replace ==
  ASSUME NEW P \in SUBSET PartSet, NEW n \in Nat, Tiles(P, n),
         NEW x \in P, NEW Y \in SUBSET PartSet,
         \A y \in Y : y.block.page \in 1 .. n /\ y.block.at + y.block.size <= PageSize,
         \A p \in 1 .. n, o \in 0 .. PageSize - 1 :
           Holds(x.block, p, o) <=> \E y \in Y : Holds(y.block, p, o),
         \A y, z \in Y : \A p \in 1 .. n, o \in 0 .. PageSize - 1 :
           Holds(y.block, p, o) /\ Holds(z.block, p, o) => y = z
  PROVE  Tiles((P \ {x}) \cup Y, n)
<1> DEFINE Q == (P \ {x}) \cup Y
<1>1. \A q \in Q : q.block.page \in 1 .. n /\ q.block.at + q.block.size <= PageSize
  BY DEF Tiles
<1>2. \A p \in 1 .. n, o \in 0 .. PageSize - 1 : \E q \in Q : Holds(q.block, p, o)
  BY DEF Tiles
<1>3. ASSUME NEW q \in Q, NEW r \in Q, NEW p \in 1 .. n, NEW o \in 0 .. PageSize - 1,
             Holds(q.block, p, o), Holds(r.block, p, o)
      PROVE  q = r
  <2>1. CASE q \in Y /\ r \in Y
    BY <1>3, <2>1
  <2>2. CASE q \in P \ {x} /\ r \in P \ {x}
    BY <1>3, <2>2 DEF Tiles
  <2>3. CASE q \in P \ {x} /\ r \in Y
    BY <1>3, <2>3 DEF Tiles
  <2>4. CASE q \in Y /\ r \in P \ {x}
    BY <1>3, <2>4 DEF Tiles
  <2> QED
    BY <1>3, <2>1, <2>2, <2>3, <2>4
<1> QED
  BY <1>1, <1>2, <1>3 DEF Tiles

\* A new page (getArray): pieces that cover it and nothing else are added.
LEMMA NewPage ==
  ASSUME NEW P \in SUBSET PartSet, NEW n \in Nat, Tiles(P, n),
         NEW Y \in SUBSET PartSet,
         \A y \in Y : y.block.page = n + 1 /\ y.block.at + y.block.size <= PageSize,
         \A o \in 0 .. PageSize - 1 : \E y \in Y : Holds(y.block, n + 1, o),
         \A y, z \in Y : \A o \in 0 .. PageSize - 1 :
           Holds(y.block, n + 1, o) /\ Holds(z.block, n + 1, o) => y = z
  PROVE  Tiles(P \cup Y, n + 1)
<1> DEFINE Q == P \cup Y
<1>1. \A q \in Q : q.block.page \in 1 .. n + 1 /\ q.block.at + q.block.size <= PageSize
  BY DEF Tiles
<1>2. \A p \in 1 .. n + 1, o \in 0 .. PageSize - 1 : \E q \in Q : Holds(q.block, p, o)
  <2>1. \A p \in 1 .. n + 1 : p \in 1 .. n \/ p = n + 1
    OBVIOUS
  <2> QED
    BY <2>1 DEF Tiles
<1>3. \A q \in P : q.block.page # n + 1
  BY DEF Tiles
<1>4. ASSUME NEW q \in Q, NEW r \in Q, NEW p \in 1 .. n + 1, NEW o \in 0 .. PageSize - 1,
             Holds(q.block, p, o), Holds(r.block, p, o)
      PROVE  q = r
  <2>1. p = q.block.page /\ p = r.block.page
    BY <1>4 DEF Holds
  <2>2. CASE p = n + 1
    <3>1. q \in Y /\ r \in Y
      BY <1>3, <2>1, <2>2
    <3> QED
      BY <1>4, <2>2, <3>1
  <2>3. CASE p # n + 1
    <3>1. q \in P /\ r \in P
      BY <2>1, <2>3
    <3>2. p \in 1 .. n
      BY <2>3
    <3> QED
      BY <1>4, <3>1, <3>2 DEF Tiles
  <2> QED
    BY <2>2, <2>3
<1> QED
  BY <1>1, <1>2, <1>4 DEF Tiles

-----------------------------------------------------------------------------
(* Type correctness.                                                       *)

\* What storeFormula does to the memory, byte by byte.
LEMMA StoreBytes ==
  ASSUME TypeOK, NEW k \in Key, NEW p \in 1 .. MaxPages, NEW o \in Nat, StoreFormula(k, p, o)
  PROVE  /\ bucket' = [key |-> k, page |-> p, at |-> o]
         /\ bucket' \in Stored /\ bucket' # NoBucket
         /\ memory' \in [1 .. MaxPages -> [0 .. PageSize - 1 -> {Blank} \cup (Key \X Nat)]]
         /\ \A q \in 1 .. MaxPages, x \in 0 .. PageSize - 1 :
              memory'[q][x] = IF q = p /\ o <= x /\ x < o + Size[k] THEN <<k, x - o>>
                              ELSE memory[q][x]
<1> DEFINE Byte == {Blank} \cup (Key \X Nat)
           page == [x \in 0 .. PageSize - 1 |->
                      IF o <= x /\ x < o + Size[k] THEN <<k, x - o>> ELSE memory[p][x]]
<1>1. bucket' = [key |-> k, page |-> p, at |-> o] /\ bucket' \in Stored
  BY DEF StoreFormula, Stored
<1>2. bucket' # NoBucket
  BY <1>1 DEF Stored
<1>3. memory' = [memory EXCEPT ![p] = page]
  BY DEF StoreFormula
<1>4. memory \in [1 .. MaxPages -> [0 .. PageSize - 1 -> Byte]]
  BY DEF TypeOK
<1>5. \A x \in 0 .. PageSize - 1 : page[x] \in Byte
  <2> SUFFICES ASSUME NEW x \in 0 .. PageSize - 1
               PROVE  page[x] \in Byte
    OBVIOUS
  <2>1. memory[p][x] \in Byte
    BY <1>4
  <2>2. CASE o <= x /\ x < o + Size[k]
    <3>1. x - o \in Nat
      BY <2>2
    <3> QED
      BY <2>2, <3>1
  <2>3. CASE ~(o <= x /\ x < o + Size[k])
    BY <2>1, <2>3
  <2> QED
    BY <2>2, <2>3
<1>6. page \in [0 .. PageSize - 1 -> Byte]
  BY <1>5
<1>7. memory' \in [1 .. MaxPages -> [0 .. PageSize - 1 -> Byte]]
  <2> HIDE DEF page, Byte
  <2> QED
    BY <1>3, <1>4, <1>6
<1>8. \A q \in 1 .. MaxPages, x \in 0 .. PageSize - 1 :
        memory'[q][x] = IF q = p THEN page[x] ELSE memory[q][x]
  <2> HIDE DEF page
  <2> QED
    BY <1>3, <1>4
<1> QED
  BY <1>1, <1>2, <1>7, <1>8

\* The sizes asked for and the blocks that are free.
LEMMA FreeBlock ==
  ASSUME TypeOK, NEW k \in Key
  PROVE  /\ Size[k] \in 1 .. PageSize
         /\ \A b \in freeSpace : b \in Block /\ b.page \in Nat /\ b.at \in Nat /\ b.size \in Nat
         /\ Unused \in Block
BY DEF TypeOK, Block, Unused

\* What is put back of a block of which n bytes are taken.
LEMMA RestFacts ==
  ASSUME NEW b \in Block, NEW n \in Nat, b.size >= n
  PROVE  Rest(b, n) = [page |-> b.page, at |-> b.at + n, size |-> b.size - n]
         /\ Rest(b, n) \in Block
BY DEF Rest, Block

\* The parts of a tiling lie inside the pages.
LEMMA PartFacts ==
  ASSUME Tiling
  PROVE  /\ \A b \in freeSpace : b.page \in 1 .. pages /\ b.at + b.size <= PageSize
         /\ \A e \in Live : e.page \in 1 .. pages /\ e.at + Size[e.key] <= PageSize
<1>1. \A x \in Parts : x.block.page \in 1 .. pages /\ x.block.at + x.block.size <= PageSize
  BY DEF Tiling, Tiles
<1>2. ASSUME NEW b \in freeSpace
      PROVE  b.page \in 1 .. pages /\ b.at + b.size <= PageSize
  <2>1. Part(NoBucket, b) \in Parts
    BY DEF Parts
  <2>2. Part(NoBucket, b).block = b
    BY DEF Part
  <2> QED
    BY <1>1, <2>1, <2>2
<1>3. ASSUME NEW e \in Live
      PROVE  e.page \in 1 .. pages /\ e.at + Size[e.key] <= PageSize
  <2>1. Part(e.key, BlockOf(e)) \in Parts
    BY DEF Parts
  <2>2. Part(e.key, BlockOf(e)).block = [page |-> e.page, at |-> e.at, size |-> Size[e.key]]
    BY DEF Part, BlockOf
  <2> QED
    BY <1>1, <2>1, <2>2
<1> QED
  BY <1>2, <1>3

\* Every step preserves the types.  A block is taken from a page there is: this
\* is what Tiling says of freeSpace.
LEMMA TypeStep ==
  ASSUME TypeOK, Tiling, [Next]_vars
  PROVE  TypeOK'
<1>1. \A b \in freeSpace : b.page \in 1 .. pages /\ b.at + b.size <= PageSize
  BY PartFacts
<1>2. ASSUME NEW k \in Key, Reuse(k)
      PROVE  TypeOK'
  <2>1. PICK b \in freeSpace : freeSpace' = freeSpace \ {b} /\ StoreFormula(k, b.page, b.at)
    BY <1>2 DEF Reuse, OfSize
  <2>2. b.page \in 1 .. MaxPages /\ b.at \in Nat
    BY <1>1, <2>1, FreeBlock DEF TypeOK
  <2>3. bucket' \in Stored
        /\ memory' \in [1 .. MaxPages -> [0 .. PageSize - 1 -> {Blank} \cup (Key \X Nat)]]
    BY <2>1, <2>2, StoreBytes
  <2>4. freeMemory' \in Int
    BY <1>2, FreeBlock DEF Reuse, TypeOK
  <2> QED
    BY <1>2, <2>1, <2>3, <2>4 DEF Reuse, TypeOK
<1>3. ASSUME NEW k \in Key, Split(k)
      PROVE  TypeOK'
  <2>1. PICK b \in Splittable(Size[k]) :
          freeSpace' = (freeSpace \ {b}) \cup {Rest(b, Size[k])} /\ StoreFormula(k, b.page, b.at)
    BY <1>3 DEF Split
  <2>2. b \in freeSpace /\ b \in Block /\ b.size >= 2 * Size[k]
    BY FreeBlock DEF Splittable
  <2>3. b.page \in 1 .. MaxPages /\ b.at \in Nat
    BY <1>1, <2>2, FreeBlock DEF TypeOK
  <2>4. Rest(b, Size[k]) \in Block
    BY <2>2, FreeBlock, RestFacts
  <2>5. bucket' \in Stored
        /\ memory' \in [1 .. MaxPages -> [0 .. PageSize - 1 -> {Blank} \cup (Key \X Nat)]]
    BY <2>1, <2>3, StoreBytes
  <2>6. freeMemory' \in Int
    BY <1>3, FreeBlock DEF Split, TypeOK
  <2>7. freeSpace' \in SUBSET Block
    BY <2>1, <2>4 DEF TypeOK
  <2> QED
    BY <1>3, <2>5, <2>6, <2>7 DEF Split, TypeOK
<1>4. ASSUME NEW k \in Key, Fresh(k)
      PROVE  TypeOK'
  <2>1. pages \in 1 .. MaxPages /\ posInData \in Nat
    BY DEF TypeOK
  <2>2. bucket' \in Stored
        /\ memory' \in [1 .. MaxPages -> [0 .. PageSize - 1 -> {Blank} \cup (Key \X Nat)]]
    BY <1>4, <2>1, StoreBytes DEF Fresh
  <2>3. posInData' \in 0 .. PageSize
    BY <1>4, <2>1, FreeBlock DEF Fresh, Fits
  <2> QED
    BY <1>4, <2>2, <2>3 DEF Fresh, TypeOK
<1>5. ASSUME NEW k \in Key, FreshPage(k)
      PROVE  TypeOK'
  <2>1. pages + 1 \in 1 .. MaxPages /\ 0 \in Nat
    BY <1>5 DEF FreshPage, TypeOK
  <2>2. bucket' \in Stored
        /\ memory' \in [1 .. MaxPages -> [0 .. PageSize - 1 -> {Blank} \cup (Key \X Nat)]]
    BY <1>5, <2>1, StoreBytes DEF FreshPage
  <2>3. posInData' \in 0 .. PageSize
    BY <1>5, FreeBlock DEF FreshPage
  <2>4. freeSpace' \in SUBSET Block /\ freeMemory' \in Int
    BY <1>5, FreeBlock DEF FreshPage, EndOfPage, TypeOK
  <2>5. pages' \in Nat \ {0} /\ pages' <= MaxPages
    BY <1>5, <2>1 DEF FreshPage, TypeOK
  <2> QED
    BY <1>5, <2>2, <2>3, <2>4, <2>5 DEF FreshPage, TypeOK
<1>6. ASSUME Hit
      PROVE  TypeOK'
  <2>1. bucket \in Stored
    BY <1>6 DEF Hit, TypeOK
  <2>2. BlockOf(bucket) \in Block /\ Size[bucket.key] \in Nat
    BY <2>1 DEF BlockOf, Block, Stored
  <2> QED
    BY <1>6, <2>2 DEF Hit, TypeOK
<1>7. ASSUME Miss
      PROVE  TypeOK'
  <2>1. bucket \in Stored
    BY <1>7 DEF Miss, TypeOK
  <2>2. pending' \in Seq(Stored)
    BY <1>7, <2>1, PushFacts DEF Miss, TypeOK
  <2> QED
    BY <1>7, <2>2 DEF Miss, TypeOK
<1>8. ASSUME AddInCache
      PROVE  TypeOK'
  <2>1. pending[Len(pending)] \in Stored /\ pending' \in Seq(Stored)
    BY <1>8, PopFacts DEF AddInCache, TypeOK
  <2> QED
    BY <1>8, <2>1 DEF AddInCache, TypeOK
<1>9. CASE UNCHANGED vars
  BY <1>9 DEF vars, TypeOK
<1> QED
  BY <1>2, <1>3, <1>4, <1>5, <1>6, <1>7, <1>8, <1>9 DEF Next

-----------------------------------------------------------------------------
(* What is stored stays, and stays apart.                                  *)

Inv == TypeOK /\ Tiling /\ OneHolder /\ Intact

\* The live stored forms are stored forms.
LEMMA LiveType ==
  ASSUME TypeOK
  PROVE  /\ Pending \in SUBSET Stored /\ Live \in SUBSET Stored
         /\ \A e \in Stored : /\ e.key \in Key /\ e.page \in Nat /\ e.at \in Nat
                              /\ Size[e.key] \in 1 .. PageSize
                              /\ e = [key |-> e.key, page |-> e.page, at |-> e.at]
<1>1. \A n \in DOMAIN pending : pending[n] \in Stored
  BY LenProperties, ElementOfSeq DEF TypeOK
<1> QED
  BY <1>1 DEF TypeOK, Pending, Live, Stored

\* The parts are blocks with owners.
LEMMA PartsType ==
  ASSUME TypeOK
  PROVE  Parts \in SUBSET PartSet
<1>1. \A b \in freeSpace : Part(NoBucket, b) \in PartSet
  BY FreeBlock DEF Part, PartSet, TypeOK
<1>2. \A e \in Stored : Part(e.key, BlockOf(e)) \in PartSet
  <2> SUFFICES ASSUME NEW e \in Stored
               PROVE  Part(e.key, BlockOf(e)) \in PartSet
    OBVIOUS
  <2>1. BlockOf(e) \in Block
    BY LiveType DEF BlockOf, Block
  <2> QED
    BY <2>1, LiveType DEF Part, PartSet
<1>3. Part(Blank, Unused) \in PartSet
  BY DEF Part, PartSet, Block, Unused, TypeOK
<1> QED
  BY <1>1, <1>2, <1>3, LiveType DEF Parts

\* Bytes of a free or unused part are no bytes of what is stored (getArray).
LEMMA Apart ==
  ASSUME TypeOK, Tiling, NEW x \in Parts, x.owner \notin Key,
         NEW e \in Live, NEW n \in 0 .. Size[e.key] - 1
  PROVE  ~Holds(x.block, e.page, e.at + n)
<1> DEFINE y == Part(e.key, BlockOf(e))
<1>1. y \in Parts /\ y.owner \in Key /\ y.block = BlockOf(e)
  BY LiveType DEF Parts, Part
<1>2. y # x
  BY <1>1
<1>3. e.page \in 1 .. pages /\ e.at + n \in 0 .. PageSize - 1
  BY PartFacts, LiveType
<1>4. Holds(BlockOf(e), e.page, e.at + n)
  BY LiveType DEF Holds, BlockOf
<1> QED
  BY <1>1, <1>2, <1>3, <1>4 DEF Tiling, Tiles

\* storeFormula into bytes that nothing stored uses harms nothing.
LEMMA StoreKeeps ==
  ASSUME Inv, NEW k \in Key, Searchable(k),
         NEW p \in 1 .. MaxPages, NEW o \in Nat, o + Size[k] <= PageSize,
         StoreFormula(k, p, o), pending' = pending, hashTable' = hashTable,
         \A e \in Live : \A n \in 0 .. Size[e.key] - 1 :
           ~(e.page = p /\ o <= e.at + n /\ e.at + n < o + Size[k])
  PROVE  Intact' /\ OneHolder' /\ Live' = Live \cup {bucket'}
<1>1. bucket = NoBucket /\ Live = hashTable \cup Pending
  BY DEF Searchable, Live
<1>2. Live' = Live \cup {bucket'}
  BY <1>1, StoreBytes DEF Live, Pending, Inv
<1>3. /\ bucket' = [key |-> k, page |-> p, at |-> o]
      /\ \A q \in 1 .. MaxPages, x \in 0 .. PageSize - 1 :
           memory'[q][x] = IF q = p /\ o <= x /\ x < o + Size[k] THEN <<k, x - o>>
                           ELSE memory[q][x]
  BY StoreBytes DEF Inv
<1>4. \A e \in Live : e \in Stored /\ e.page \in 1 .. MaxPages /\ e.at + Size[e.key] <= PageSize
  BY LiveType, PartFacts DEF Inv, TypeOK
<1>5. ASSUME NEW e \in Live, NEW n \in 0 .. Size[e.key] - 1
      PROVE  memory'[e.page][e.at + n] = <<e.key, n>>
  <2>1. e.at + n \in 0 .. PageSize - 1
    BY <1>4, LiveType DEF Inv
  <2>2. memory'[e.page][e.at + n] = memory[e.page][e.at + n]
    BY <1>3, <1>4, <2>1
  <2> QED
    BY <2>2 DEF Inv, Intact
<1>6. ASSUME NEW n \in 0 .. Size[k] - 1
      PROVE  memory'[p][o + n] = <<k, n>>
  <2>1. o + n \in 0 .. PageSize - 1 /\ o <= o + n /\ o + n < o + Size[k] /\ (o + n) - o = n
    BY SizeAssumption
  <2> QED
    BY <1>3, <2>1
<1>7. Intact'
  <2> SUFFICES ASSUME NEW e \in Live', NEW n \in 0 .. Size[e.key] - 1
               PROVE  memory'[e.page][e.at + n] = <<e.key, n>>
    BY DEF Intact
  <2>1. CASE e \in Live
    BY <1>5, <2>1
  <2>2. CASE e = bucket'
    <3>1. e.key = k /\ e.page = p /\ e.at = o
      BY <1>3, <2>2
    <3> QED
      BY <1>6, <3>1
  <2> QED
    BY <1>2, <2>1, <2>2
<1>8. bucket' \notin Live
  <2> SUFFICES ASSUME bucket' \in Live
               PROVE  FALSE
    OBVIOUS
  <2>1. 0 \in 0 .. Size[k] - 1 /\ o <= o + 0 /\ o + 0 < o + Size[k]
    BY SizeAssumption
  <2> QED
    BY <1>3, <2>1
<1>9. OneHolder'
  BY <1>1, <1>3, <1>8 DEF OneHolder, Pending, Inv, Searchable
<1> QED
  BY <1>2, <1>7, <1>9

-----------------------------------------------------------------------------
(* One step.                                                               *)

\* A part that is free, or not yet handed out, gives its first bytes to a stored
\* form and keeps the rest, if there is one (getArray).
LEMMA Carve ==
  ASSUME Inv, NEW k \in Key, Searchable(k), NEW x \in Parts, x.owner \notin Key,
         x.block.size >= Size[k], StoreFormula(k, x.block.page, x.block.at),
         pending' = pending, hashTable' = hashTable, pages' = pages,
         NEW R \in SUBSET PartSet,
         \A r \in R : /\ r.block.page = x.block.page
                      /\ r.block.at = x.block.at + Size[k]
                      /\ r.block.size = x.block.size - Size[k],
         \A r, s \in R : r = s,
         R = {} => x.block.size = Size[k],
         Parts' = (Parts \ {x}) \cup {Part(bucket'.key, BlockOf(bucket'))} \cup R
  PROVE  Tiling' /\ OneHolder' /\ Intact'
<1> DEFINE b == x.block
           y == Part(bucket'.key, BlockOf(bucket'))
<1>1. x \in PartSet /\ b \in Block /\ b.page \in Nat /\ b.at \in Nat /\ b.size \in Nat
  BY PartsType DEF Inv, PartSet, Block
<1>2. b.page \in 1 .. pages /\ b.at + b.size <= PageSize
  BY DEF Inv, Tiling, Tiles
<1>3. pages \in Nat /\ b.page \in 1 .. MaxPages /\ Size[k] \in 1 .. PageSize
  BY <1>2 DEF Inv, TypeOK
<1>4. b.at + Size[k] <= PageSize
  BY <1>1, <1>2, <1>3
<1>5. ASSUME NEW e \in Live, NEW n \in 0 .. Size[e.key] - 1
      PROVE  ~(e.page = b.page /\ b.at <= e.at + n /\ e.at + n < b.at + Size[k])
  <2>1. ~Holds(b, e.page, e.at + n)
    BY Apart DEF Inv
  <2>2. e.at + n \in Nat
    BY LiveType DEF Inv
  <2> QED
    BY <1>1, <1>3, <2>1, <2>2 DEF Holds
<1>6. Intact' /\ OneHolder'
  BY <1>1, <1>3, <1>4, <1>5, StoreKeeps
<1>7. /\ bucket' = [key |-> k, page |-> b.page, at |-> b.at]
      /\ bucket' \in Stored
  BY <1>1, <1>3, StoreBytes DEF Inv
<1>8. y = [owner |-> k, block |-> [page |-> b.page, at |-> b.at, size |-> Size[k]]]
  BY <1>7 DEF Part, BlockOf
<1>9. y \in PartSet
  BY <1>1, <1>3, <1>8 DEF PartSet, Block
<1> DEFINE Y == {y} \cup R
<1>10. \A z \in Y : z.block.page \in 1 .. pages /\ z.block.at + z.block.size <= PageSize
  BY <1>1, <1>2, <1>3, <1>4, <1>8
<1>11. ASSUME NEW p \in 1 .. pages, NEW o \in 0 .. PageSize - 1
       PROVE  /\ Holds(y.block, p, o) <=> p = b.page /\ b.at <= o /\ o < b.at + Size[k]
              /\ \A r \in R : Holds(r.block, p, o)
                   <=> p = b.page /\ b.at + Size[k] <= o /\ o < b.at + b.size
  BY <1>1, <1>3, <1>8 DEF Holds
<1>12. ASSUME NEW p \in 1 .. pages, NEW o \in 0 .. PageSize - 1
       PROVE  Holds(x.block, p, o) <=> \E z \in Y : Holds(z.block, p, o)
  <2>1. Holds(x.block, p, o) <=> p = b.page /\ b.at <= o /\ o < b.at + b.size
    BY DEF Holds
  <2>2. CASE R = {}
    BY <1>11, <2>1, <2>2
  <2>3. CASE R # {}
    <3>1. PICK r \in R : TRUE
      BY <2>3
    <3>2. Holds(r.block, p, o) <=> p = b.page /\ b.at + Size[k] <= o /\ o < b.at + b.size
      BY <1>11
    <3>3. \A z \in Y : z = y \/ z = r
      OBVIOUS
    <3> QED
      BY <1>1, <1>3, <1>11, <2>1, <3>2, <3>3
  <2> QED
    BY <2>2, <2>3
<1>13. ASSUME NEW z \in Y, NEW w \in Y, NEW p \in 1 .. pages, NEW o \in 0 .. PageSize - 1,
              Holds(z.block, p, o), Holds(w.block, p, o)
       PROVE  z = w
  <2>1. CASE z = y /\ w \in R
    BY <1>1, <1>3, <1>11, <1>13, <2>1
  <2>2. CASE w = y /\ z \in R
    BY <1>1, <1>3, <1>11, <1>13, <2>2
  <2> QED
    BY <2>1, <2>2
<1>14. Y \in SUBSET PartSet /\ Parts \in SUBSET PartSet /\ Tiles(Parts, pages)
  BY <1>9, PartsType DEF Inv, Tiling
<1>15. Tiles((Parts \ {x}) \cup Y, pages)
  <2> HIDE DEF Y
  <2> QED
    BY <1>3, <1>10, <1>12, <1>13, <1>14, Replace
<1>16. Parts' = (Parts \ {x}) \cup Y
  OBVIOUS
<1>17. Tiling'
  <2> HIDE DEF Y
  <2> QED
    BY <1>15, <1>16 DEF Tiling
<1> QED
  BY <1>6, <1>17

\* The stored form of a search joins those that are live.
LEMMA LiveAfterStore ==
  ASSUME TypeOK, NEW k \in Key, Searchable(k), NEW p \in 1 .. MaxPages, NEW o \in Nat,
         StoreFormula(k, p, o), pending' = pending, hashTable' = hashTable
  PROVE  Live' = Live \cup {bucket'}
<1>1. bucket = NoBucket
  BY DEF Searchable
<1>2. bucket' # NoBucket
  BY StoreBytes
<1>3. Pending' = Pending
  BY DEF Pending
<1> QED
  BY <1>1, <1>2, <1>3 DEF Live

\* Owners tell the free parts, the stored ones and the unused one apart.
LEMMA Owners ==
  ASSUME TypeOK
  PROVE  /\ \A b : Part(NoBucket, b).owner = NoBucket /\ Part(NoBucket, b).block = b
         /\ Part(Blank, Unused).owner = Blank /\ Part(Blank, Unused).block = Unused
         /\ \A e \in Live : /\ Part(e.key, BlockOf(e)).owner = e.key /\ e.key \in Key
                            /\ Part(e.key, BlockOf(e)).block = BlockOf(e)
         /\ NoBucket \notin Key /\ Blank \notin Key /\ Blank # NoBucket
BY LiveType DEF Part

LEMMA ReuseStep ==
  ASSUME Inv, NEW k \in Key, Reuse(k)
  PROVE  Tiling' /\ OneHolder' /\ Intact'
<1>1. PICK b \in freeSpace : /\ b.size = Size[k] /\ freeSpace' = freeSpace \ {b}
                             /\ StoreFormula(k, b.page, b.at)
  BY DEF Reuse, OfSize
<1>2. Searchable(k) /\ pages' = pages /\ posInData' = posInData
      /\ pending' = pending /\ hashTable' = hashTable
  BY DEF Reuse
<1> DEFINE x == Part(NoBucket, b)
<1>3. x \in Parts /\ x.owner = NoBucket /\ x.block = b
  BY Owners DEF Parts, Inv
<1>4. b.page \in 1 .. MaxPages /\ b.at \in Nat
  BY PartFacts, FreeBlock DEF Inv, TypeOK
<1>5. Live' = Live \cup {bucket'}
  BY <1>1, <1>2, <1>4, LiveAfterStore DEF Inv
<1>6. Unused' = Unused
  BY <1>2 DEF Unused
<1>7. Parts' = (Parts \ {x}) \cup {Part(bucket'.key, BlockOf(bucket'))} \cup {}
  <2>1. Parts' = {Part(NoBucket, c) : c \in freeSpace \ {b}}
                   \cup {Part(e.key, BlockOf(e)) : e \in Live \cup {bucket'}}
                   \cup {Part(Blank, Unused)}
    BY <1>1, <1>5, <1>6 DEF Parts
  <2>2. {Part(NoBucket, c) : c \in freeSpace \ {b}}
          = {Part(NoBucket, c) : c \in freeSpace} \ {x}
    BY Owners DEF Inv
  <2>3. x \notin {Part(e.key, BlockOf(e)) : e \in Live} /\ x # Part(Blank, Unused)
    BY <1>3, Owners DEF Inv
  <2>4. {Part(e.key, BlockOf(e)) : e \in Live \cup {bucket'}}
          = {Part(e.key, BlockOf(e)) : e \in Live} \cup {Part(bucket'.key, BlockOf(bucket'))}
    OBVIOUS
  <2> HIDE DEF x
  <2> QED
    BY <2>1, <2>2, <2>3, <2>4 DEF Parts
<1>8. x.block.size = Size[k] /\ x.block.size >= Size[k] /\ x.owner \notin Key
  BY <1>1, <1>3, FreeBlock DEF Inv
<1>9. StoreFormula(k, x.block.page, x.block.at)
  BY <1>1, <1>3
<1> DEFINE R == {}
<1>10. /\ R \in SUBSET PartSet /\ R = {} /\ \A q, s \in R : q = s
       /\ \A q \in R : /\ q.block.page = x.block.page
                       /\ q.block.at = x.block.at + Size[k]
                       /\ q.block.size = x.block.size - Size[k]
  OBVIOUS
<1>11. Parts' = (Parts \ {x}) \cup {Part(bucket'.key, BlockOf(bucket'))} \cup R
  BY <1>7
<1> QED
  <2> HIDE DEF x, R
  <2> QED
    BY <1>2, <1>3, <1>8, <1>9, <1>10, <1>11, Carve

LEMMA SplitStep ==
  ASSUME Inv, NEW k \in Key, Split(k)
  PROVE  Tiling' /\ OneHolder' /\ Intact'
<1>1. PICK b \in Splittable(Size[k]) :
        /\ freeSpace' = (freeSpace \ {b}) \cup {Rest(b, Size[k])}
        /\ StoreFormula(k, b.page, b.at)
  BY DEF Split
<1>2. Searchable(k) /\ pages' = pages /\ posInData' = posInData
      /\ pending' = pending /\ hashTable' = hashTable
  BY DEF Split
<1>3. /\ b \in freeSpace /\ b \in Block /\ b.size \in Nat /\ b.at \in Nat /\ b.page \in Nat
      /\ Size[k] \in 1 .. PageSize /\ b.size >= 2 * Size[k]
  BY FreeBlock DEF Splittable, Inv
<1> DEFINE x == Part(NoBucket, b)
           r == Part(NoBucket, Rest(b, Size[k]))
<1>4. x \in Parts /\ x.owner = NoBucket /\ x.block = b
  BY <1>3, Owners DEF Parts, Inv
<1>5. b.page \in 1 .. MaxPages
  BY <1>3, PartFacts DEF Inv, TypeOK
<1>6. b.size >= Size[k] /\ Size[k] \in Nat /\ Size[k] # 0
  BY <1>3
<1>7. /\ Rest(b, Size[k]) = [page |-> b.page, at |-> b.at + Size[k], size |-> b.size - Size[k]]
      /\ Rest(b, Size[k]) \in Block
  BY <1>3, <1>6, RestFacts
<1>8. r \in PartSet /\ r.block = Rest(b, Size[k])
  BY <1>7 DEF Part, PartSet
<1>9. Live' = Live \cup {bucket'}
  BY <1>1, <1>2, <1>3, <1>5, LiveAfterStore DEF Inv
<1>10. Unused' = Unused
  BY <1>2 DEF Unused
<1>11. Parts' = (Parts \ {x}) \cup {Part(bucket'.key, BlockOf(bucket'))} \cup {r}
  <2>1. Parts' = {Part(NoBucket, c) : c \in (freeSpace \ {b}) \cup {Rest(b, Size[k])}}
                   \cup {Part(e.key, BlockOf(e)) : e \in Live \cup {bucket'}}
                   \cup {Part(Blank, Unused)}
    BY <1>1, <1>9, <1>10 DEF Parts
  <2>2. {Part(NoBucket, c) : c \in (freeSpace \ {b}) \cup {Rest(b, Size[k])}}
          = ({Part(NoBucket, c) : c \in freeSpace} \ {x}) \cup {r}
    BY Owners DEF Inv
  <2>3. x \notin {Part(e.key, BlockOf(e)) : e \in Live} /\ x # Part(Blank, Unused)
    BY <1>4, Owners DEF Inv
  <2>4. {Part(e.key, BlockOf(e)) : e \in Live \cup {bucket'}}
          = {Part(e.key, BlockOf(e)) : e \in Live} \cup {Part(bucket'.key, BlockOf(bucket'))}
    OBVIOUS
  <2> HIDE DEF x, r
  <2> QED
    BY <2>1, <2>2, <2>3, <2>4 DEF Parts
<1>12. x.block.size >= Size[k] /\ x.owner \notin Key
  BY <1>4, <1>6, Owners DEF Inv
<1>13. StoreFormula(k, x.block.page, x.block.at)
  BY <1>1, <1>4
<1> DEFINE R == {r}
<1>14. /\ R \in SUBSET PartSet /\ R # {} /\ \A q, s \in R : q = s
       /\ \A q \in R : /\ q.block.page = x.block.page
                       /\ q.block.at = x.block.at + Size[k]
                       /\ q.block.size = x.block.size - Size[k]
  BY <1>4, <1>7, <1>8
<1>15. Parts' = (Parts \ {x}) \cup {Part(bucket'.key, BlockOf(bucket'))} \cup R
  BY <1>11
<1> QED
  <2> HIDE DEF x, R
  <2> QED
    BY <1>2, <1>4, <1>12, <1>13, <1>14, <1>15, Carve

LEMMA FreshStep ==
  ASSUME Inv, NEW k \in Key, Fresh(k)
  PROVE  Tiling' /\ OneHolder' /\ Intact'
<1>1. /\ Searchable(k) /\ StoreFormula(k, pages, posInData)
      /\ posInData + Size[k] <= PageSize /\ posInData' = posInData + Size[k]
      /\ pages' = pages /\ freeSpace' = freeSpace
      /\ pending' = pending /\ hashTable' = hashTable
  BY DEF Fresh, Fits
<1>2. pages \in 1 .. MaxPages /\ posInData \in Nat /\ Size[k] \in 1 .. PageSize
  BY DEF Inv, TypeOK
<1> DEFINE x == Part(Blank, Unused)
           r == Part(Blank, [page |-> pages, at |-> posInData + Size[k],
                             size |-> PageSize - (posInData + Size[k])])
<1>3. x \in Parts /\ x.owner = Blank /\ x.block = Unused
  BY Owners DEF Parts, Inv
<1>4. r \in PartSet /\ Unused' = r.block /\ r = Part(Blank, Unused')
  BY <1>1, <1>2 DEF Part, PartSet, Block, Unused
<1>5. Live' = Live \cup {bucket'}
  BY <1>1, <1>2, LiveAfterStore DEF Inv
<1>6. Parts' = (Parts \ {x}) \cup {Part(bucket'.key, BlockOf(bucket'))} \cup {r}
  <2>1. Parts' = {Part(NoBucket, c) : c \in freeSpace}
                   \cup {Part(e.key, BlockOf(e)) : e \in Live \cup {bucket'}} \cup {r}
    BY <1>1, <1>4, <1>5 DEF Parts
  <2>2. x \notin {Part(e.key, BlockOf(e)) : e \in Live}
        /\ x \notin {Part(NoBucket, c) : c \in freeSpace}
    BY <1>3, Owners DEF Inv
  <2>3. {Part(e.key, BlockOf(e)) : e \in Live \cup {bucket'}}
          = {Part(e.key, BlockOf(e)) : e \in Live} \cup {Part(bucket'.key, BlockOf(bucket'))}
    OBVIOUS
  <2>4. Parts = {Part(NoBucket, c) : c \in freeSpace}
                  \cup {Part(e.key, BlockOf(e)) : e \in Live} \cup {x}
    BY DEF Parts
  <2> HIDE DEF x, r
  <2> QED
    BY <2>1, <2>2, <2>3, <2>4
<1>7. x.block.page = pages /\ x.block.at = posInData /\ x.block.size = PageSize - posInData
  BY <1>3 DEF Unused
<1>8. x.block.size >= Size[k] /\ x.owner \notin Key
  BY <1>1, <1>2, <1>3, <1>7
<1>9. StoreFormula(k, x.block.page, x.block.at)
  BY <1>1, <1>7
<1> DEFINE R == {r}
<1>10. r.block.page = pages /\ r.block.at = posInData + Size[k]
       /\ r.block.size = PageSize - (posInData + Size[k])
  BY DEF Part
<1>11. /\ R \in SUBSET PartSet /\ R # {} /\ \A q, s \in R : q = s
       /\ \A q \in R : /\ q.block.page = x.block.page
                       /\ q.block.at = x.block.at + Size[k]
                       /\ q.block.size = x.block.size - Size[k]
  BY <1>2, <1>4, <1>7, <1>10
<1>12. Parts' = (Parts \ {x}) \cup {Part(bucket'.key, BlockOf(bucket'))} \cup R
  BY <1>6
<1> QED
  <2> HIDE DEF x, R
  <2> QED
    BY <1>1, <1>3, <1>8, <1>9, <1>11, <1>12, Carve

LEMMA FreshPageStep ==
  ASSUME Inv, NEW k \in Key, FreshPage(k)
  PROVE  Tiling' /\ OneHolder' /\ Intact'
<1>1. /\ Searchable(k) /\ StoreFormula(k, pages + 1, 0)
      /\ pages + 1 <= MaxPages /\ pages' = pages + 1 /\ posInData' = Size[k]
      /\ freeSpace' = freeSpace \cup {Unused}
      /\ pending' = pending /\ hashTable' = hashTable
  BY DEF FreshPage, EndOfPage, Inv, TypeOK
<1>2. /\ pages \in 1 .. MaxPages /\ pages + 1 \in 1 .. MaxPages /\ pages \in Nat
      /\ posInData \in Nat /\ Size[k] \in 1 .. PageSize
  BY <1>1 DEF Inv, TypeOK
<1>3. \A e \in Live : e.page # pages + 1
  BY <1>2, PartFacts DEF Inv
<1>4. Intact' /\ OneHolder' /\ Live' = Live \cup {bucket'}
  BY <1>1, <1>2, <1>3, StoreKeeps
<1> DEFINE x == Part(Blank, Unused)
           f == Part(NoBucket, Unused)
           y == Part(k, [page |-> pages + 1, at |-> 0, size |-> Size[k]])
           r == Part(Blank, [page |-> pages + 1, at |-> Size[k], size |-> PageSize - Size[k]])
           P == (Parts \ {x}) \cup {f}
           Y == {y, r}
<1>5. x \in Parts /\ x.owner = Blank /\ x.block = Unused /\ f.block = Unused
  BY Owners DEF Parts, Inv
<1>6. bucket' = [key |-> k, page |-> pages + 1, at |-> 0] /\ bucket' \in Stored
  BY <1>1, <1>2, StoreBytes DEF Inv
<1>7. y = Part(bucket'.key, BlockOf(bucket')) /\ r = Part(Blank, Unused')
  BY <1>1, <1>6 DEF BlockOf, Unused
<1>8. Parts' = P \cup Y
  <2>1. Parts' = {Part(NoBucket, c) : c \in freeSpace \cup {Unused}}
                   \cup {Part(e.key, BlockOf(e)) : e \in Live \cup {bucket'}} \cup {r}
    BY <1>1, <1>4, <1>7 DEF Parts
  <2>2. x \notin {Part(e.key, BlockOf(e)) : e \in Live}
        /\ x \notin {Part(NoBucket, c) : c \in freeSpace}
    BY <1>5, Owners DEF Inv
  <2>3. {Part(e.key, BlockOf(e)) : e \in Live \cup {bucket'}}
          = {Part(e.key, BlockOf(e)) : e \in Live} \cup {y}
    BY <1>7
  <2>4. {Part(NoBucket, c) : c \in freeSpace \cup {Unused}}
          = {Part(NoBucket, c) : c \in freeSpace} \cup {f}
    OBVIOUS
  <2>5. Parts = {Part(NoBucket, c) : c \in freeSpace}
                  \cup {Part(e.key, BlockOf(e)) : e \in Live} \cup {x}
    BY DEF Parts
  <2> HIDE DEF x, f, y, r
  <2> QED
    BY <2>1, <2>2, <2>3, <2>4, <2>5
<1>9. Parts \in SUBSET PartSet /\ f \in PartSet /\ y \in PartSet /\ r \in PartSet
  BY <1>2, PartsType, FreeBlock DEF Inv, Part, PartSet, Block
<1>10. Tiles(P, pages)
  <2> DEFINE F == {f}
  <2>1. /\ F \in SUBSET PartSet
        /\ \A z \in F : z.block.page \in 1 .. pages /\ z.block.at + z.block.size <= PageSize
        /\ \A p \in 1 .. pages, o \in 0 .. PageSize - 1 :
             Holds(x.block, p, o) <=> \E z \in F : Holds(z.block, p, o)
        /\ \A z, w \in F : \A p \in 1 .. pages, o \in 0 .. PageSize - 1 :
             Holds(z.block, p, o) /\ Holds(w.block, p, o) => z = w
    BY <1>5, <1>9 DEF Inv, Tiling, Tiles
  <2>2. Tiles(Parts, pages)
    BY DEF Inv, Tiling
  <2>3. P = (Parts \ {x}) \cup F
    OBVIOUS
  <2> HIDE DEF x, F, P
  <2> QED
    BY <1>2, <1>5, <1>9, <2>1, <2>2, <2>3, Replace
<1>11. Tiles(P \cup Y, pages + 1)
  <2>1. /\ y.block = [page |-> pages + 1, at |-> 0, size |-> Size[k]]
        /\ r.block = [page |-> pages + 1, at |-> Size[k], size |-> PageSize - Size[k]]
    BY DEF Part
  <2>2. \A z \in Y : z.block.page = pages + 1 /\ z.block.at + z.block.size <= PageSize
    BY <1>2, <2>1
  <2>3. \A o \in 0 .. PageSize - 1 : /\ Holds(y.block, pages + 1, o) <=> o < Size[k]
                                     /\ Holds(r.block, pages + 1, o) <=> Size[k] <= o
    BY <1>2, <2>1 DEF Holds
  <2>4. \A o \in 0 .. PageSize - 1 : \E z \in Y : Holds(z.block, pages + 1, o)
    BY <1>2, <2>3
  <2>5. \A o \in 0 .. PageSize - 1 : ~(Holds(y.block, pages + 1, o) /\ Holds(r.block, pages + 1, o))
    BY <1>2, <2>3
  <2>6. \A z, w \in Y : \A o \in 0 .. PageSize - 1 :
          Holds(z.block, pages + 1, o) /\ Holds(w.block, pages + 1, o) => z = w
    <3> HIDE DEF y, r
    <3> QED
      BY <2>5
  <2>7. P \in SUBSET PartSet /\ Y \in SUBSET PartSet
    BY <1>9
  <2> HIDE DEF P, Y
  <2> QED
    BY <1>2, <1>10, <2>2, <2>4, <2>6, <2>7, NewPage
<1>12. Tiling'
  BY <1>1, <1>8, <1>11 DEF Tiling
<1> QED
  BY <1>4, <1>12

\* Giving memory back changes its owner (releaseMemory).
LEMMA HitStep ==
  ASSUME Inv, Hit
  PROVE  Tiling' /\ OneHolder' /\ Intact'
<1>1. /\ bucket # NoBucket /\ bucket \in Stored /\ bucket' = NoBucket
      /\ freeSpace' = freeSpace \cup {BlockOf(bucket)}
      /\ pages' = pages /\ posInData' = posInData /\ memory' = memory
      /\ pending' = pending /\ hashTable' = hashTable
  BY DEF Hit, Inv, TypeOK
<1>2. Pending' = Pending /\ Live' = hashTable \cup Pending /\ Live = Live' \cup {bucket}
  BY <1>1 DEF Live, Pending
<1>3. bucket \notin hashTable \cup Pending
  BY <1>1 DEF Inv, OneHolder, Pending
<1>4. Intact'
  BY <1>1, <1>2 DEF Inv, Intact
<1>5. OneHolder'
  BY <1>1, <1>2, LiveType DEF Inv, OneHolder, Stored
<1> DEFINE x == Part(bucket.key, BlockOf(bucket))
           f == Part(NoBucket, BlockOf(bucket))
           F == {f}
<1>6. x \in Parts /\ x.block = BlockOf(bucket) /\ f.block = BlockOf(bucket)
  BY <1>2, Owners DEF Parts, Inv
<1>7. \A e \in hashTable \cup Pending : Part(e.key, BlockOf(e)) # x
  <2> SUFFICES ASSUME NEW e \in hashTable \cup Pending, Part(e.key, BlockOf(e)) = x
               PROVE  FALSE
    OBVIOUS
  <2>1. e.key = bucket.key /\ e.page = bucket.page /\ e.at = bucket.at
    BY DEF Part, BlockOf
  <2>2. e = bucket
    BY <1>1, <1>2, <2>1, LiveType DEF Inv
  <2> QED
    BY <1>3, <2>2
<1>8. Parts' = (Parts \ {x}) \cup F
  <2>1. Parts' = {Part(NoBucket, c) : c \in freeSpace \cup {BlockOf(bucket)}}
                   \cup {Part(e.key, BlockOf(e)) : e \in hashTable \cup Pending}
                   \cup {Part(Blank, Unused)}
    BY <1>1, <1>2 DEF Parts, Unused
  <2>2. x \notin {Part(NoBucket, c) : c \in freeSpace} /\ x # Part(Blank, Unused)
    BY <1>2, Owners DEF Inv
  <2>3. {Part(NoBucket, c) : c \in freeSpace \cup {BlockOf(bucket)}}
          = {Part(NoBucket, c) : c \in freeSpace} \cup {f}
    OBVIOUS
  <2>4. {Part(e.key, BlockOf(e)) : e \in Live}
          = {Part(e.key, BlockOf(e)) : e \in hashTable \cup Pending} \cup {x}
    BY <1>2
  <2>5. x \notin {Part(e.key, BlockOf(e)) : e \in hashTable \cup Pending}
    BY <1>7
  <2>6. Parts = {Part(NoBucket, c) : c \in freeSpace}
                  \cup {Part(e.key, BlockOf(e)) : e \in Live} \cup {Part(Blank, Unused)}
    BY DEF Parts
  <2> HIDE DEF x, f
  <2> QED
    BY <2>1, <2>2, <2>3, <2>4, <2>5, <2>6
<1>9. Parts \in SUBSET PartSet /\ F \in SUBSET PartSet
  <2>1. BlockOf(bucket) \in Block
    BY <1>1, LiveType DEF BlockOf, Block, Inv
  <2> QED
    BY <2>1, PartsType DEF Inv, Part, PartSet
<1>10. Tiles((Parts \ {x}) \cup F, pages)
  <2>1. /\ \A z \in F : z.block.page \in 1 .. pages /\ z.block.at + z.block.size <= PageSize
        /\ \A p \in 1 .. pages, o \in 0 .. PageSize - 1 :
             Holds(x.block, p, o) <=> \E z \in F : Holds(z.block, p, o)
        /\ \A z, w \in F : \A p \in 1 .. pages, o \in 0 .. PageSize - 1 :
             Holds(z.block, p, o) /\ Holds(w.block, p, o) => z = w
    BY <1>6 DEF Inv, Tiling, Tiles
  <2>2. Tiles(Parts, pages) /\ pages \in Nat
    BY DEF Inv, Tiling, TypeOK
  <2> HIDE DEF x, F
  <2> QED
    BY <1>6, <1>9, <2>1, <2>2, Replace
<1>11. Tiling'
  BY <1>1, <1>8, <1>10 DEF Tiling
<1> QED
  BY <1>4, <1>5, <1>11

\* The comparison of bytes is the comparison of keys (CacheCNF::bucketSearch).
LEMMA SameKey ==
  ASSUME TypeOK, Intact, NEW e \in Live, NEW f \in Live
  PROVE  SameBytes(e, f) <=> e.key = f.key
<1>1. /\ Size[e.key] \in Nat \ {0}
      /\ \A n \in 0 .. Size[e.key] - 1 : memory[e.page][e.at + n] = <<e.key, n>>
      /\ \A n \in 0 .. Size[f.key] - 1 : memory[f.page][f.at + n] = <<f.key, n>>
  <2>1. Size[e.key] \in 1 .. PageSize
    BY LiveType
  <2>2. Size[e.key] \in Nat \ {0}
    BY <2>1
  <2> QED
    BY <2>2 DEF Intact
<1>2. ASSUME SameBytes(e, f)
      PROVE  e.key = f.key
  <2>1. 0 \in 0 .. Size[e.key] - 1 /\ 0 \in 0 .. Size[f.key] - 1
    BY <1>1, <1>2 DEF SameBytes
  <2>2. <<e.key, 0>> = <<f.key, 0>>
    BY <1>1, <1>2, <2>1 DEF SameBytes
  <2> QED
    BY <2>2
<1>3. ASSUME e.key = f.key
      PROVE  SameBytes(e, f)
  BY <1>1, <1>3 DEF SameBytes
<1> QED
  BY <1>2, <1>3

LEMMA MissStep ==
  ASSUME Inv, Miss
  PROVE  Tiling' /\ OneHolder' /\ Intact'
<1>1. /\ bucket # NoBucket /\ bucket \in Stored /\ bucket' = NoBucket
      /\ pending' = Append(pending, bucket)
      /\ pages' = pages /\ posInData' = posInData /\ memory' = memory
      /\ freeSpace' = freeSpace /\ hashTable' = hashTable
  BY DEF Miss, Inv, TypeOK
<1>2. /\ Len(pending) \in Nat /\ DOMAIN pending = 1 .. Len(pending)
      /\ DOMAIN pending' = 1 .. Len(pending) + 1
      /\ pending'[Len(pending) + 1] = bucket
      /\ \A n \in 1 .. Len(pending) : pending'[n] = pending[n]
  BY <1>1, PushFacts, LenProperties DEF Inv, TypeOK
<1>3. Pending' = Pending \cup {bucket}
  BY <1>2 DEF Pending
<1>4. Live' = Live
  BY <1>1, <1>3 DEF Live
<1>5. Tiling'
  BY <1>1, <1>4 DEF Inv, Tiling, Parts, Unused
<1>6. Intact'
  BY <1>1, <1>4 DEF Inv, Intact
<1>7. OneHolder'
  <2>1. \A e \in hashTable : e.key # bucket.key
    <3> SUFFICES ASSUME NEW e \in hashTable
                 PROVE  e.key # bucket.key
      OBVIOUS
    <3>1. e \in Live /\ bucket \in Live
      BY <1>1 DEF Live
    <3>2. ~SameBytes(e, bucket)
      BY DEF Miss
    <3> QED
      BY <3>1, <3>2, SameKey DEF Inv
  <2>2. \A n \in 1 .. Len(pending) : pending[n].key # bucket.key
    BY <1>1, <1>2 DEF Inv, OneHolder
  <2>3. \A e \in Pending : e.key # bucket.key
    BY <1>2, <2>2 DEF Pending
  <2>4. \A m, n \in DOMAIN pending' : pending'[m].key = pending'[n].key => m = n
    <3> SUFFICES ASSUME NEW m \in 1 .. Len(pending) + 1, NEW n \in 1 .. Len(pending) + 1,
                        pending'[m].key = pending'[n].key
                 PROVE  m = n
      BY <1>2
    <3>1. CASE m = Len(pending) + 1
      BY <1>2, <2>2, <3>1
    <3>2. CASE n = Len(pending) + 1
      BY <1>2, <2>2, <3>2
    <3>3. CASE m \in 1 .. Len(pending) /\ n \in 1 .. Len(pending)
      BY <1>2, <3>3 DEF Inv, OneHolder
    <3> QED
      BY <1>2, <3>1, <3>2, <3>3
  <2>5. \A e, f \in hashTable' \cup Pending' : e.key = f.key => e = f
    BY <1>1, <1>3, <2>1, <2>3 DEF Inv, OneHolder
  <2>6. hashTable' \cap Pending' = {}
    BY <1>1, <1>3, <2>1 DEF Inv, OneHolder
  <2>7. bucket' \notin hashTable'
    BY <1>1, LiveType DEF Inv, TypeOK, Stored
  <2> QED
    BY <1>1, <2>4, <2>5, <2>6, <2>7 DEF OneHolder
<1> QED
  BY <1>5, <1>6, <1>7

LEMMA AddInCacheStep ==
  ASSUME Inv, AddInCache
  PROVE  Tiling' /\ OneHolder' /\ Intact'
<1> DEFINE last == Len(pending)
           e == pending[last]
<1>1. /\ bucket = NoBucket /\ bucket' = NoBucket /\ pending # <<>>
      /\ pending' = SubSeq(pending, 1, last - 1) /\ hashTable' = hashTable \cup {e}
      /\ pages' = pages /\ posInData' = posInData /\ memory' = memory
      /\ freeSpace' = freeSpace
  BY DEF AddInCache
<1>2. /\ last \in Nat \ {0} /\ DOMAIN pending = 1 .. last /\ e \in Stored
      /\ pending' \in Seq(Stored) /\ Len(pending') = last - 1
      /\ \A n \in 1 .. last - 1 : pending'[n] = pending[n]
  BY <1>1, PopFacts, LenProperties DEF Inv, TypeOK
<1>3. DOMAIN pending' = 1 .. last - 1
  BY <1>2, LenProperties
<1>4. Pending = Pending' \cup {e}
  <2>1. \A n \in 1 .. last : n \in 1 .. last - 1 \/ n = last
    BY <1>2
  <2>2. 1 .. last - 1 \in SUBSET (1 .. last) /\ last \in 1 .. last
    BY <1>2
  <2> HIDE DEF last
  <2> QED
    BY <1>2, <1>3, <2>1, <2>2 DEF Pending
<1>5. e \notin Pending'
  <2> SUFFICES ASSUME NEW n \in 1 .. last - 1, pending'[n] = e
               PROVE  FALSE
    BY <1>3 DEF Pending
  <2>1. pending[n] = e /\ n \in 1 .. last /\ last \in 1 .. last /\ n # last
    BY <1>2
  <2> QED
    BY <1>2, <2>1 DEF Inv, OneHolder
<1>6. hashTable' \cup Pending' = hashTable \cup Pending
  BY <1>1, <1>4
<1>7. Live' = Live
  BY <1>1, <1>6 DEF Live
<1>8. Tiling'
  BY <1>1, <1>7 DEF Inv, Tiling, Parts, Unused
<1>9. Intact'
  BY <1>1, <1>7 DEF Inv, Intact
<1>10. OneHolder'
  <2>1. \A m, n \in DOMAIN pending' : pending'[m].key = pending'[n].key => m = n
    <3>1. \A n \in 1 .. last - 1 : n \in 1 .. last
      BY <1>2
    <3> QED
      BY <1>2, <1>3, <3>1 DEF Inv, OneHolder
  <2>2. hashTable' \cap Pending' = {}
    BY <1>1, <1>4, <1>5 DEF Inv, OneHolder
  <2>3. bucket' \notin hashTable'
    BY <1>1, <1>2, LiveType DEF Inv, TypeOK, Stored
  <2>4. \A c, d \in hashTable' \cup Pending' : c.key = d.key => c = d
    BY <1>6 DEF Inv, OneHolder
  <2> QED
    BY <1>1, <2>1, <2>2, <2>3, <2>4 DEF OneHolder
<1> QED
  BY <1>8, <1>9, <1>10

-----------------------------------------------------------------------------
(* The theorems.                                                           *)

LEMMA InitInv ==
  ASSUME Init
  PROVE  Inv
<1>1. TypeOK
  BY EmptySeq DEF Init, TypeOK, Stored
<1>2. Pending = {} /\ Live = {} /\ Unused = [page |-> 1, at |-> 0, size |-> PageSize]
  BY DEF Init, Pending, Live, Unused
<1>3. Parts = {Part(Blank, Unused)}
  BY <1>2 DEF Init, Parts
<1>4. Tiling
  BY <1>2, <1>3 DEF Init, Tiling, Tiles, Holds, Part
<1>5. OneHolder /\ Intact
  BY <1>2 DEF Init, OneHolder, Intact
<1> QED
  BY <1>1, <1>4, <1>5 DEF Inv

LEMMA NextInv ==
  ASSUME Inv, [Next]_vars
  PROVE  Inv'
<1>1. TypeOK'
  BY TypeStep DEF Inv
<1>2. Tiling' /\ OneHolder' /\ Intact'
  <2>1. ASSUME NEW k \in Key, Reuse(k) \/ Split(k) \/ Fresh(k) \/ FreshPage(k)
        PROVE  Tiling' /\ OneHolder' /\ Intact'
    BY <2>1, ReuseStep, SplitStep, FreshStep, FreshPageStep
  <2>2. CASE Hit
    BY <2>2, HitStep
  <2>3. CASE Miss
    BY <2>3, MissStep
  <2>4. CASE AddInCache
    BY <2>4, AddInCacheStep
  <2>5. CASE UNCHANGED vars
    <3>1. Pending' = Pending /\ Live' = Live /\ Unused' = Unused
      BY <2>5 DEF vars, Live, Pending, Unused
    <3>2. Parts' = Parts
      BY <2>5, <3>1 DEF vars, Parts
    <3>3. Tiling'
      BY <2>5, <3>2 DEF vars, Inv, Tiling
    <3>4. OneHolder'
      BY <2>5, <3>1 DEF vars, Inv, OneHolder
    <3>5. Intact'
      BY <2>5, <3>1 DEF vars, Inv, Intact
    <3> QED
      BY <3>3, <3>4, <3>5
  <2> QED
    BY <2>1, <2>2, <2>3, <2>4, <2>5 DEF Next
<1> QED
  BY <1>1, <1>2 DEF Inv

\* The variables keep their types (BucketManagerInterface, CacheCNF).
THEOREM TypeCorrect == Spec => []TypeOK
<1>1. Spec => []Inv
  BY InitInv, NextInv, PTL DEF Spec
<1> QED
  BY <1>1, PTL DEF Inv

\* The page allocator never hands out a byte twice and never loses one, whatever
\* the sizes of the stored forms, of the pages and the order of the calls
\* (getArray, releaseMemory).
THEOREM TilingCorrect == Spec => []Tiling
<1>1. Spec => []Inv
  BY InitInv, NextInv, PTL DEF Spec
<1> QED
  BY <1>1, PTL DEF Inv

\* No stored form is at once in the table, pending and in the bucket, or twice in
\* one of them (searchInCache, addInCache).
THEOREM OneHolderCorrect == Spec => []OneHolder
<1>1. Spec => []Inv
  BY InitInv, NextInv, PTL DEF Spec
<1> QED
  BY <1>1, PTL DEF Inv

\* What a search stored is what addInCache and the later searches read, however
\* many searches and releases lie between (storeFormula).
THEOREM IntactCorrect == Spec => []Intact
<1>1. Spec => []Inv
  BY InitInv, NextInv, PTL DEF Spec
<1> QED
  BY <1>1, PTL DEF Inv

\* The cache answers a search with the entry of its own component or not at all
\* (CacheCNF::bucketSearch): this follows from Intact.
THEOREM SearchCorrect == Spec => []SearchExact
<1>1. Spec => []Inv
  BY InitInv, NextInv, PTL DEF Spec
<1>2. ASSUME Inv
      PROVE  SearchExact
  <2> SUFFICES ASSUME bucket # NoBucket, NEW e \in hashTable
               PROVE  SameBytes(e, bucket) <=> e.key = bucket.key
    BY DEF SearchExact
  <2>1. e \in Live /\ bucket \in Live
    BY DEF Live
  <2> QED
    BY <1>2, <2>1, SameKey DEF Inv
<1> QED
  BY <1>1, <1>2, PTL

-----------------------------------------------------------------------------
(* The table.                                                              *)

USE HashAssumption, NbVarAssumption, StrategyAssumption

Entry == [stored : Stored, count : Int, dirty : Int]
SlotsType == slots \in [0 .. SizeHash - 1 -> Seq(Entry)]
CountersType == nbPositiveHit \in Int /\ nbNegativeHit \in Int

\* Bytes that are equal are equal keys (Inv), and an entry is where its hash
\* says: so the one list tells as much as all entries.
TableInv == Inv /\ SlotsType /\ CountersType /\ SlotsExact

\* A hash, modulo the size of the table, is the index of a list.
LEMMA SlotIndex ==
  ASSUME NEW k \in Key
  PROVE  SlotOf(k) \in 0 .. SizeHash - 1
<1>1. Hash[k] \in Nat /\ SizeHash \in Nat \ {0}
  OBVIOUS
<1> QED
  BY <1>1 DEF SlotOf

\* The bucket and the entries are stored forms.
LEMMA StoredFacts ==
  ASSUME TypeOK
  PROVE  /\ bucket # NoBucket => bucket \in Stored /\ bucket.key \in Key /\ bucket \in Live
         /\ \A e \in hashTable : e \in Stored /\ e.key \in Key /\ e \in Live
BY DEF TypeOK, Stored, Live

\* A search that finds an entry is a hit of BucketMemory.
LEMMA FindsIsHit ==
  ASSUME TableInv, SearchFinds
  PROVE  Hit
<1>1. bucket # NoBucket /\ bucket.key \in Key
  BY StoredFacts DEF SearchFinds, TableInv, Inv
<1>2. PICK n \in Matches(slots[SlotOf(bucket.key)]) : TRUE
  BY DEF SearchFinds
<1>3. /\ n \in DOMAIN slots[SlotOf(bucket.key)]
      /\ SameBytes(slots[SlotOf(bucket.key)][n].stored, bucket)
  BY <1>2 DEF Matches
<1>4. slots[SlotOf(bucket.key)][n].stored \in hashTable
  BY <1>1, <1>3, SlotIndex DEF TableInv, SlotsType, SlotsExact
<1> QED
  BY <1>1, <1>3, <1>4 DEF SearchFinds, Hit

\* A search that fails is a miss of BucketMemory: no entry, of whatever list, has
\* the bytes.
LEMMA FailsIsMiss ==
  ASSUME TableInv, SearchFails
  PROVE  Miss
<1>1. bucket # NoBucket /\ bucket \in Live
  BY StoredFacts DEF SearchFails, TableInv, Inv
<1>2. ASSUME NEW e \in hashTable, SameBytes(e, bucket)
      PROVE  FALSE
  <2>1. e.key = bucket.key
    BY <1>1, <1>2, SameKey, StoredFacts DEF TableInv, Inv
  <2>2. PICK n \in DOMAIN slots[SlotOf(bucket.key)] : slots[SlotOf(bucket.key)][n].stored = e
    BY <2>1 DEF TableInv, SlotsExact
  <2>3. SameHeader(bucket, e)
    BY <2>1 DEF SameHeader
  <2> QED
    BY <1>2, <2>2, <2>3 DEF SearchFails, Matches
<1> QED
  BY <1>1, <1>2 DEF SearchFails, Miss

\* Every step of the table is one of BucketMemory.
LEMMA StepImplements ==
  ASSUME TableInv, [CacheNext]_cacheVars
  PROVE  [Next]_vars
<1>1. CASE CollectBucket
  BY <1>1 DEF CollectBucket, Next
<1>2. CASE SearchFinds
  BY <1>2, FindsIsHit DEF Next
<1>3. CASE SearchFails
  BY <1>3, FailsIsMiss DEF Next
<1>4. CASE PushInHashTable
  BY <1>4 DEF PushInHashTable, Next
<1>5. CASE UNCHANGED cacheVars
  BY <1>5 DEF cacheVars
<1> QED
  BY <1>1, <1>2, <1>3, <1>4, <1>5 DEF CacheNext

-----------------------------------------------------------------------------
(* The lists keep what they hold.                                          *)

\* What does not touch the lists leaves them as they are.
LEMMA SlotsUnchanged ==
  ASSUME SlotsType, SlotsExact, slots' = slots, hashTable' = hashTable
  PROVE  SlotsType' /\ SlotsExact'
BY DEF SlotsType, SlotsExact

\* A search that succeeds changes a counter and the dirty bit of an entry, and
\* not what it stores.
LEMMA FindsKeepsSlots ==
  ASSUME TableInv, SearchFinds
  PROVE  SlotsType' /\ SlotsExact'
<1> DEFINE s == SlotOf(bucket.key)
<1>1. s \in 0 .. SizeHash - 1
  BY StoredFacts, SlotIndex DEF SearchFinds, TableInv, Inv
<1>2. PICK n \in Matches(slots[s]) :
        slots' = [slots EXCEPT ![s][n] =
                    [stored |-> @.stored, count |-> CountFound(@), dirty |-> 1]]
  BY DEF SearchFinds
<1>3. n \in DOMAIN slots[s]
  BY <1>2 DEF Matches
<1> DEFINE found == [stored |-> slots[s][n].stored, count |-> CountFound(slots[s][n]), dirty |-> 1]
           list == [slots[s] EXCEPT ![n] = found]
<1>4. slots[s] \in Seq(Entry)
  BY <1>1 DEF TableInv, SlotsType
<1>5. slots[s][n] \in Entry
  BY <1>3, <1>4, ElementOfSeq
<1>6. CountFound(slots[s][n]) \in Int
  <2>1. slots[s][n].count \in Int /\ nbPositiveHit \in Int /\ nbNegativeHit \in Int
    BY <1>5 DEF Entry, TableInv, CountersType
  <2>2. \A m \in Int : Capped(m) \in Int
    BY DEF Capped
  <2> QED
    BY <2>1, <2>2 DEF CountFound
<1>7. found \in Entry
  BY <1>5, <1>6 DEF Entry
<1>8. list \in Seq(Entry) /\ DOMAIN list = DOMAIN slots[s]
  BY <1>3, <1>4, <1>7
<1>9. slots' = [slots EXCEPT ![s] = list]
  BY <1>2
<1>10. \A m \in DOMAIN list : list[m].stored = slots[s][m].stored
  BY <1>4, <1>8
<1> HIDE DEF list, found
<1>11. slots \in [0 .. SizeHash - 1 -> Seq(Entry)]
  BY DEF TableInv, SlotsType
<1>12. SlotsType'
  BY <1>1, <1>8, <1>9, <1>11 DEF SlotsType
<1>13. hashTable' = hashTable
  BY DEF SearchFinds
<1>14. \A t \in 0 .. SizeHash - 1 :
         /\ DOMAIN slots'[t] = DOMAIN slots[t]
         /\ \A m \in DOMAIN slots[t] : slots'[t][m].stored = slots[t][m].stored
  BY <1>1, <1>8, <1>9, <1>10, <1>11
<1>15. DOMAIN slots = 0 .. SizeHash - 1 /\ DOMAIN slots' = 0 .. SizeHash - 1
  BY <1>9, <1>11
<1>16. SlotsExact'
  <2>1. \A t \in DOMAIN slots' : \A m \in DOMAIN slots'[t] :
          slots'[t][m].stored \in hashTable' /\ SlotOf(slots'[t][m].stored.key) = t
    BY <1>13, <1>14, <1>15 DEF TableInv, SlotsExact
  <2>2. ASSUME NEW e \in hashTable'
        PROVE  \E m \in DOMAIN slots'[SlotOf(e.key)] : slots'[SlotOf(e.key)][m].stored = e
    <3>1. SlotOf(e.key) \in 0 .. SizeHash - 1
      BY <1>13, StoredFacts, SlotIndex DEF TableInv, Inv
    <3>2. PICK m \in DOMAIN slots[SlotOf(e.key)] : slots[SlotOf(e.key)][m].stored = e
      BY <1>13 DEF TableInv, SlotsExact
    <3> QED
      BY <1>14, <3>1, <3>2
  <2> QED
    BY <2>1, <2>2 DEF SlotsExact
<1> QED
  BY <1>12, <1>16

\* addInCache pushes the entry on the list of its hash.
LEMMA PushKeepsSlots ==
  ASSUME TableInv, PushInHashTable
  PROVE  SlotsType' /\ SlotsExact'
<1> DEFINE e == pending[Len(pending)]
           s == SlotOf(e.key)
           made == [stored |-> e, count |-> CountMade(e), dirty |-> 0]
           list == Append(slots[s], made)
<1>1. e \in Stored /\ e.key \in Key
  <2>1. pending \in Seq(Stored) /\ pending # <<>>
    BY DEF PushInHashTable, AddInCache, TableInv, Inv, TypeOK
  <2>2. e \in Stored
    BY <2>1, PopFacts
  <2> QED
    BY <2>2 DEF Stored
<1>2. s \in 0 .. SizeHash - 1
  BY <1>1, SlotIndex
<1>3. CountMade(e) \in Int
  BY <1>1 DEF CountMade, TableInv, CountersType
<1>4. made \in Entry
  BY <1>1, <1>3 DEF Entry
<1>5. slots[s] \in Seq(Entry)
  BY <1>2 DEF TableInv, SlotsType
<1>6. slots' = [slots EXCEPT ![s] = list] /\ hashTable' = hashTable \cup {e}
  BY DEF PushInHashTable, AddInCache
<1>7. /\ list \in Seq(Entry)
      /\ DOMAIN list = 1 .. Len(slots[s]) + 1
      /\ DOMAIN slots[s] = 1 .. Len(slots[s])
      /\ Len(slots[s]) \in Nat
      /\ list[Len(slots[s]) + 1] = made
      /\ \A m \in 1 .. Len(slots[s]) : list[m] = slots[s][m]
  BY <1>4, <1>5, AppendProperties
<1>8. made.stored = e
  OBVIOUS
<1> HIDE DEF list, made, e
<1>9. slots \in [0 .. SizeHash - 1 -> Seq(Entry)]
  BY DEF TableInv, SlotsType
<1>10. SlotsType'
  BY <1>2, <1>6, <1>7, <1>9 DEF SlotsType
<1>11. DOMAIN slots = 0 .. SizeHash - 1 /\ DOMAIN slots' = 0 .. SizeHash - 1
  BY <1>6, <1>9
<1>12. slots'[s] = list /\ \A t \in 0 .. SizeHash - 1 : t # s => slots'[t] = slots[t]
  BY <1>2, <1>6, <1>9
<1>13. ASSUME NEW t \in DOMAIN slots', NEW m \in DOMAIN slots'[t]
       PROVE  slots'[t][m].stored \in hashTable' /\ SlotOf(slots'[t][m].stored.key) = t
  <2>1. CASE t # s
    BY <1>6, <1>11, <1>12, <2>1 DEF TableInv, SlotsExact
  <2>2. CASE t = s /\ m \in DOMAIN slots[s]
    <3>1. slots'[t][m] = slots[s][m]
      BY <1>7, <1>12, <2>2
    <3> QED
      BY <1>2, <1>6, <1>11, <2>2, <3>1 DEF TableInv, SlotsExact
  <2>3. CASE t = s /\ m \notin DOMAIN slots[s]
    <3>1. m = Len(slots[s]) + 1
      BY <1>7, <1>12, <2>3
    <3>2. slots'[t][m].stored = e
      BY <1>7, <1>8, <1>12, <2>3, <3>1
    <3> QED
      BY <1>6, <2>3, <3>2
  <2> QED
    BY <2>1, <2>2, <2>3
<1>14. ASSUME NEW f \in hashTable'
       PROVE  \E m \in DOMAIN slots'[SlotOf(f.key)] : slots'[SlotOf(f.key)][m].stored = f
  <2>1. CASE f = e
    <3>1. Len(slots[s]) + 1 \in DOMAIN slots'[s] /\ slots'[s][Len(slots[s]) + 1].stored = e
      BY <1>7, <1>8, <1>12
    <3> QED
      BY <2>1, <3>1
  <2>2. CASE f \in hashTable
    <3>1. SlotOf(f.key) \in 0 .. SizeHash - 1
      BY <2>2, StoredFacts, SlotIndex DEF TableInv, Inv
    <3>2. PICK m \in DOMAIN slots[SlotOf(f.key)] : slots[SlotOf(f.key)][m].stored = f
      BY <2>2 DEF TableInv, SlotsExact
    <3>3. CASE SlotOf(f.key) # s
      BY <1>12, <3>1, <3>2, <3>3
    <3>4. CASE SlotOf(f.key) = s
      <4>1. m \in DOMAIN slots[s] /\ slots[s][m].stored = f
        BY <3>2, <3>4
      <4>2. m \in 1 .. Len(slots[s])
        BY <1>7, <4>1
      <4>3. m \in DOMAIN list /\ list[m] = slots[s][m]
        BY <1>7, <4>2
      <4> QED
        BY <1>12, <3>4, <4>1, <4>3
    <3> QED
      BY <3>3, <3>4
  <2> QED
    BY <1>6, <2>1, <2>2
<1> QED
  BY <1>10, <1>13, <1>14 DEF SlotsExact

-----------------------------------------------------------------------------
(* The theorems.                                                           *)

LEMMA InitTableInv ==
  ASSUME InitHashTable
  PROVE  TableInv
<1>1. Inv
  BY InitInv DEF InitHashTable
<1>2. \A s \in 0 .. SizeHash - 1 : slots[s] = <<>>
  BY DEF InitHashTable
<1>3. SlotsType /\ DOMAIN slots = 0 .. SizeHash - 1
  BY EmptySeq DEF InitHashTable, SlotsType
<1>4. SlotsExact
  BY <1>2, <1>3 DEF SlotsExact, InitHashTable, Init
<1> QED
  BY <1>1, <1>3, <1>4 DEF TableInv, CountersType, InitHashTable

LEMMA NextTableInv ==
  ASSUME TableInv, [CacheNext]_cacheVars
  PROVE  TableInv'
<1>1. Inv'
  BY StepImplements, NextInv DEF TableInv
<1>2. CountersType'
  BY DEF TableInv, CountersType, CacheNext, CollectBucket, SearchFinds, SearchFails, Capped,
         PushInHashTable, tableVars, cacheVars
<1>3. ASSUME CollectBucket PROVE SlotsType' /\ SlotsExact'
  BY <1>3, SlotsUnchanged DEF TableInv, CollectBucket, tableVars, Reuse, Split, Fresh, FreshPage
<1>4. ASSUME SearchFinds PROVE SlotsType' /\ SlotsExact'
  BY <1>4, FindsKeepsSlots
<1>5. ASSUME SearchFails PROVE SlotsType' /\ SlotsExact'
  BY <1>5, SlotsUnchanged DEF TableInv, SearchFails
<1>6. ASSUME PushInHashTable PROVE SlotsType' /\ SlotsExact'
  BY <1>6, PushKeepsSlots
<1>7. ASSUME UNCHANGED cacheVars PROVE SlotsType' /\ SlotsExact'
  BY <1>7, SlotsUnchanged DEF TableInv, cacheVars, tableVars, vars
<1>8. SlotsType' /\ SlotsExact'
  BY <1>3, <1>4, <1>5, <1>6, <1>7 DEF CacheNext
<1> QED
  BY <1>1, <1>2, <1>8 DEF TableInv

\* The table of lists implements BucketMemory, whatever the hash: an entry that
\* was stored is found, and nothing else is, although a search reads one list
\* (bucketAlreadyExist, pushInHashTable).
THEOREM TableImplements == CacheSpec => ImplementsMemory
<1>1. InitHashTable => Init
  BY DEF InitHashTable
<1>2. CacheSpec => []TableInv
  BY InitTableInv, NextTableInv, PTL DEF CacheSpec
<1>3. TableInv /\ [CacheNext]_cacheVars => [Next]_vars
  BY StepImplements
<1> QED
  BY <1>1, <1>2, <1>3, PTL DEF CacheSpec, Spec, ImplementsMemory

\* What the table finds is what was stored: BucketMemory's theorem carried over.
THEOREM TableSearchCorrect == CacheSpec => []SearchExact
BY TableImplements, SearchCorrect DEF ImplementsMemory
-----------------------------------------------------------------------------
(* The counters of the table and of its entries.                           *)

\* EntriesExact with what an answer adds to: finitely many entries, and hits
\* that are counted from 0.
EntriesInv == IsFiniteSet(hashTable) /\ nbPositiveHit >= 0 /\ EntriesExact

\* A step that leaves entries and counters alone.
LEMMA EntriesUnchanged ==
  ASSUME EntriesInv, UNCHANGED <<slots, nbPositiveHit, nbNegativeHit, hashTable, pending>>
  PROVE  EntriesInv'
BY DEF EntriesInv, EntriesExact

\* A search that succeeds counts itself, and the entry it found keeps a counter
\* above 0 under every strategy.
LEMMA FindsKeepsEntries ==
  ASSUME TableInv, EntriesInv, SearchFinds
  PROVE  EntriesInv'
<1> DEFINE s == SlotOf(bucket.key)
<1>1. s \in 0 .. SizeHash - 1
  BY StoredFacts, SlotIndex DEF SearchFinds, TableInv, Inv
<1>2. PICK n \in Matches(slots[s]) :
        slots' = [slots EXCEPT ![s][n] =
                    [stored |-> @.stored, count |-> CountFound(@), dirty |-> 1]]
  BY DEF SearchFinds
<1>3. n \in DOMAIN slots[s] /\ slots[s] \in Seq(Entry)
  BY <1>1, <1>2 DEF Matches, TableInv, SlotsType
<1>4. slots[s][n] \in Entry /\ slots[s][n].count > 0
  <2>1. slots[s][n] \in Entry
    BY <1>3, ElementOfSeq
  <2> QED
    BY <1>1, <1>3, <2>1 DEF EntriesInv, EntriesExact, TableInv, SlotsType
<1>5. nbNegativeHit \in Nat /\ nbPositiveHit \in Nat
  <2>1. Cardinality(hashTable) \in Nat /\ Len(pending) \in Nat
    BY FS_CardinalityType, EmptySeq DEF EntriesInv, TableInv, Inv, TypeOK
  <2> QED
    BY <2>1 DEF EntriesInv, EntriesExact, TableInv, CountersType
<1>6. Capped(slots[s][n].count + 1) > 0 /\ Capped(nbPositiveHit + 1) > 0
  BY <1>4, <1>5 DEF Capped, Entry
<1>7. CountFound(slots[s][n]) > 0
  <2>1. Capped(nbPositiveHit + 1) \in Int
    BY <1>5 DEF Capped
  <2> QED
    BY <1>4, <1>5, <1>6, <2>1 DEF CountFound
<1>8. slots \in [0 .. SizeHash - 1 -> Seq(Entry)]
  BY DEF TableInv, SlotsType
<1>9. \A t \in DOMAIN slots' : \A m \in DOMAIN slots'[t] :
        \/ t \in DOMAIN slots /\ m \in DOMAIN slots[t] /\ slots'[t][m] = slots[t][m]
        \/ slots'[t][m].count = CountFound(slots[s][n])
  <2> DEFINE found == [stored |-> slots[s][n].stored, count |-> CountFound(slots[s][n]), dirty |-> 1]
             list == [slots[s] EXCEPT ![n] = found]
  <2>1. slots' = [slots EXCEPT ![s] = list]
    BY <1>2
  <2>2. found.count = CountFound(slots[s][n])
    OBVIOUS
  <2> HIDE DEF found
  <2>3. DOMAIN list = DOMAIN slots[s] /\ list[n] = found /\ \A m \in DOMAIN slots[s] : m # n => list[m] = slots[s][m]
    BY <1>3
  <2> HIDE DEF list
  <2> QED
    BY <1>1, <1>8, <2>1, <2>2, <2>3
<1>10. \A t \in DOMAIN slots' : \A m \in DOMAIN slots'[t] : slots'[t][m].count > 0
  BY <1>7, <1>9 DEF EntriesInv, EntriesExact
<1>11. nbPositiveHit' >= 0
  BY <1>5 DEF SearchFinds, Capped
<1> QED
  BY <1>10, <1>11 DEF EntriesInv, EntriesExact, SearchFinds

\* addInCache turns the last pending search into an entry that was not there
\* (OneHolder), so both sides of the count move together.
LEMMA PushKeepsEntries ==
  ASSUME TableInv, EntriesInv, PushInHashTable
  PROVE  EntriesInv'
<1> DEFINE e == pending[Len(pending)]
           s == SlotOf(e.key)
           made == [stored |-> e, count |-> CountMade(e), dirty |-> 0]
           list == Append(slots[s], made)
<1>1. /\ pending \in Seq(Stored) /\ pending # <<>> /\ pending' = SubSeq(pending, 1, Len(pending) - 1)
      /\ hashTable' = hashTable \cup {e}
      /\ slots' = [slots EXCEPT ![s] = list]
      /\ nbPositiveHit' = nbPositiveHit /\ nbNegativeHit' = nbNegativeHit
  BY DEF PushInHashTable, AddInCache, TableInv, Inv, TypeOK
<1>2. Len(pending) \in Nat \ {0} /\ e \in Stored /\ Len(pending') = Len(pending) - 1
  BY <1>1, PopFacts
<1>3. e.key \in Key /\ s \in 0 .. SizeHash - 1
  BY <1>2, SlotIndex DEF Stored
<1>4. e \notin hashTable
  BY <1>1, <1>2 DEF TableInv, Inv, OneHolder, Pending
<1>5. /\ IsFiniteSet(hashTable') /\ Cardinality(hashTable') = Cardinality(hashTable) + 1
      /\ Cardinality(hashTable) \in Nat
  BY <1>1, <1>4, FS_AddElement, FS_CardinalityType DEF EntriesInv
<1>6. nbNegativeHit' = Cardinality(hashTable') + Len(pending')
  <2>1. nbNegativeHit = Cardinality(hashTable) + Len(pending)
    BY DEF EntriesInv, EntriesExact
  <2>2. nbNegativeHit' = nbNegativeHit
    BY <1>1
  <2>3. Len(pending') = Len(pending) - 1 /\ Len(pending) \in Nat
    BY <1>2
  <2> QED
    BY <1>5, <2>1, <2>2, <2>3
<1>7. CountMade(e) > 0
  <2>1. nbNegativeHit = Cardinality(hashTable) + Len(pending) /\ nbPositiveHit \in Int /\ nbPositiveHit >= 0
    BY DEF EntriesInv, EntriesExact, TableInv, CountersType
  <2>2. NbVar[e.key] \in Nat \ {0}
    BY <1>3
  <2> HIDE DEF e
  <2> QED
    BY <1>2, <1>5, <2>1, <2>2 DEF CountMade
<1>8. made \in Entry /\ made.count > 0
  <2>1. CountMade(e) \in Int
    BY <1>3 DEF CountMade, TableInv, CountersType
  <2> QED
    BY <1>2, <1>7, <2>1 DEF Entry
<1>9. slots \in [0 .. SizeHash - 1 -> Seq(Entry)] /\ slots[s] \in Seq(Entry)
  BY <1>3 DEF TableInv, SlotsType
<1>10. /\ DOMAIN list = 1 .. Len(slots[s]) + 1
       /\ DOMAIN slots[s] = 1 .. Len(slots[s]) /\ Len(slots[s]) \in Nat
       /\ list[Len(slots[s]) + 1] = made
       /\ \A m \in 1 .. Len(slots[s]) : list[m] = slots[s][m]
  BY <1>8, <1>9, AppendProperties
<1> HIDE DEF list, made, e
<1>11. ASSUME NEW t \in DOMAIN slots', NEW m \in DOMAIN slots'[t]
       PROVE  slots'[t][m].count > 0
  <2>1. CASE t # s
    <3>1. t \in DOMAIN slots /\ slots'[t] = slots[t]
      BY <1>1, <1>9, <2>1
    <3> QED
      BY <3>1 DEF EntriesInv, EntriesExact
  <2>2. CASE t = s
    <3>1. slots'[t] = list /\ s \in DOMAIN slots
      BY <1>1, <1>3, <1>9, <2>2
    <3>2. m \in 1 .. Len(slots[s]) \/ m = Len(slots[s]) + 1
      <4>1. m \in 1 .. Len(slots[s]) + 1 /\ Len(slots[s]) \in Nat
        BY <1>10, <3>1
      <4> HIDE DEF s
      <4> QED
        BY <4>1
    <3> QED
      BY <1>8, <1>10, <3>1, <3>2 DEF EntriesInv, EntriesExact
  <2> QED
    BY <2>1, <2>2
<1> QED
  BY <1>1, <1>5, <1>6, <1>11 DEF EntriesInv, EntriesExact

\* The counters, step by step.
LEMMA NextEntriesInv ==
  ASSUME TableInv, EntriesInv, [CacheNext]_cacheVars
  PROVE  EntriesInv'
<1>1. ASSUME CollectBucket PROVE EntriesInv'
  BY <1>1, EntriesUnchanged DEF CollectBucket, tableVars, Reuse, Split, Fresh, FreshPage
<1>2. ASSUME SearchFinds PROVE EntriesInv'
  BY <1>2, FindsKeepsEntries
<1>3. ASSUME SearchFails PROVE EntriesInv'
  <2>1. bucket \in Stored /\ pending \in Seq(Stored)
    BY <1>3, StoredFacts DEF SearchFails, TableInv, Inv, TypeOK
  <2>2. Len(pending') = Len(pending) + 1 /\ Len(pending) \in Nat
    BY <1>3, <2>1, PushFacts DEF SearchFails
  <2>3. Cardinality(hashTable) \in Nat
    BY FS_CardinalityType DEF EntriesInv
  <2> QED
    BY <1>3, <2>2, <2>3 DEF SearchFails, EntriesInv, EntriesExact
<1>4. ASSUME PushInHashTable PROVE EntriesInv'
  BY <1>4, PushKeepsEntries
<1>5. ASSUME UNCHANGED cacheVars PROVE EntriesInv'
  BY <1>5, EntriesUnchanged DEF cacheVars, tableVars, vars
<1> QED
  BY <1>1, <1>2, <1>3, <1>4, <1>5 DEF CacheNext

\* Every search that failed became one entry or is still being answered, and no
\* entry is made or left with a counter of 0, which pushInHashTable asserts and
\* the reduction of the cache relies on.
THEOREM EntriesCorrect == CacheSpec => []EntriesExact
<1>1. InitHashTable => EntriesInv
  <2> SUFFICES ASSUME InitHashTable
               PROVE  EntriesInv
    OBVIOUS
  <2>1. /\ hashTable = {} /\ pending = <<>> /\ nbPositiveHit = 0 /\ nbNegativeHit = 0
        /\ slots = [s \in 0 .. SizeHash - 1 |-> <<>>]
    BY DEF InitHashTable, Init
  <2>2. \A s \in DOMAIN slots : slots[s] = <<>>
    BY <2>1
  <2>3. IsFiniteSet(hashTable) /\ Cardinality(hashTable) = 0 /\ Len(pending) = 0
    BY <2>1, FS_EmptySet, EmptySeq
  <2> QED
    BY <2>1, <2>2, <2>3 DEF EntriesInv, EntriesExact
<1>2. CacheSpec => []TableInv
  BY InitTableInv, NextTableInv, PTL DEF CacheSpec
<1>3. TableInv /\ EntriesInv /\ [CacheNext]_cacheVars => EntriesInv'
  BY NextEntriesInv
<1>4. EntriesInv => EntriesExact
  BY DEF EntriesInv
<1> QED
  BY <1>1, <1>2, <1>3, <1>4, PTL DEF CacheSpec
=============================================================================
