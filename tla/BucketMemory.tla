---------------------------- MODULE BucketMemory ----------------------------
(***************************************************************************)
(* Where the cache keeps its keys: the page allocator of                   *)
(* BucketManagerInterface under the protocol of CacheCNF.  Every search    *)
(* writes the stored form of a component into fresh memory (getArray,      *)
(* storeFormula), compares it byte by byte with the entries of the hash    *)
(* table, and on a hit gives the memory back (releaseMemory).  On a miss   *)
(* the memory stays with the TmpEntry of the search until the component    *)
(* has been counted, other searches running meanwhile, and then for ever   *)
(* with the entry that addInCache makes of it.                             *)
(*                                                                         *)
(* A key is the stored form of one component, Size[key] bytes; byte n of   *)
(* key k is <<k, n>>, so that distinct keys differ in every byte.  Memory  *)
(* is a set of pages; a block never crosses a page.                        *)
(*                                                                         *)
(* What is released and compared is as long as the header of the bucket    *)
(* says.  Here that is the size that was asked for: no key has a number in *)
(* its distribution that needs 4 bytes (FormExact of KeyForm).             *)
(***************************************************************************)
EXTENDS Integers, Sequences, FiniteSets, FiniteSetsExt

CONSTANTS
  Key,       \* the stored forms of components
  Size,      \* [Key -> bytes needed, which the header of the key reads back]
  PageSize,  \* sizeData
  MaxPages,  \* bound: pages allocated
  NoBucket,  \* a model value: no search is running; owns what is free
  Blank      \* a model value: memory never written; owns what was never used

ASSUME PageSizeAssumption == PageSize \in Nat \ {0} /\ MaxPages \in Nat \ {0}
ASSUME SizeAssumption == Size \in [Key -> 1 .. PageSize]
ASSUME NoBucketAssumption ==
  NoBucket \notin [key : Key, page : Nat, at : Nat] /\ NoBucket \notin Key
ASSUME BlankAssumption == Blank # NoBucket /\ Blank \notin Key

VARIABLES
  pages,      \* the number of pages; data is the last one
  posInData,  \* bytes handed out of the last page
  freeSpace,  \* the free blocks
  freeMemory, \* their bytes, counted
  memory,     \* the bytes, by page and offset
  bucket,     \* the stored form just built, or NoBucket
  pending,    \* the TmpEntry values of the searches being answered
  hashTable   \* the entries

vars == <<pages, posInData, freeSpace, freeMemory, memory, bucket, pending, hashTable>>

\* A stored form lies at an offset of a page; a block is a stretch of a page.
Stored == [key : Key, page : Nat, at : Nat]
Block == [page : Nat, at : Nat, size : Nat]
BlockOf(e) == [page |-> e.page, at |-> e.at, size |-> Size[e.key]]
Holds(b, p, o) == p = b.page /\ b.at <= o /\ o < b.at + b.size
Unused == [page |-> pages, at |-> posInData, size |-> PageSize - posInData]

Init ==
  /\ pages = 1
  /\ posInData = 0
  /\ freeSpace = {}
  /\ freeMemory = 0
  /\ memory = [p \in 1 .. MaxPages |-> [o \in 0 .. PageSize - 1 |-> Blank]]
  /\ bucket = NoBucket
  /\ pending = <<>>
  /\ hashTable = {}

-----------------------------------------------------------------------------
(* getArray(size) and storeFormula.  A component that is being counted is  *)
(* not searched for again: the searches made meanwhile are for components  *)
(* with fewer variables.                                                   *)

Searchable(k) == bucket = NoBucket /\ \A n \in DOMAIN pending : pending[n].key # k

StoreFormula(k, p, o) ==
  /\ bucket' = [key |-> k, page |-> p, at |-> o]
  /\ memory' = [memory EXCEPT ![p] = [x \in 0 .. PageSize - 1 |->
                  IF o <= x /\ x < o + Size[k] THEN <<k, x - o>> ELSE memory[p][x]]]

\* Free blocks of the size asked for, and those that are worth splitting.
OfSize(n) == {b \in freeSpace : b.size = n}
Splittable(n) == {b \in freeSpace : b.size >= 2 * n}

\* Any block of the right size is as good as the last one.
Reuse(k) ==
  /\ Searchable(k)
  /\ \E b \in OfSize(Size[k]) :
       /\ freeSpace' = freeSpace \ {b}
       /\ StoreFormula(k, b.page, b.at)
  /\ freeMemory' = freeMemory - Size[k]
  /\ UNCHANGED <<pages, posInData, pending, hashTable>>

\* (Mutant of Rest: the front of the block is put back, not the rest.)
Front(b, n) == [page |-> b.page, at |-> b.at, size |-> b.size - n]
Rest(b, n) == [page |-> b.page, at |-> b.at + n, size |-> b.size - n]

Split(k) ==
  /\ Searchable(k)
  /\ OfSize(Size[k]) = {}
  /\ \E b \in Splittable(Size[k]) :
       /\ \A c \in Splittable(Size[k]) : b.size <= c.size
       /\ freeSpace' = (freeSpace \ {b}) \cup {Rest(b, Size[k])}
       /\ StoreFormula(k, b.page, b.at)
  /\ freeMemory' = freeMemory - Size[k]
  /\ UNCHANGED <<pages, posInData, pending, hashTable>>

MustBeFresh(k) == OfSize(Size[k]) = {} /\ Splittable(Size[k]) = {}
Fits(n) == posInData + n <= PageSize

Fresh(k) ==
  /\ Searchable(k) /\ MustBeFresh(k)
  /\ Fits(Size[k])
  /\ StoreFormula(k, pages, posInData)
  /\ posInData' = posInData + Size[k]
  /\ UNCHANGED <<pages, freeSpace, freeMemory, pending, hashTable>>

\* The end of the page becomes a free block, of size 0 too.
\* (Mutant of EndOfPage: it is given up.)
EndOfPageLost == {}
EndOfPage == {Unused}

FreshPage(k) ==
  /\ Searchable(k) /\ MustBeFresh(k)
  /\ ~Fits(Size[k]) /\ pages < MaxPages
  /\ freeSpace' = freeSpace \cup EndOfPage
  /\ freeMemory' = freeMemory + (PageSize - posInData)
  /\ pages' = pages + 1
  /\ StoreFormula(k, pages + 1, 0)
  /\ posInData' = Size[k]
  /\ UNCHANGED <<pending, hashTable>>

-----------------------------------------------------------------------------
(* searchInCache and addInCache.                                           *)

\* sameHeader and memcmp, with the bytes as they are now.
SameBytes(e, f) ==
  /\ Size[e.key] = Size[f.key]
  /\ \A n \in 0 .. Size[e.key] - 1 : memory[e.page][e.at + n] = memory[f.page][f.at + n]

Hit ==
  /\ bucket # NoBucket
  /\ \E e \in hashTable : SameBytes(e, bucket)
  /\ freeSpace' = freeSpace \cup {BlockOf(bucket)}
  /\ freeMemory' = freeMemory + Size[bucket.key]
  /\ bucket' = NoBucket
  /\ UNCHANGED <<pages, posInData, memory, pending, hashTable>>

Miss ==
  /\ bucket # NoBucket
  /\ \A e \in hashTable : ~SameBytes(e, bucket)
  /\ pending' = Append(pending, bucket)
  /\ bucket' = NoBucket
  /\ UNCHANGED <<pages, posInData, freeSpace, freeMemory, memory, hashTable>>

AddInCache ==
  /\ bucket = NoBucket /\ pending # <<>>
  /\ hashTable' = hashTable \cup {pending[Len(pending)]}
  /\ pending' = SubSeq(pending, 1, Len(pending) - 1)
  /\ UNCHANGED <<pages, posInData, freeSpace, freeMemory, memory, bucket>>

Next ==
  \/ \E k \in Key : Reuse(k) \/ Split(k) \/ Fresh(k) \/ FreshPage(k)
  \/ Hit \/ Miss
  \/ AddInCache

Spec == Init /\ [][Next]_vars

-----------------------------------------------------------------------------
(* Properties.                                                             *)

\* Pages, blocks, pending searches and entries keep their types.
TypeOK ==
  /\ pages \in Nat \ {0} /\ pages <= MaxPages
  /\ posInData \in 0 .. PageSize
  /\ freeSpace \in SUBSET Block
  /\ freeMemory \in Int
  /\ memory \in [1 .. MaxPages -> [0 .. PageSize - 1 -> {Blank} \cup (Key \X Nat)]]
  /\ bucket \in Stored \cup {NoBucket}
  /\ pending \in Seq(Stored)
  /\ hashTable \in SUBSET Stored

\* What is in use: the bucket, the pending searches and the entries.
Pending == {pending[n] : n \in DOMAIN pending}
Live == hashTable \cup Pending \cup (IF bucket = NoBucket THEN {} ELSE {bucket})
Part(owner, b) == [owner |-> owner, block |-> b]
Parts == {Part(NoBucket, b) : b \in freeSpace}
           \cup {Part(e.key, BlockOf(e)) : e \in Live}
           \cup {Part(Blank, Unused)}

\* Blocks that share no byte, lie inside the pages and leave no byte out.
Tiles(P, n) ==
  /\ \A x \in P : x.block.page \in 1 .. n /\ x.block.at + x.block.size <= PageSize
  /\ \A p \in 1 .. n, o \in 0 .. PageSize - 1 : \E x \in P : Holds(x.block, p, o)
  /\ \A x, y \in P : \A p \in 1 .. n, o \in 0 .. PageSize - 1 :
       Holds(x.block, p, o) /\ Holds(y.block, p, o) => x = y

\* Every byte of every page has one owner: it is free, in use by one stored form,
\* or not yet handed out.  No block is handed out twice, and none is lost.
Tiling == Tiles(Parts, pages)

\* No stored form is in two places of the protocol at once.
OneHolder ==
  /\ \A m, n \in DOMAIN pending : pending[m].key = pending[n].key => m = n
  /\ bucket \notin hashTable
  /\ bucket # NoBucket => \A n \in DOMAIN pending : pending[n].key # bucket.key
  /\ \A e, f \in hashTable \cup Pending : e.key = f.key => e = f
  /\ hashTable \cap Pending = {}

\* What was stored is still there, although it is only read again much later.
Intact ==
  \A e \in Live : \A n \in 0 .. Size[e.key] - 1 : memory[e.page][e.at + n] = <<e.key, n>>

\* A search finds the entry of its own key and no other.
SearchExact ==
  bucket # NoBucket => \A e \in hashTable : SameBytes(e, bucket) <=> e.key = bucket.key
=============================================================================
