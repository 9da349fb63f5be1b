------------------------------ MODULE CacheTable ------------------------------
(***************************************************************************)
(* The hash table of CacheCNF over the memory of BucketMemory: lists of    *)
(* colliding entries, each with a header, a counter and a dirty bit.  A    *)
(* search reads one list from its front and stops at the first entry with  *)
(* the header and the bytes it looks for.  BucketMemory is what the table  *)
(* promises: one flat set of entries, of which a search misses none.       *)
(***************************************************************************)
EXTENDS BucketMemory

CONSTANTS
  Hash,              \* [Key -> hash of the bytes]
  SizeHash,          \* SIZE_HASH
  NbVar,             \* [Key -> variables of the component]
  StrategyRedCache,  \* option strategy-reduce-cache: 0, 1 or 2
  MaxCount           \* bound: what the counters count up to

ASSUME HashAssumption == Hash \in [Key -> Nat] /\ SizeHash \in Nat \ {0}
ASSUME NbVarAssumption == NbVar \in [Key -> Nat \ {0}]
ASSUME StrategyAssumption == StrategyRedCache \in {0, 1, 2} /\ MaxCount \in Nat \ {0}

VARIABLES
  slots,          \* the lists of the hash table
  nbPositiveHit,
  nbNegativeHit

tableVars == <<slots, nbPositiveHit, nbNegativeHit>>
cacheVars == <<vars, tableVars>>

InitHashTable ==
  /\ Init
  /\ slots = [s \in 0 .. SizeHash - 1 |-> <<>>]
  /\ nbPositiveHit = 0
  /\ nbNegativeHit = 0

SlotOf(k) == Hash[k] % SizeHash
SameHeader(e, f) == Size[e.key] = Size[f.key] /\ NbVar[e.key] = NbVar[f.key]

\* bucketAlreadyExist: the entries of the list that match the bucket.
\* (Mutant of Matches: equal headers are enough.)
MatchesHeader(list) == {n \in DOMAIN list : SameHeader(bucket, list[n].stored)}
Matches(list) ==
  {n \in DOMAIN list : SameHeader(bucket, list[n].stored) /\ SameBytes(list[n].stored, bucket)}

\* The counter of an entry that is found, and of one that is made.
Capped(n) == IF n > MaxCount THEN MaxCount ELSE n
CountFound(e) ==
  CASE StrategyRedCache = 0 -> Capped(e.count + 1)
    [] StrategyRedCache = 1 -> Capped(nbPositiveHit + 1) + nbNegativeHit
    [] StrategyRedCache = 2 -> e.count
\* (Mutant of CountMade: the entry is locked, which resets its counter, last.)
CountMadeLockedLast(e) == 0
CountMade(e) == IF StrategyRedCache = 0 THEN NbVar[e.key] ELSE nbPositiveHit + nbNegativeHit

CollectBucket ==
  /\ \E k \in Key : Reuse(k) \/ Split(k) \/ Fresh(k) \/ FreshPage(k)
  /\ UNCHANGED tableVars

\* The memory of the bucket is released: the answer is that of the entry.
SearchFinds ==
  /\ bucket # NoBucket
  /\ LET s == SlotOf(bucket.key) IN
       \E n \in Matches(slots[s]) :
         /\ \A m \in Matches(slots[s]) : n <= m
         /\ slots' = [slots EXCEPT ![s][n] =
                        [stored |-> @.stored, count |-> CountFound(@), dirty |-> 1]]
  /\ nbPositiveHit' = Capped(nbPositiveHit + 1)
  /\ freeSpace' = freeSpace \cup {BlockOf(bucket)}
  /\ freeMemory' = freeMemory + Size[bucket.key]
  /\ bucket' = NoBucket
  /\ UNCHANGED <<pages, posInData, memory, pending, hashTable, nbNegativeHit>>

SearchFails ==
  /\ bucket # NoBucket
  /\ Matches(slots[SlotOf(bucket.key)]) = {}
  /\ nbNegativeHit' = nbNegativeHit + 1
  /\ pending' = Append(pending, bucket)
  /\ bucket' = NoBucket
  /\ UNCHANGED <<pages, posInData, freeSpace, freeMemory, memory, hashTable, slots, nbPositiveHit>>

\* pushInHashTable, at the list the search looked into.
PushInHashTable ==
  /\ AddInCache
  /\ LET e == pending[Len(pending)] IN
       slots' = [slots EXCEPT ![SlotOf(e.key)] =
                   Append(@, [stored |-> e, count |-> CountMade(e), dirty |-> 0])]
  /\ UNCHANGED <<nbPositiveHit, nbNegativeHit>>

CacheNext == CollectBucket \/ SearchFinds \/ SearchFails \/ PushInHashTable

CacheSpec == InitHashTable /\ [][CacheNext]_cacheVars

-----------------------------------------------------------------------------
(* Properties.                                                             *)

\* The lists hold the entries, each in the list of its hash.
SlotsExact ==
  /\ \A s \in DOMAIN slots : \A n \in DOMAIN slots[s] :
       slots[s][n].stored \in hashTable /\ SlotOf(slots[s][n].stored.key) = s
  /\ \A e \in hashTable : \E n \in DOMAIN slots[SlotOf(e.key)] : slots[SlotOf(e.key)][n].stored = e

\* Looking into one list, at entries that collide, answers as looking at all
\* entries would: a search that fails is for a component never stored, and one
\* that succeeds found it (bucketAlreadyExist, pushInHashTable).
ImplementsMemory == Spec

\* Every search that failed became one entry or is still being answered, and no
\* entry's counter is 0, which pushInHashTable asserts.
EntriesExact ==
  /\ nbNegativeHit = Cardinality(hashTable) + Len(pending)
  /\ \A s \in DOMAIN slots : \A n \in DOMAIN slots[s] : slots[s][n].count > 0
=============================================================================
