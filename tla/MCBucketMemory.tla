--------------------------- MODULE MCBucketMemory ---------------------------
(* Pages of 4 bytes and stored forms of 1, 1, 2 and 3: pages end with bytes  *)
(* over, released blocks are taken again and split.  Two lists, whose        *)
(* entries collide.                                                          *)
EXTENDS CacheTable, HashCnf, TLC

CONSTANTS k1, k2, k3, k4
MCSize == k1 :> 1 @@ k2 :> 1 @@ k3 :> 2 @@ k4 :> 3
MCNbVar == k1 :> 1 @@ k2 :> 1 @@ k3 :> 2 @@ k4 :> 2
MCData == k1 :> <<1>> @@ k2 :> <<3>> @@ k3 :> <<1, 2>> @@ k4 :> <<0, 3, 1>>
MCHash == [k \in Key |-> HashOf(MCData[k])]
=============================================================================
