----------------------------- MODULE MCKvTable -----------------------------
(* An instance of KvTable: two keys collide, and the slot the second one   *)
(* is moved to is the home of the third.                                   *)
EXTENDS KvTable, TLC

CONSTANTS k1, k2, k3

MCKeys == {k1, k2, k3}
MCHash == k1 :> 0 @@ k2 :> 0 @@ k3 :> 1
MCPrefixes == {{k2, k3}}

(* Iterators look at keys and slots only: lengths other than one are not   *)
(* followed while one is open.                                             *)
LengthsOrIterators ==
  \/ \A i \in 1 .. nr_handles : iter_handle[i].state # "open"
  \/ \A k \in Keys : {room[k], stored[k]} \subseteq {0, 1} /\ kept = {}

=============================================================================
