----------------------------- MODULE MCHashRing -----------------------------
(***************************************************************************)
(* Three rings: two of the same shards listed in different orders, and one *)
(* with a shard less; two virtual nodes per shard, and every hash function *)
(* into four values, so that collisions and both ends of the ring occur.   *)
(***************************************************************************)
EXTENDS HashRing, TLC

MCShardIDs == "reader" :> <<0, 1>> @@ "builder" :> <<1, 0>> @@ "before" :> <<0>>

MCProcs == DOMAIN MCShardIDs

MCHashes == [{0, 1} \X (0 .. 1) -> 0 .. 3]

MCKeyHashes == {0, 2, 4}
=============================================================================
