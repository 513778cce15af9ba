---- MODULE MCRedisStore ----
(* Instances of RedisStore for TLC. *)
EXTENDS RedisStoreProofs, TLC

\* All keys collide: every chain operation has neighbours to disturb.
MCHash == [k \in Keys |-> CHOOSE b \in Buckets : TRUE]

MCSymmetry == Permutations(Threads) \cup Permutations(Addr)
====
