------------------------------ MODULE Sharding ------------------------------
(***************************************************************************)
(* The shard of an entity, as types.py computes it: jump consistent hash   *)
(* of a key that is mixed from the two halves of the entity's id.  Words   *)
(* have WordBits bits (64 in the code) and are shifted by Shift (33), the  *)
(* constants are taken modulo the word, and the quotient of floats that    *)
(* int() cuts off is exact.                                                *)
(***************************************************************************)
EXTENDS Integers, Bitwise, FiniteSets

CONSTANTS WordBits, Shift,
          Multiplier,   \* of the generator of jump_hash
          C1, C2        \* of the finalization of murmur3

ShardingAssumption ==
    /\ WordBits \in Nat /\ Shift \in 1..WordBits - 1
    /\ Multiplier \in Nat /\ C1 % 2 = 1 /\ C2 % 2 = 1

Word == 0..2^WordBits - 1
Times(h, factor) == (h * factor) % 2^WordBits
Folded(h) == h ^^ (h \div 2^Shift)

\* The finalization of one half
Mix(h) == Folded(Times(Folded(Times(Folded(h), C1)), C2))

compute_shard_key(lo, hi) == Mix(lo) ^^ Mix(hi)

\* The loop of jump_hash: from bucket b the key jumps ahead, until it would jump too far.
RECURSIVE Jump(_, _, _, _)
Jump(b, j, k, num_buckets) ==
    IF j >= num_buckets THEN b
    ELSE LET next == (Times(k, Multiplier) + 1) % 2^WordBits
         IN Jump(j, ((j + 1) * 2^(WordBits - Shift)) \div (next \div 2^Shift + 1), next, num_buckets)

jump_hash(key, num_buckets) == IF num_buckets <= 0 THEN 0 ELSE Jump(-1, 0, key, num_buckets)

get_shard_for_entity(lo, hi, num_shards) == jump_hash(compute_shard_key(lo, hi), num_shards)

-----------------------------------------------------------------------------
\* Every shard is one of the cluster's, and when a shard is added an entity stays where it is or
\* moves to the new one (get_shard_for_entity).  One half of the id reaches every key.
MovesToNewShards(num_shards) ==
    \A lo \in Word :
        LET shard == get_shard_for_entity(lo, 0, num_shards) IN
        /\ shard \in 0..num_shards - 1
        /\ get_shard_for_entity(lo, 0, num_shards + 1) \in {shard, num_shards}

\* Two entities that differ in one half only have different keys: mixing loses nothing
\* (compute_shard_key).
MixesAll ==
    /\ Cardinality({Mix(h) : h \in Word}) = 2^WordBits
    /\ \A lo \in Word : compute_shard_key(lo, 0) = compute_shard_key(0, lo)
=============================================================================
