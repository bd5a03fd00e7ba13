---------------------------- MODULE MCWriteBatch ----------------------------
(* Small instances of the engine with write batches for TLC.               *)
EXTENDS WriteBatch, TLC

CONSTANTS k1, k2, v1

MCValues == {v1, EmptyValue}

(* v1 has two bytes, the empty value none.                                 *)
MCValueSize == [v \in MCValues |-> IF v = v1 THEN 2 ELSE 0]

MCRawParse == [k \in Keys |-> [ok |-> TRUE, key |-> OtherKey, seq |-> 1]]

ThreadSymmetry == Permutations(Threads)
=============================================================================
