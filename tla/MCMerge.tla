------------------------------ MODULE MCMerge -------------------------------
(* Small instances of the engine with merges for TLC.                      *)
EXTENDS Merge, TLC

CONSTANTS k1, k2, v1

MCValues == {v1, EmptyValue}

(* v1 has two bytes, the empty value none.                                 *)
MCValueSize == [v \in MCValues |-> IF v = v1 THEN 2 ELSE 0]

(* The bytes of a key read as sequence number 1 and another key.           *)
MCRawParse == [k \in Keys |-> [ok |-> TRUE, key |-> OtherKey, seq |-> 1]]

ThreadSymmetry == Permutations(Threads)

(* Keys only differ in name, and the bytes of all of them read the same.   *)
Symmetry == ThreadSymmetry \cup Permutations(Keys)
=============================================================================
