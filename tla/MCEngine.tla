------------------------------ MODULE MCEngine ------------------------------
(* Small instances of the running engine for TLC.                          *)
EXTENDS Engine, TLC

CONSTANTS k1, k2, v1

MCValues == {v1, EmptyValue}

(* v1 has two bytes, the empty value none.                                 *)
MCValueSize == [v \in MCValues |-> IF v = v1 THEN 2 ELSE 0]

(* A key without a sequence number in front: the first byte of k1 is read  *)
(* as a number and the rest is k2; k2 leaves no bytes that form a key.     *)
MCRawParse ==
  [k \in Keys |-> IF k = k1 THEN [ok |-> TRUE, key |-> k2, seq |-> 2]
                            ELSE [ok |-> TRUE, key |-> OtherKey, seq |-> 1]]

ThreadSymmetry == Permutations(Threads)
=============================================================================
