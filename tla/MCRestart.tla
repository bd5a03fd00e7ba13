----------------------------- MODULE MCRestart ------------------------------
(* Small instances of the engine with restarts for TLC.                    *)
EXTENDS Restart

CONSTANTS k1, k2, v1

MCValues == {v1, EmptyValue}

(* v1 has two bytes, the empty value none.                                 *)
MCValueSize == [v \in MCValues |-> IF v = v1 THEN 2 ELSE 0]

(* The bytes of a key read as sequence number 1 and another key.           *)
MCRawParse == [k \in Keys |-> [ok |-> TRUE, key |-> OtherKey, seq |-> 1]]
=============================================================================
