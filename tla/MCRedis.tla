------------------------------- MODULE MCRedis -------------------------------
(* Small instances of the Redis layer for TLC.                             *)
EXTENDS Redis

Symmetry ==
  Permutations(Clients) \cup Permutations(Fields) \cup Permutations(Vals) \cup Permutations(Scores)

(* A key whose first byte reads as sequence number 2, and whose others are *)
(* no key; one of which they are another key, with number 1; and one whose *)
(* bytes end in the middle of a number.                                    *)
HarmlessParse == [k \in Keys |-> [ok |-> TRUE, key |-> OtherKey, seq |-> 2]]

ShorterKey == CHOOSE k \in Keys : TRUE

ShorterParse ==
  [k \in Keys |-> [ok |-> TRUE, key |-> IF k = ShorterKey THEN OtherKey ELSE ShorterKey, seq |-> 1]]

UnfinishedParse == [k \in Keys |-> [ok |-> FALSE, key |-> OtherKey, seq |-> 0]]
==============================================================================
