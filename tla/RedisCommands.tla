---------------------------- MODULE RedisCommands ----------------------------
(***************************************************************************)
(* The commands of the Redis layer (redis/src/types.rs, generic.rs) and    *)
(* what they answer, as both the promise (RedisTypes) and the code (Redis) *)
(* use them.                                                               *)
(***************************************************************************)
EXTENDS Integers, Sequences, FiniteSets

CONSTANTS
  Clients,    \* the connections that send commands
  Keys,       \* keys of the clients (an empty key is refused by the engine)
  Fields,     \* fields of hashes and members of sets and sorted sets
  Vals,       \* values of strings and fields, elements of lists
  EmptyVal,   \* the empty string as the value of a set
  Scores,     \* scores of sorted sets
  TTLs,       \* times to live, 0 for none
  Ops         \* the commands this instance's clients send

AllOps == {"set", "get", "del", "type", "hset", "hget", "hdel", "sadd", "sismember", "srem",
           "lpush", "rpush", "lpop", "rpop", "zadd", "zscore"}

ASSUME CommandsAssumption ==
  /\ EmptyVal \notin Vals
  /\ TTLs \subseteq Nat
  /\ Ops \subseteq AllOps

Commands ==
       [op : Ops \cap {"set"}, key : Keys, val : Vals \cup {EmptyVal}, ttl : TTLs]
  \cup [op : Ops \cap {"get", "del", "type", "lpop", "rpop"}, key : Keys]
  \cup [op : Ops \cap {"hset"}, key : Keys, field : Fields, val : Vals]
  \cup [op : Ops \cap {"hget", "hdel", "sadd", "sismember", "srem", "zscore"},
        key : Keys, field : Fields]
  \cup [op : Ops \cap {"lpush", "rpush"}, key : Keys, val : Vals]
  \cup [op : Ops \cap {"zadd"}, key : Keys, field : Fields, score : Scores]

(* The type a collection command works on.                                 *)
TypeOf(op) ==
  CASE op \in {"hset", "hget", "hdel"} -> "Hash"
    [] op \in {"sadd", "sismember", "srem"} -> "Set"
    [] op \in {"lpush", "rpush", "lpop", "rpop"} -> "List"
    [] op \in {"zadd", "zscore"} -> "ZSet"

(* A map with one entry more, or with another value for it.                *)
With(map, x, v) == [y \in DOMAIN map \cup {x} |-> IF y = x THEN v ELSE map[y]]

NoCall == [op |-> "none"]

(* Answers: OK, None, an error; a value; yes or no; a length; a score; a   *)
(* type.                                                                   *)
Status(s) == [status |-> s]
Value(v) == [value |-> v]
Flag(b) == [flag |-> b]
Size(n) == [size |-> n]
Score(s) == [score |-> s]
TypeIs(t) == [type |-> t]

NoReply == Status("none")
==============================================================================
