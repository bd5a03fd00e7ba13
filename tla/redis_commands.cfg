SPECIFICATION RedisSpec
CONSTANTS
  Clients = {c1, c2}
  NoClient = NoClient
  Keys = {k1}
  Fields = {f1, f2}
  Vals = {v1, v2}
  EmptyVal = EmptyVal
  Scores = {s1, s2}
  TTLs = {0, 1}
  Ops = {"set", "get", "del", "type", "hset", "hget", "hdel", "sadd", "sismember", "srem",
         "lpush", "rpush", "lpop", "rpop", "zadd", "zscore"}
  Failures = {"meta", "write"}
  RawParse <- HarmlessParse
  MaxWrites = 4
  MaxRestarts = 1
SYMMETRY Symmetry
INVARIANTS RedisInv RedisTypeOK SizeCounts ScoresAgree
PROPERTY ImplementsRedisTypes
