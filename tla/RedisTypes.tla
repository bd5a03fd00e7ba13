----------------------------- MODULE RedisTypes ------------------------------
(***************************************************************************)
(* What the Redis layer promises: every key holds nothing, a string, a     *)
(* hash, a set, a list or a sorted set, and a command reads and changes it *)
(* in one step between its call and its answer.  Where I/O may fail a      *)
(* command can answer "Error" instead, and then it has no effect.          *)
(*                                                                         *)
(* After a restart a key holds what it was given by its last write or by a *)
(* write since the last one that was synced, whole: never a size, a field  *)
(* or an element of one write beside those of another.  A restart does not *)
(* see a del for what it was, so it may come undone.                       *)
(***************************************************************************)
EXTENDS RedisCommands

CONSTANT MayFail   \* can the I/O beneath the commands fail?

VARIABLES
  data,         \* what every key holds
  call,         \* the command a client waits for, or NoCall
  reply,        \* the answer a client has been given, or NoReply
  now,          \* the clock
  written,      \* what the last write that was not a del gave to each key
  recoverable   \* what a restart may find in each key

redisTypesVars == <<data, call, reply, now, written, recoverable>>

Nothing == [type |-> "none"]
String(v, expire) == [type |-> "String", val |-> v, expire |-> expire]
Collection(type, items) == [type |-> type, items |-> items]

EmptyMap == <<>>

RedisTypesInit ==
  /\ data = [k \in Keys |-> Nothing]
  /\ call = [c \in Clients |-> NoCall]
  /\ reply = [c \in Clients |-> NoReply]
  /\ now = 0
  /\ written = data
  /\ recoverable = [k \in Keys |-> {Nothing}]

-----------------------------------------------------------------------------
(* The outcome of a command: what the key holds next and the answer.       *)
Outcome(next, answer) == [next |-> next, reply |-> answer]

(* A key that holds nothing reads as an empty collection.                  *)
Items(held, op) ==
  IF held # Nothing THEN held.items ELSE IF TypeOf(op) = "Set" THEN {} ELSE EmptyMap

Without(map, f) == [g \in DOMAIN map \ {f} |-> map[g]]

(* A string that has expired is still there, and only get tells.           *)
StringOutcome(cmd, held, time) ==
  CASE cmd.op = "set" ->
         Outcome(IF cmd.val = EmptyVal THEN held
                 ELSE String(cmd.val, IF cmd.ttl = 0 THEN 0 ELSE time + cmd.ttl),
                 Status("OK"))
    [] cmd.op = "del" -> Outcome(Nothing, Status("OK"))
    [] cmd.op = "type" ->
         Outcome(held, IF held = Nothing THEN Status("KeyNotFound") ELSE TypeIs(held.type))
    [] cmd.op = "get" ->
         Outcome(held,
                 CASE held = Nothing -> Status("KeyNotFound")
                   [] held # Nothing /\ held.type # "String" -> Status("WrongType")
                   [] held # Nothing /\ held.type = "String" ->
                        IF held.expire # 0 /\ held.expire <= time THEN Status("None")
                                                                  ELSE Value(held.val))

(* An empty collection keeps its type.  A field or a member is missed with *)
(* an answer of its own where the collection is empty.                     *)
ItemsOutcome(cmd, items) ==
  CASE cmd.op = "hset" ->
         Outcome(With(items, cmd.field, cmd.val), Flag(cmd.field \notin DOMAIN items))
    [] cmd.op = "hget" ->
         Outcome(items, CASE cmd.field \in DOMAIN items -> Value(items[cmd.field])
                          [] items = EmptyMap -> Status("None")
                          [] OTHER -> Status("KeyNotFound"))
    [] cmd.op = "hdel" -> Outcome(Without(items, cmd.field), Flag(cmd.field \in DOMAIN items))
    [] cmd.op = "sadd" -> Outcome(items \cup {cmd.field}, Flag(cmd.field \notin items))
    [] cmd.op = "sismember" -> Outcome(items, Flag(cmd.field \in items))
    [] cmd.op = "srem" -> Outcome(items \ {cmd.field}, Flag(cmd.field \in items))
    [] cmd.op = "lpush" -> Outcome(<<cmd.val>> \o items, Size(Len(items) + 1))
    [] cmd.op = "rpush" -> Outcome(Append(items, cmd.val), Size(Len(items) + 1))
    [] cmd.op \in {"lpop", "rpop"} /\ items = EmptyMap -> Outcome(items, Status("None"))
    [] cmd.op = "lpop" /\ items # EmptyMap -> Outcome(Tail(items), Value(Head(items)))
    [] cmd.op = "rpop" /\ items # EmptyMap ->
         Outcome(SubSeq(items, 1, Len(items) - 1), Value(items[Len(items)]))
    [] cmd.op = "zadd" ->
         Outcome(With(items, cmd.field, cmd.score), Flag(cmd.field \notin DOMAIN items))
    [] cmd.op = "zscore" ->
         Outcome(items, CASE cmd.field \in DOMAIN items -> Score(items[cmd.field])
                          [] items = EmptyMap -> Score("-1")
                          [] OTHER -> Status("KeyNotFound"))

Growing == {"hset", "sadd", "lpush", "rpush", "zadd"}

(* A command that only reads or removes does not create the key.           *)
CollectionOutcome(cmd, held) ==
  IF held # Nothing /\ held.type # TypeOf(cmd.op)
  THEN Outcome(held, Status("WrongType"))
  ELSE LET out == ItemsOutcome(cmd, Items(held, cmd.op))
       IN  IF held = Nothing /\ cmd.op \notin Growing
           THEN Outcome(held, out.reply)
           ELSE Outcome(Collection(TypeOf(cmd.op), out.next), out.reply)

OutcomeOf(cmd, held, time) ==
  IF cmd.op \in {"set", "get", "del", "type"} THEN StringOutcome(cmd, held, time)
                                              ELSE CollectionOutcome(cmd, held)

(* Collections are changed by batches that are synced; a hash is written   *)
(* even if the field keeps its value.  Pops and strings are not synced.    *)
Synced(cmd, held, out) ==
  \/ cmd.op = "hset" /\ out.reply # Status("WrongType")
  \/ cmd.op \notin {"set", "del", "lpop", "rpop"} /\ out.next # held

-----------------------------------------------------------------------------
Call(c, cmd) ==
  /\ call[c] = NoCall /\ reply[c] = NoReply
  /\ call' = [call EXCEPT ![c] = cmd]
  /\ UNCHANGED <<data, reply, now, written, recoverable>>

Do(c) ==
  LET cmd == call[c]
      k == cmd.key
      out == OutcomeOf(cmd, data[k], now')
  IN
  /\ cmd # NoCall
  /\ now' >= now
  /\ data' = [data EXCEPT ![k] = out.next]
  /\ written' = IF cmd.op = "del" \/ out.next = data[k] THEN written
                ELSE [written EXCEPT ![k] = out.next]
  /\ recoverable' = IF Synced(cmd, data[k], out) THEN [j \in Keys |-> {written'[j]}]
                    ELSE [recoverable EXCEPT ![k] = @ \cup {written'[k]}]
  /\ call' = [call EXCEPT ![c] = NoCall]
  /\ reply' = [reply EXCEPT ![c] = out.reply]

Fail(c) ==
  /\ MayFail
  /\ call[c] # NoCall
  /\ now' >= now
  /\ call' = [call EXCEPT ![c] = NoCall]
  /\ reply' = [reply EXCEPT ![c] = Status("Error")]
  /\ UNCHANGED <<data, written, recoverable>>

Return(c) ==
  /\ reply[c] # NoReply
  /\ reply' = [reply EXCEPT ![c] = NoReply]
  /\ UNCHANGED <<data, call, now, written, recoverable>>

Tick == now' > now /\ UNCHANGED <<data, call, reply, written, recoverable>>

Restart ==
  /\ \A k \in Keys :
       /\ data'[k] \in recoverable[k]
       /\ written'[k] = data'[k]
       /\ data'[k] \in recoverable'[k]
       /\ recoverable'[k] \subseteq recoverable[k]
  /\ call' = [c \in Clients |-> NoCall]
  /\ reply' = [c \in Clients |-> NoReply]
  /\ UNCHANGED now

RedisTypesNext ==
  \/ \E c \in Clients : (\E cmd \in Commands : Call(c, cmd)) \/ Do(c) \/ Fail(c) \/ Return(c)
  \/ Tick
  \/ Restart

RedisTypesSpec == RedisTypesInit /\ [][RedisTypesNext]_redisTypesVars
==============================================================================
