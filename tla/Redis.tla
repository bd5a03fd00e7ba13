-------------------------------- MODULE Redis --------------------------------
(***************************************************************************)
(* The Redis layer (redis/src/types.rs, meta.rs, generic.rs) as the server *)
(* of main.rs runs it: one RedisDataStructure behind a mutex, which a      *)
(* command holds from before it reads the metadata of its key until its    *)
(* handler has answered.                                                   *)
(*                                                                         *)
(* A collection is spread over several keys of the engine: its metadata    *)
(* under the key itself, each field, member or element under a key of its  *)
(* own that carries the version from the metadata.  A command reads them,  *)
(* computes the new metadata, and writes them back later: in one synced    *)
(* batch, or with a plain put or delete.                                   *)
(*                                                                         *)
(* The engine is the map of module KVStore with atomic batches, kept in a  *)
(* single data file.  A restart replays what was synced and any prefix of  *)
(* what came after.  The tombstone of a plain delete carries the key alone *)
(* where a replay expects a sequence number before it: the bytes of a key  *)
(* then stand for the delete of another one in some batch, or for nothing  *)
(* that can be read, and the server does not start.                        *)
(***************************************************************************)
EXTENDS RedisCommands, SequencesExt

CONSTANTS
  NoClient,     \* "nobody", for the owner of the mutex
  Failures,     \* the I/O errors that may happen: a subset of IOErrors
  RawParse,     \* what the key parser reads from the bytes of a key that
                \* carries no sequence number in front
  MaxWrites,    \* bound: how many commands that may write are sent
  MaxRestarts   \* bound: how often the server is restarted

(* The read of the metadata, the read of a field, member or element, and   *)
(* the put, delete or commit can fail; a put or commit whose sync fails is *)
(* in the log although it has returned an error.                           *)
IOErrors == {"meta", "lookup", "write", "sync"}

(* A byte string that is not a key of any client.                          *)
OtherKey == "other"

ParsedKey == [ok : BOOLEAN, key : Keys \cup {OtherKey}, seq : Nat]

ASSUME RedisAssumption ==
  /\ RawParse \in [Keys -> ParsedKey]
  /\ NoClient \notin Clients
  /\ Failures \subseteq IOErrors
  /\ MaxWrites \in Nat
  /\ MaxRestarts \in Nat

VARIABLES
  store,     \* what the engine holds: a function on the keys that are there
  images,    \* what replays of the log give: of the synced part, then with
             \* each of the writes that came after it
  scans,     \* for each image, whether the log up to there can be read and
             \* the highest sequence number of a finished batch or delete
  waiting,   \* the deleted keys whose tombstones a batch may still apply
  seqNo,     \* the sequence number of the next batch
  up,        \* has the server opened its engine?
  lock,      \* the client whose command holds the mutex
  pc,        \* where each client is
  cmd,       \* its command
  write,     \* what the command has decided to write
  answer,    \* what it will answer, then what it has answered
  now,       \* SystemTime::now()
  quota,     \* how many of the MaxWrites are left
  restarts   \* how often the server has been restarted

engineVars == <<store, images, scans, waiting, seqNo, up>>
clientVars == <<lock, pc, cmd, write, answer>>
redisVars == <<engineVars, clientVars, now, quota, restarts>>

-----------------------------------------------------------------------------
(* Keys and values of the engine.                                          *)
MetaKey(k) == <<k>>
HashInternalKey(k, version, field) == <<k, version, field>>
SetInternalKey(k, version, member) == <<k, version, member, "length">>
ListInternalKey(k, version, i) == <<k, version, i>>
ZSetMemberKey(k, version, member) == <<k, version, member>>
ZSetScoreKey(k, version, score, member) == <<k, version, score, member, "length">>

INITIAL_LIST_MARK == 0

StringValue(v, expire) == [type |-> "String", expire |-> expire, val |-> v]

Metadate(type, version, size, head, tail) ==
  [type |-> type, expire |-> 0, version |-> version, size |-> size, head |-> head, tail |-> tail]

Resized(meta, n) == [meta EXCEPT !.size = @ + n]

(* A write of the engine: puts and deletes that reach the log together.    *)
Write(kind, puts, dels) == [kind |-> kind, puts |-> puts, dels |-> dels]
NoWrite == Write("none", <<>>, {})
Batch(puts, dels) == Write("batch", puts, dels)
Put(x, v) == Write("put", With(<<>>, x, v), {})
Delete(x) == Write("delete", <<>>, {x})

Applied(map, w) ==
  [x \in DOMAIN w.puts \cup (DOMAIN map \ w.dels) |->
     IF x \in DOMAIN w.puts THEN w.puts[x] ELSE map[x]]

(* The keys whose plain delete w is, and those it takes away in a replay:  *)
(* a tombstone that reads as number 0 acts at once, any other one with the *)
(* batch of its number, before the records of that batch.                  *)
Deleted(w) == {k \in Keys : w.kind = "delete" /\ MetaKey(k) \in w.dels}

Acting(w) ==
  {k \in Keys : \/ k \in Deleted(w) /\ RawParse[k].seq = 0
                \/ w.kind = "batch" /\ k \in waiting /\ RawParse[k].seq = seqNo}

Struck(w) == {k \in Keys : \E j \in Acting(w) : RawParse[j].key = k}

Lacking(map, ks) ==
  IF ks = {} THEN map ELSE [x \in DOMAIN map \ {MetaKey(k) : k \in ks} |-> map[x]]

Replayed(map, w) ==
  IF w.kind = "delete" THEN Lacking(map, Struck(w)) ELSE Applied(Lacking(map, Struck(w)), w)

(* What the replay has met when it has come to the end of w.               *)
Scanned(scan, w) ==
  LET seqs == {scan.top} \cup {RawParse[k].seq : k \in Deleted(w)}
                \cup (IF w.kind = "batch" THEN {seqNo} ELSE {})
  IN  [ok |-> scan.ok /\ \A k \in Deleted(w) : RawParse[k].ok, top |-> Max(seqs)]

-----------------------------------------------------------------------------
(* What a command has decided after its reads.                             *)
Decision(w, a) == [write |-> w, reply |-> a]
Say(a) == Decision(NoWrite, a)

(* engine.get of a field, member or element.                               *)
Lookup(x, failed) == IF failed THEN "Error" ELSE IF x \in DOMAIN store THEN "Ok" ELSE "KeyNotFound"

(* RedisDataStructure::set overwrites a value of any type.                 *)
Set(k, v, ttl, time) ==
  IF v = EmptyVal THEN Say(Status("OK"))
  ELSE Decision(Put(MetaKey(k), StringValue(v, IF ttl = 0 THEN 0 ELSE time + ttl)), Status("OK"))

Get(k, time) ==
  LET val == store[MetaKey(k)]
  IN  CASE MetaKey(k) \notin DOMAIN store -> Say(Status("KeyNotFound"))
        [] MetaKey(k) \in DOMAIN store /\ val.type # "String" -> Say(Status("WrongType"))
        [] OTHER -> IF val.expire > 0 /\ val.expire <= time THEN Say(Status("None"))
                                                            ELSE Say(Value(val.val))

(* generic.rs: del removes the metadata only; Engine::delete of a key that *)
(* is not there does nothing.                                              *)
Del(k) ==
  IF MetaKey(k) \in DOMAIN store THEN Decision(Delete(MetaKey(k)), Status("OK"))
                                 ELSE Say(Status("OK"))

KeyType(k) ==
  IF MetaKey(k) \in DOMAIN store THEN Say(TypeIs(store[MetaKey(k)].type))
                                 ELSE Say(Status("KeyNotFound"))

(* find_metadata: the type is compared before the expiry; a key that is    *)
(* not there or has expired gets a new version, the time.                  *)
WrongType(k, type) == MetaKey(k) \in DOMAIN store /\ store[MetaKey(k)].type # type

FreshMetadata(type, time) ==
  IF type = "List" THEN Metadate(type, time, 0, INITIAL_LIST_MARK, INITIAL_LIST_MARK)
                   ELSE Metadate(type, time, 0, 0, 0)

FindMetadata(k, type, time) ==
  LET meta == store[MetaKey(k)]
  IN  IF MetaKey(k) \in DOMAIN store /\ ~(meta.expire # 0 /\ meta.expire <= time)
      THEN meta ELSE FreshMetadata(type, time)

(* Hashes.  hset and hdel take any error but KeyNotFound for "it exists".  *)
Hset(k, meta, field, val, failed) ==
  LET hk == HashInternalKey(k, meta.version, field)
      exist == Lookup(hk, failed) # "KeyNotFound"
      metas == IF exist THEN <<>> ELSE With(<<>>, MetaKey(k), Resized(meta, 1))
  IN  Decision(Batch(With(metas, hk, val), {}), Flag(~exist))

Hget(k, meta, field, failed) ==
  LET hk == HashInternalKey(k, meta.version, field)
      found == Lookup(hk, failed)
  IN  CASE meta.size = 0 -> Say(Status("None"))
        [] meta.size # 0 /\ found = "Ok" -> Say(Value(store[hk]))
        [] OTHER -> Say(Status(found))

(* Faulty: the field is taken off without a look whether it is there.      *)
HdelBlind(k, meta, field, failed) ==
  LET hk == HashInternalKey(k, meta.version, field)
  IN  Decision(Batch(With(<<>>, MetaKey(k), Resized(meta, -1)), {hk}), Flag(TRUE))

Hdel(k, meta, field, failed) ==
  LET hk == HashInternalKey(k, meta.version, field)
  IN  IF meta.size = 0 \/ Lookup(hk, failed) = "KeyNotFound" THEN Say(Flag(FALSE))
      ELSE Decision(Batch(With(<<>>, MetaKey(k), Resized(meta, -1)), {hk}), Flag(TRUE))

(* Sets.  sadd and srem answer "no" when the read fails.                   *)
Sadd(k, meta, member, failed) ==
  LET sk == SetInternalKey(k, meta.version, member)
  IN  IF Lookup(sk, failed) # "KeyNotFound" THEN Say(Flag(FALSE))
      ELSE Decision(Batch(With(With(<<>>, MetaKey(k), Resized(meta, 1)), sk, EmptyVal), {}),
                    Flag(TRUE))

SIsMember(k, meta, member, failed) ==
  LET found == Lookup(SetInternalKey(k, meta.version, member), failed)
  IN  IF meta.size # 0 /\ found = "Error" THEN Say(Status("Error"))
      ELSE Say(Flag(meta.size # 0 /\ found = "Ok"))

Srem(k, meta, member, failed) ==
  LET sk == SetInternalKey(k, meta.version, member)
  IN  IF meta.size = 0 \/ Lookup(sk, failed) # "Ok" THEN Say(Flag(FALSE))
      ELSE Decision(Batch(With(<<>>, MetaKey(k), Resized(meta, -1)), {sk}), Flag(TRUE))

(* Lists.  The elements are those from head up to but not including tail.  *)
PushInner(k, meta, element, isLeft) ==
  LET i == IF isLeft THEN meta.head - 1 ELSE meta.tail
      grown == [Resized(meta, 1) EXCEPT !.head = IF isLeft THEN @ - 1 ELSE @,
                                        !.tail = IF isLeft THEN @ ELSE @ + 1]
      lk == ListInternalKey(k, meta.version, i)
  IN  Decision(Batch(With(With(<<>>, MetaKey(k), grown), lk, element), {}), Size(grown.size))

(* Faulty: the element at tail is taken from the right end.                *)
PopInnerAtTail(k, meta, isLeft, failed) ==
  LET lk == ListInternalKey(k, meta.version, IF isLeft THEN meta.head ELSE meta.tail)
      shrunk == [Resized(meta, -1) EXCEPT !.head = IF isLeft THEN @ + 1 ELSE @,
                                          !.tail = IF isLeft THEN @ ELSE @ - 1]
  IN  CASE meta.size = 0 -> Say(Status("None"))
        [] meta.size # 0 /\ Lookup(lk, failed) # "Ok" -> Say(Status(Lookup(lk, failed)))
        [] OTHER -> Decision(Put(MetaKey(k), shrunk), Value(store[lk]))

(* A pop moves head or tail with a plain put; the element stays behind.    *)
PopInner(k, meta, isLeft, failed) ==
  LET lk == ListInternalKey(k, meta.version, IF isLeft THEN meta.head ELSE meta.tail - 1)
      shrunk == [Resized(meta, -1) EXCEPT !.head = IF isLeft THEN @ + 1 ELSE @,
                                          !.tail = IF isLeft THEN @ ELSE @ - 1]
  IN  CASE meta.size = 0 -> Say(Status("None"))
        [] meta.size # 0 /\ Lookup(lk, failed) # "Ok" -> Say(Status(Lookup(lk, failed)))
        [] OTHER -> Decision(Put(MetaKey(k), shrunk), Value(store[lk]))

(* Faulty: a new score leaves the entry of the old one.                    *)
ZaddKeepsOldScore(k, meta, member, score, failed) ==
  LET zk == ZSetMemberKey(k, meta.version, member)
      found == Lookup(zk, failed)
      entries == With(With(<<>>, zk, score), ZSetScoreKey(k, meta.version, score, member), EmptyVal)
  IN  CASE found = "Error" -> Say(Status("Error"))
        [] found = "KeyNotFound" ->
             Decision(Batch(With(entries, MetaKey(k), Resized(meta, 1)), {}), Flag(TRUE))
        [] found = "Ok" -> Decision(Batch(entries, {}), Flag(FALSE))

(* Sorted sets: an entry by member, and one by score that moves with it.   *)
Zadd(k, meta, member, score, failed) ==
  LET zk == ZSetMemberKey(k, meta.version, member)
      found == Lookup(zk, failed)
      entries == With(With(<<>>, zk, score), ZSetScoreKey(k, meta.version, score, member), EmptyVal)
  IN  CASE found = "Error" -> Say(Status("Error"))
        [] found = "KeyNotFound" ->
             Decision(Batch(With(entries, MetaKey(k), Resized(meta, 1)), {}), Flag(TRUE))
        [] found = "Ok" ->
             IF store[zk] = score THEN Say(Flag(FALSE))
             ELSE Decision(Batch(entries, {ZSetScoreKey(k, meta.version, store[zk], member)}),
                           Flag(FALSE))

Zscore(k, meta, member, failed) ==
  LET zk == ZSetMemberKey(k, meta.version, member)
      found == Lookup(zk, failed)
  IN  CASE meta.size = 0 -> Say(Score("-1"))
        [] meta.size # 0 /\ found = "Ok" -> Say(Score(store[zk]))
        [] OTHER -> Say(Status(found))

CollectionDecision(a, meta, failed) ==
  CASE a.op = "hset" -> Hset(a.key, meta, a.field, a.val, failed)
    [] a.op = "hget" -> Hget(a.key, meta, a.field, failed)
    [] a.op = "hdel" -> Hdel(a.key, meta, a.field, failed)
    [] a.op = "sadd" -> Sadd(a.key, meta, a.field, failed)
    [] a.op = "sismember" -> SIsMember(a.key, meta, a.field, failed)
    [] a.op = "srem" -> Srem(a.key, meta, a.field, failed)
    [] a.op \in {"lpush", "rpush"} -> PushInner(a.key, meta, a.val, a.op = "lpush")
    [] a.op \in {"lpop", "rpop"} -> PopInner(a.key, meta, a.op = "lpop", failed)
    [] a.op = "zadd" -> Zadd(a.key, meta, a.field, a.score, failed)
    [] a.op = "zscore" -> Zscore(a.key, meta, a.field, failed)

DecisionOf(a, time, failed) ==
  CASE a.op = "set" -> Set(a.key, a.val, a.ttl, time)
    [] a.op = "get" -> Get(a.key, time)
    [] a.op = "del" -> Del(a.key)
    [] a.op = "type" -> KeyType(a.key)
    [] OTHER ->
         IF WrongType(a.key, TypeOf(a.op)) THEN Say(Status("WrongType"))
         ELSE CollectionDecision(a, FindMetadata(a.key, TypeOf(a.op), time), failed)

-----------------------------------------------------------------------------
RedisInit ==
  /\ store = <<>> /\ images = <<store>>
  /\ scans = <<[ok |-> TRUE, top |-> 0]>> /\ waiting = {} /\ seqNo = 1 /\ up = TRUE
  /\ lock = NoClient
  /\ pc = [c \in Clients |-> "idle"]
  /\ cmd = [c \in Clients |-> NoCall]
  /\ write = [c \in Clients |-> NoWrite]
  /\ answer = [c \in Clients |-> NoReply]
  /\ now = 0
  /\ quota = MaxWrites
  /\ restarts = 0

Goto(c, from, to) ==
  /\ pc[c] = from
  /\ pc' = [pc EXCEPT ![c] = to]

MayWrite(a) == a.op \notin {"get", "type", "hget", "sismember", "zscore"}

(* Faulty: a command does not wait for the mutex.                          *)
LockShared(c) == lock' = c

(* rds.lock()                                                              *)
Lock(c) == lock = NoClient /\ lock' = c

(* A handler takes the mutex and calls the command.                        *)
Handle(c, a) ==
  /\ up
  /\ Goto(c, "idle", "read")
  /\ Lock(c)
  /\ MayWrite(a) => quota > 0
  /\ quota' = IF MayWrite(a) THEN quota - 1 ELSE quota
  /\ cmd' = [cmd EXCEPT ![c] = a]
  /\ UNCHANGED <<engineVars, write, answer, now, restarts>>

(* The reads of a command.  The clock has moved on since the last command  *)
(* that took a version or an expiry from it.                               *)
Read(c, out) ==
  LET a == cmd[c]
      time == IF MayWrite(a) THEN now + 1 ELSE now
      d == IF out = "meta" THEN Say(Status("Error")) ELSE DecisionOf(a, time, out = "lookup")
  IN
  /\ Goto(c, "read", IF d.write = NoWrite THEN "done" ELSE "write")
  /\ out = "meta" => a.op \notin {"set", "del"}
  /\ out = "lookup" => a.op \notin {"set", "get", "del", "type", "lpush", "rpush"}
  /\ now' = time
  /\ write' = [write EXCEPT ![c] = d.write]
  /\ answer' = [answer EXCEPT ![c] = d.reply]
  /\ UNCHANGED <<engineVars, lock, cmd, quota, restarts>>

(* engine.put, engine.delete or wb.commit.  The batches of the layer are   *)
(* synced, and a sync makes all that was written before durable too.  A    *)
(* commit takes its sequence number even if it fails, and a tombstone      *)
(* whose number has gone by waits for no batch any more.                   *)
Commit(c, out) ==
  LET w == write[c]
      replayed == Replayed(Last(images), w)
      scanned == Scanned(Last(scans), w)
  IN
  /\ Goto(c, "write", "done")
  /\ out = "sync" => w.kind = "batch"
  /\ store' = IF out = "ok" THEN Applied(store, w) ELSE store
  /\ images' = CASE out = "write" -> images
                 [] out = "ok" /\ w.kind = "batch" -> <<replayed>>
                 [] OTHER -> Append(images, replayed)
  /\ scans' = CASE out = "write" -> scans
                [] out = "ok" /\ w.kind = "batch" -> <<scanned>>
                [] OTHER -> Append(scans, scanned)
  /\ seqNo' = IF w.kind = "batch" THEN seqNo + 1 ELSE seqNo
  /\ waiting' = {k \in waiting \cup (IF out = "write" THEN {} ELSE Deleted(w)) :
                   RawParse[k].seq >= seqNo'}
  /\ answer' = IF out = "ok" THEN answer ELSE [answer EXCEPT ![c] = Status("Error")]
  /\ write' = [write EXCEPT ![c] = NoWrite]
  /\ UNCHANGED <<up, lock, cmd, now, quota, restarts>>

(* The handler has answered and gives the mutex back.                      *)
Reply(c) ==
  /\ Goto(c, "done", "idle")
  /\ lock' = NoClient
  /\ cmd' = [cmd EXCEPT ![c] = NoCall]
  /\ answer' = [answer EXCEPT ![c] = NoReply]
  /\ UNCHANGED <<engineVars, write, now, quota, restarts>>

(* The highest sequence number a commit has taken, which may be in the log *)
(* although its batch is not finished.                                     *)
LastSeqNo ==
  IF \E c \in Clients : pc[c] = "write" /\ write[c].kind = "batch" THEN seqNo ELSE seqNo - 1

(* The process dies, with or without the power, and starts again on what   *)
(* is left of the log.  Sequence numbers go on above all that are in it.   *)
(* Where a key cannot be read the server stops with that error.            *)
ServerRestart ==
  /\ restarts < MaxRestarts
  /\ restarts' = restarts + 1
  /\ \E n \in DOMAIN images :
       /\ store' = images[n]
       /\ images' = SubSeq(images, 1, n)
       /\ scans' = SubSeq(scans, 1, n)
       /\ up' = scans[n].ok
       /\ \E top \in scans[n].top..Max({scans[n].top, LastSeqNo}) : seqNo' = top + 1
  /\ waiting' = {}
  /\ lock' = NoClient
  /\ pc' = [c \in Clients |-> "idle"]
  /\ cmd' = [c \in Clients |-> NoCall]
  /\ write' = [c \in Clients |-> NoWrite]
  /\ answer' = [c \in Clients |-> NoReply]
  /\ UNCHANGED <<now, quota>>

RedisNext ==
  \/ \E c \in Clients :
       \/ \E a \in Commands : Handle(c, a)
       \/ \E out \in {"ok"} \cup (Failures \cap {"meta", "lookup"}) : Read(c, out)
       \/ \E out \in {"ok"} \cup (Failures \cap {"write", "sync"}) : Commit(c, out)
       \/ Reply(c)
  \/ ServerRestart

RedisSpec == RedisInit /\ [][RedisNext]_redisVars

-----------------------------------------------------------------------------
(* The metadata a key has in a map of the engine.                          *)
HasMeta(map, k) == MetaKey(k) \in DOMAIN map /\ map[MetaKey(k)].type # "String"

CollectionTypes == {"Hash", "Set", "List", "ZSet"}

MetadataType ==
  [type : CollectionTypes, expire : {0}, version : Nat, size : Nat, head : Int, tail : Int]

(* The shape of the state; a size is unsigned and never falls below 0.     *)
RedisTypeOK ==
  /\ \A k \in Keys : HasMeta(store, k) => store[MetaKey(k)] \in MetadataType
  /\ waiting \subseteq Keys
  /\ lock \in Clients \cup {NoClient}
  /\ pc \in [Clients -> {"idle", "read", "write", "done"}]
  /\ cmd \in [Clients -> Commands \cup {NoCall}]
  /\ DOMAIN write = Clients
  /\ \A c \in Clients : write[c].kind \in {"none", "put", "delete", "batch"}
  /\ now \in 0..MaxWrites /\ quota \in 0..MaxWrites /\ restarts \in 0..MaxRestarts

EntryKeys(k, meta) ==
  CASE meta.type = "Hash" -> {HashInternalKey(k, meta.version, f) : f \in Fields}
    [] meta.type = "Set" -> {SetInternalKey(k, meta.version, f) : f \in Fields}
    [] meta.type = "ZSet" -> {ZSetMemberKey(k, meta.version, f) : f \in Fields}
    [] meta.type = "List" -> {ListInternalKey(k, meta.version, i) : i \in meta.head..meta.tail - 1}

EntriesIn(map, k, meta) == EntryKeys(k, meta) \cap DOMAIN map

CountsEntries(map, k, meta) ==
  /\ meta.size = Cardinality(EntriesIn(map, k, meta))
  /\ meta.type = "List" => meta.size = meta.tail - meta.head

RanksEntries(map, k, meta) ==
  meta.type = "ZSet" =>
    \A f \in Fields, s \in Scores :
      LET zk == ZSetMemberKey(k, meta.version, f)
      IN  ZSetScoreKey(k, meta.version, s, f) \in DOMAIN map
            <=> zk \in DOMAIN map /\ map[zk] = s

(* The metadata of a collection and its entries, which are written by      *)
(* different commands at different times, agree: the size is the number of *)
(* fields, members or elements of the current version, whatever versions   *)
(* del and restarts have left behind.                                      *)
SizeCounts ==
  \A k \in Keys : HasMeta(store, k) => CountsEntries(store, k, store[MetaKey(k)])

(* A member of a sorted set has exactly one entry by score, at the score   *)
(* that its entry by member says.                                          *)
ScoresAgree ==
  \A k \in Keys : HasMeta(store, k) => RanksEntries(store, k, store[MetaKey(k)])

(***************************************************************************)
(* What the steps preserve and these properties rest on, unless a lookup   *)
(* or a sync fails.                                                        *)
(***************************************************************************)
(* The metadata fits the entries of a map.                                 *)
Describes(map, k, meta) ==
  /\ meta \in MetadataType
  /\ IsFiniteSet(EntriesIn(map, k, meta))
  /\ CountsEntries(map, k, meta)
  /\ RanksEntries(map, k, meta)

(* Every collection is in order, and no key has a version the clock has    *)
(* not come to, so that a new version starts without entries.              *)
Consistent(map, time) ==
  /\ \A k \in Keys :
       HasMeta(map, k) => /\ Describes(map, k, map[MetaKey(k)])
                          /\ map[MetaKey(k)].version \in 0..time
  /\ \A x \in DOMAIN map : Len(x) > 1 => x[2] \in 0..time

(* The log knows all that the store holds, and more only where a del has   *)
(* taken away metadata.                                                    *)
Covers(map, part) ==
  /\ \A x \in DOMAIN part : x \in DOMAIN map /\ map[x] = part[x]
  /\ \A x \in DOMAIN map : x \in DOMAIN part \/ \E k \in Keys : x = MetaKey(k)

(* What a restart may find, and what a command is about to write.          *)
ImagesConsistent ==
  /\ images \in Seq(Range(images)) /\ images # <<>>
  /\ Consistent(store, now)
  /\ \A n \in DOMAIN images : Consistent(images[n], now)
  /\ Covers(Last(images), store)

WriteConsistent(w) ==
  /\ Consistent(Applied(store, w), now)
  /\ Consistent(Replayed(Last(images), w), now)
  /\ Covers(Replayed(Last(images), w), Applied(store, w))

(* The mutex is held by the one command that runs, whose reads are still   *)
(* true when it writes; the clock moves once for a command that writes.    *)
OneCommand ==
  \A c \in Clients :
    /\ pc[c] # "idle" => lock = c
    /\ pc[c] = "read" => cmd[c] \in Commands /\ (MayWrite(cmd[c]) => now + quota < MaxWrites)
    /\ pc[c] = "write" => WriteConsistent(write[c])

RedisInv ==
  /\ RedisTypeOK
  /\ ImagesConsistent
  /\ OneCommand
  /\ now + quota <= MaxWrites

(***************************************************************************)
(* The layer implements RedisTypes.  What a key holds is put together from *)
(* its metadata and the entries of that version.                           *)
(***************************************************************************)
Lost == "lost"

Entry(map, x) == IF x \in DOMAIN map THEN map[x] ELSE Lost

HeldIn(map, k) ==
  LET meta == map[MetaKey(k)]
      ver == meta.version
      hashed == {f \in Fields : HashInternalKey(k, ver, f) \in DOMAIN map}
      ranked == {f \in Fields : ZSetMemberKey(k, ver, f) \in DOMAIN map}
  IN  IF MetaKey(k) \notin DOMAIN map THEN [type |-> "none"]
      ELSE CASE meta.type = "String" ->
                  [type |-> "String", val |-> meta.val, expire |-> meta.expire]
             [] meta.type = "Hash" ->
                  [type |-> "Hash", items |-> [f \in hashed |-> map[HashInternalKey(k, ver, f)]]]
             [] meta.type = "Set" ->
                  [type |-> "Set",
                   items |-> {f \in Fields : SetInternalKey(k, ver, f) \in DOMAIN map}]
             [] meta.type = "List" ->
                  [type |-> "List",
                   items |-> [i \in 1..meta.tail - meta.head |->
                                Entry(map, ListInternalKey(k, ver, meta.head + i - 1))]]
             [] meta.type = "ZSet" ->
                  [type |-> "ZSet", items |-> [f \in ranked |-> map[ZSetMemberKey(k, ver, f)]]]

HeldNow == [k \in Keys |-> HeldIn(store, k)]

Asked == [c \in Clients |-> IF pc[c] \in {"read", "write"} THEN cmd[c] ELSE NoCall]

Answered == [c \in Clients |-> IF pc[c] = "done" THEN answer[c] ELSE NoReply]

RT == INSTANCE RedisTypes WITH
        data <- HeldNow, call <- Asked, reply <- Answered, MayFail <- Failures # {},
        written <- [k \in Keys |-> HeldIn(Last(images), k)],
        recoverable <- [k \in Keys |-> {HeldIn(images[n], k) : n \in DOMAIN images}]

(***************************************************************************)
(* What the bytes of a deleted key stand for in a replay.                  *)
(***************************************************************************)
(* No key, without its first bytes, is a key of a client.                  *)
TombstonesHarmless == \A k \in Keys : RawParse[k].key \notin Keys

(* A key that is there is still there for a restart that loses nothing,    *)
(* whatever other keys were deleted.                                       *)
DelSparesOtherKeys ==
  \A k \in Keys : MetaKey(k) \in DOMAIN store => MetaKey(k) \in DOMAIN Last(images)

(* The server starts again on every log it has written.                    *)
ServerStarts == up

(* Every command acts on the whole value of its key in one step, answers   *)
(* as that type does, and a restart finds each key as some write left it.  *)
ImplementsRedisTypes == RT!RedisTypesSpec
==============================================================================
