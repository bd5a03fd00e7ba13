--------------------------- MODULE RedisRefinement ---------------------------
(***************************************************************************)
(* The Redis layer implements RedisTypes, for every set of clients, keys,  *)
(* fields, values and scores, through restarts and through failures of     *)
(* metadata reads and of writes.                                           *)
(***************************************************************************)
EXTENDS RedisProofs

(* The fields, members or elements that belong to a metadata.              *)
ItemsIn(map, k, meta) ==
  LET ver == meta.version
      hashed == {f \in Fields : HashInternalKey(k, ver, f) \in DOMAIN map}
      ranked == {f \in Fields : ZSetMemberKey(k, ver, f) \in DOMAIN map}
  IN  CASE meta.type = "Hash" -> [f \in hashed |-> map[HashInternalKey(k, ver, f)]]
        [] meta.type = "Set" -> {f \in Fields : SetInternalKey(k, ver, f) \in DOMAIN map}
        [] meta.type = "List" ->
             [i \in 1..meta.tail - meta.head |->
                Entry(map, ListInternalKey(k, ver, meta.head + i - 1))]
        [] meta.type = "ZSet" -> [f \in ranked |-> map[ZSetMemberKey(k, ver, f)]]

(* What a key holds is its type and those items, or a string, or nothing.  *)
LEMMA HeldCollection ==
  ASSUME NEW map, NEW k, MetaKey(k) \in DOMAIN map, NEW meta, meta = map[MetaKey(k)],
         meta.type \in CollectionTypes
  PROVE  HeldIn(map, k) = RT!Collection(meta.type, ItemsIn(map, k, meta))
<1>1. CASE meta.type = "Hash"
  BY <1>1 DEF HeldIn, RT!Collection, ItemsIn
<1>2. CASE meta.type = "Set"
  BY <1>2 DEF HeldIn, RT!Collection, ItemsIn
<1>3. CASE meta.type = "List"
  BY <1>3 DEF HeldIn, RT!Collection, ItemsIn
<1>4. CASE meta.type = "ZSet"
  BY <1>4 DEF HeldIn, RT!Collection, ItemsIn
<1> QED
  BY <1>1, <1>2, <1>3, <1>4 DEF CollectionTypes

LEMMA HeldOther ==
  ASSUME NEW map, NEW k
  PROVE  /\ MetaKey(k) \notin DOMAIN map => HeldIn(map, k) = RT!Nothing
         /\ MetaKey(k) \in DOMAIN map /\ map[MetaKey(k)].type = "String" =>
              HeldIn(map, k) = RT!String(map[MetaKey(k)].val, map[MetaKey(k)].expire)
BY DEF HeldIn, RT!Nothing, RT!String

(* The three are told apart by their types.                                *)
LEMMA HeldKinds ==
  ASSUME NEW v, NEW e, NEW type \in CollectionTypes, NEW items
  PROVE  /\ RT!String(v, e) # RT!Nothing /\ RT!String(v, e).type = "String"
         /\ RT!String(v, e).val = v /\ RT!String(v, e).expire = e
         /\ RT!Collection(type, items) # RT!Nothing
         /\ RT!Collection(type, items).type = type /\ RT!Collection(type, items).items = items
BY DEF RT!String, RT!Nothing, RT!Collection, CollectionTypes

(* Answers of different kinds are different.                               *)
LEMMA RepliesDiffer ==
  ASSUME NEW x
  PROVE  /\ Value(x) # NoReply /\ Value(x) # Status("WrongType")
         /\ Flag(x) # NoReply /\ Flag(x) # Status("WrongType")
         /\ Size(x) # NoReply /\ Size(x) # Status("WrongType")
         /\ Score(x) # NoReply /\ Score(x) # Status("WrongType")
         /\ TypeIs(x) # NoReply /\ TypeIs(x) # Status("WrongType")
         /\ x # "none" => Status(x) # NoReply
         /\ x # "WrongType" => Status(x) # Status("WrongType")
BY DEF Value, Flag, Size, Score, TypeIs, Status, NoReply

-----------------------------------------------------------------------------
(* A map that agrees on the entries of a key has the same items.           *)
LEMMA SameItems ==
  ASSUME NEW m, NEW n, NEW k, NEW meta, meta.type \in CollectionTypes,
         \A x : x[1] = k /\ Len(x) > 1 =>
           /\ x \in DOMAIN n <=> x \in DOMAIN m
           /\ x \in DOMAIN m => n[x] = m[x]
  PROVE  ItemsIn(n, k, meta) = ItemsIn(m, k, meta)
<1>1. \A f : LET hk == HashInternalKey(k, meta.version, f)
             IN  (hk \in DOMAIN n <=> hk \in DOMAIN m) /\ (hk \in DOMAIN m => n[hk] = m[hk])
  BY KeyParts
<1>2. \A f : SetInternalKey(k, meta.version, f) \in DOMAIN n
               <=> SetInternalKey(k, meta.version, f) \in DOMAIN m
  BY KeyParts
<1>3. \A f : LET zk == ZSetMemberKey(k, meta.version, f)
             IN  (zk \in DOMAIN n <=> zk \in DOMAIN m) /\ (zk \in DOMAIN m => n[zk] = m[zk])
  BY KeyParts
<1>4. \A i : Entry(n, ListInternalKey(k, meta.version, i)) = Entry(m, ListInternalKey(k, meta.version, i))
  BY KeyParts DEF Entry
<1>5. CASE meta.type = "Hash"
  <2>1. {f \in Fields : HashInternalKey(k, meta.version, f) \in DOMAIN n}
          = {f \in Fields : HashInternalKey(k, meta.version, f) \in DOMAIN m}
    BY <1>1
  <2> QED
    BY <1>1, <1>5, <2>1 DEF ItemsIn
<1>6. CASE meta.type = "Set"
  BY <1>2, <1>6 DEF ItemsIn
<1>7. CASE meta.type = "List"
  BY <1>4, <1>7 DEF ItemsIn
<1>8. CASE meta.type = "ZSet"
  <2>1. {f \in Fields : ZSetMemberKey(k, meta.version, f) \in DOMAIN n}
          = {f \in Fields : ZSetMemberKey(k, meta.version, f) \in DOMAIN m}
    BY <1>3
  <2> QED
    BY <1>3, <1>8, <2>1 DEF ItemsIn
<1> QED
  BY <1>5, <1>6, <1>7, <1>8 DEF CollectionTypes

(* So the log gives a key that is in the store what the store gives it.    *)
LEMMA ItemsCovered ==
  ASSUME NEW m, NEW part, Covers(m, part), NEW k, NEW meta, meta.type \in CollectionTypes
  PROVE  ItemsIn(m, k, meta) = ItemsIn(part, k, meta)
BY EntriesSame, SameItems

LEMMA HeldCovered ==
  ASSUME NEW m, NEW part, NEW time, Covers(m, part), Consistent(part, time),
         NEW k \in Keys, MetaKey(k) \in DOMAIN part
  PROVE  HeldIn(m, k) = HeldIn(part, k)
<1>1. MetaKey(k) \in DOMAIN m /\ m[MetaKey(k)] = part[MetaKey(k)]
  BY DEF Covers
<1>2. PICK meta : meta = part[MetaKey(k)]
  OBVIOUS
<1>3. CASE meta.type = "String"
  BY <1>1, <1>2, <1>3, HeldOther
<1>4. CASE meta.type # "String"
  <2>1. meta.type \in CollectionTypes
    BY <1>2, <1>4, StoredMetadata DEF HasMeta, MetadataType
  <2>2. ItemsIn(m, k, meta) = ItemsIn(part, k, meta)
    BY <2>1, ItemsCovered
  <2>3. /\ HeldIn(m, k) = RT!Collection(meta.type, ItemsIn(m, k, meta))
        /\ HeldIn(part, k) = RT!Collection(meta.type, ItemsIn(part, k, meta))
    BY <1>1, <1>2, <2>1, HeldCollection
  <2> QED
    BY <2>2, <2>3
<1> QED
  BY <1>3, <1>4

(* A write to one key leaves what the others hold.                         *)
LEMMA OthersHeld ==
  ASSUME NEW m, NEW w, NEW k, NEW time, WritesOnly(w, k, time), NEW old, Consistent(m, old),
         NEW j \in Keys, j # k
  PROVE  HeldIn(Applied(m, w), j) = HeldIn(m, j)
<1>1. PICK n : n = Applied(m, w)
  OBVIOUS
<1>2. ASSUME NEW x, x[1] = j
      PROVE  (x \in DOMAIN n <=> x \in DOMAIN m) /\ (x \in DOMAIN m => n[x] = m[x])
  <2>1. x \notin DOMAIN w.puts /\ x \notin w.dels
    BY <1>2 DEF WritesOnly
  <2>2. /\ DOMAIN n = DOMAIN w.puts \cup (DOMAIN m \ w.dels)
        /\ \A y \in DOMAIN m \ w.dels : y \notin DOMAIN w.puts => n[y] = m[y]
    BY <1>1 DEF Applied
  <2> QED
    BY <2>1, <2>2
<1>3. MetaKey(j)[1] = j
  BY KeyParts
<1>4. /\ MetaKey(j) \in DOMAIN n <=> MetaKey(j) \in DOMAIN m
      /\ MetaKey(j) \in DOMAIN m => n[MetaKey(j)] = m[MetaKey(j)]
  BY <1>2, <1>3
<1>5. PICK meta : meta = m[MetaKey(j)]
  OBVIOUS
<1>6. CASE MetaKey(j) \notin DOMAIN m
  BY <1>1, <1>4, <1>6, HeldOther
<1>7. CASE MetaKey(j) \in DOMAIN m /\ meta.type = "String"
  BY <1>1, <1>4, <1>5, <1>7, HeldOther
<1>8. CASE MetaKey(j) \in DOMAIN m /\ meta.type # "String"
  <2>1. meta.type \in CollectionTypes
    BY <1>5, <1>8, StoredMetadata DEF HasMeta, MetadataType
  <2>2. ItemsIn(n, j, meta) = ItemsIn(m, j, meta)
    BY <1>2, <2>1, SameItems
  <2>3. /\ HeldIn(m, j) = RT!Collection(meta.type, ItemsIn(m, j, meta))
        /\ HeldIn(n, j) = RT!Collection(meta.type, ItemsIn(n, j, meta))
    BY <1>4, <1>5, <1>8, <2>1, HeldCollection
  <2> QED
    BY <1>1, <2>2, <2>3
<1> QED
  BY <1>6, <1>7, <1>8

-----------------------------------------------------------------------------
(* A function on nothing is the empty map, and the only one.               *)
LEMMA EmptyFunction ==
  ASSUME NEW f, f = [x \in DOMAIN f |-> f[x]]
  PROVE  f = <<>> <=> DOMAIN f = {}
<1>1. ASSUME DOMAIN f = {}
      PROVE  f = <<>>
  <2>1. f \in [1..0 -> {}]
    BY <1>1
  <2>2. f \in Seq({})
    BY <2>1, SeqDef
  <2>3. Len(f) = 0
    BY <2>1, <2>2, LenProperties
  <2> QED
    BY <2>2, <2>3, EmptySeq
<1> QED
  BY <1>1, EmptyDomain

(* A size is 0 where there are no entries.                                 *)
LEMMA SizeZero ==
  ASSUME NEW m, NEW k, NEW meta, Describes(m, k, meta)
  PROVE  meta.size = 0 <=> EntriesIn(m, k, meta) = {}
<1>1. PICK E : E = EntriesIn(m, k, meta)
  OBVIOUS
<1>2. IsFiniteSet(E) /\ Cardinality(E) = meta.size
  BY <1>1 DEF Describes, CountsEntries
<1> QED
  BY <1>1, <1>2, FS_EmptySet

(* Then there are no items, and only then.                                 *)
LEMMA ItemsEmpty ==
  ASSUME NEW m, NEW k, NEW meta, Describes(m, k, meta)
  PROVE  EntriesIn(m, k, meta) = {}
           <=> ItemsIn(m, k, meta) = IF meta.type = "Set" THEN {} ELSE <<>>
<1>0. meta.type \in CollectionTypes
  BY DEF Describes, MetadataType
<1>1. PICK items : items = ItemsIn(m, k, meta)
  OBVIOUS
<1>2. CASE meta.type = "Hash"
  <2>1. DOMAIN items = {f \in Fields : HashInternalKey(k, meta.version, f) \in DOMAIN m}
    BY <1>1, <1>2 DEF ItemsIn
  <2>2. EntriesIn(m, k, meta) = {} <=> DOMAIN items = {}
    BY <1>2, <2>1 DEF EntriesIn, EntryKeys
  <2>3. items = [f \in DOMAIN items |-> items[f]]
    BY <1>1, <1>2 DEF ItemsIn
  <2> QED
    BY <1>1, <1>2, <2>2, <2>3, EmptyFunction
<1>3. CASE meta.type = "Set"
  BY <1>3 DEF EntriesIn, EntryKeys, ItemsIn
<1>4. CASE meta.type = "List"
  <2>1. /\ meta.head \in Int /\ meta.tail \in Int /\ meta.size \in Nat
        /\ meta.size = meta.tail - meta.head
    BY <1>4, ListBounds
  <2>2. DOMAIN items = 1..meta.size
    BY <1>1, <1>4, <2>1 DEF ItemsIn
  <2>3. EntriesIn(m, k, meta) = {} <=> DOMAIN items = {}
    BY <2>1, <2>2, SizeZero
  <2>4. items = [i \in DOMAIN items |-> items[i]]
    BY <1>1, <1>4 DEF ItemsIn
  <2> QED
    BY <1>1, <1>4, <2>3, <2>4, EmptyFunction
<1>5. CASE meta.type = "ZSet"
  <2>1. DOMAIN items = {f \in Fields : ZSetMemberKey(k, meta.version, f) \in DOMAIN m}
    BY <1>1, <1>5 DEF ItemsIn
  <2>2. EntriesIn(m, k, meta) = {} <=> DOMAIN items = {}
    BY <1>5, <2>1 DEF EntriesIn, EntryKeys
  <2>3. items = [f \in DOMAIN items |-> items[f]]
    BY <1>1, <1>5 DEF ItemsIn
  <2> QED
    BY <1>1, <1>5, <2>2, <2>3, EmptyFunction
<1> QED
  BY <1>0, <1>2, <1>3, <1>4, <1>5 DEF CollectionTypes

-----------------------------------------------------------------------------
(* The promise speaks of the same commands and answers.                    *)
LEMMA SameNames ==
  ASSUME NEW x, NEW y, NEW z
  PROVE  /\ RT!Status(x) = Status(x) /\ RT!Value(x) = Value(x) /\ RT!Flag(x) = Flag(x)
         /\ RT!Size(x) = Size(x) /\ RT!Score(x) = Score(x) /\ RT!TypeIs(x) = TypeIs(x)
         /\ RT!With(x, y, z) = With(x, y, z) /\ RT!TypeOf(x) = TypeOf(x)
         /\ RT!NoCall = NoCall /\ RT!NoReply = NoReply /\ RT!EmptyMap = <<>>
BY DEF RT!Status, Status, RT!Value, Value, RT!Flag, Flag, RT!Size, Size, RT!Score, Score,
       RT!TypeIs, TypeIs, RT!With, With, RT!TypeOf, TypeOf, RT!NoCall, NoCall,
       RT!NoReply, NoReply, RT!EmptyMap

LEMMA SameCommands == RT!Commands = Commands
BY DEF RT!Commands, Commands

(* What it says of the items of a hash, a set, a list and a sorted set.    *)
LEMMA HsetOutcome ==
  ASSUME NEW a, a.op = "hset", NEW items, NEW out, out = RT!ItemsOutcome(a, items)
  PROVE  /\ out.next = With(items, a.field, a.val)
         /\ out.reply = Flag(a.field \notin DOMAIN items)
BY DEF RT!ItemsOutcome, RT!Outcome, RT!With, With, RT!Flag, Flag

LEMMA HgetOutcome ==
  ASSUME NEW a, a.op = "hget", NEW items, NEW out, out = RT!ItemsOutcome(a, items)
  PROVE  /\ out.next = items
         /\ out.reply = CASE a.field \in DOMAIN items -> Value(items[a.field])
                          [] items = <<>> -> Status("None")
                          [] OTHER -> Status("KeyNotFound")
BY DEF RT!ItemsOutcome, RT!Outcome, RT!Value, Value, RT!Status, Status, RT!EmptyMap

LEMMA HdelOutcome ==
  ASSUME NEW a, a.op = "hdel", NEW items, NEW out, out = RT!ItemsOutcome(a, items)
  PROVE  /\ out.next = RT!Without(items, a.field)
         /\ out.reply = Flag(a.field \in DOMAIN items)
BY DEF RT!ItemsOutcome, RT!Outcome, RT!Flag, Flag

LEMMA SaddOutcome ==
  ASSUME NEW a, a.op = "sadd", NEW items, NEW out, out = RT!ItemsOutcome(a, items)
  PROVE  out.next = items \cup {a.field} /\ out.reply = Flag(a.field \notin items)
BY DEF RT!ItemsOutcome, RT!Outcome, RT!Flag, Flag

LEMMA SIsMemberOutcome ==
  ASSUME NEW a, a.op = "sismember", NEW items, NEW out, out = RT!ItemsOutcome(a, items)
  PROVE  out.next = items /\ out.reply = Flag(a.field \in items)
BY DEF RT!ItemsOutcome, RT!Outcome, RT!Flag, Flag

LEMMA SremOutcome ==
  ASSUME NEW a, a.op = "srem", NEW items, NEW out, out = RT!ItemsOutcome(a, items)
  PROVE  out.next = items \ {a.field} /\ out.reply = Flag(a.field \in items)
BY DEF RT!ItemsOutcome, RT!Outcome, RT!Flag, Flag

LEMMA LpushOutcome ==
  ASSUME NEW a, a.op = "lpush", NEW items, NEW out, out = RT!ItemsOutcome(a, items)
  PROVE  out.next = <<a.val>> \o items /\ out.reply = Size(Len(items) + 1)
BY DEF RT!ItemsOutcome, RT!Outcome, RT!Size, Size

LEMMA RpushOutcome ==
  ASSUME NEW a, a.op = "rpush", NEW items, NEW out, out = RT!ItemsOutcome(a, items)
  PROVE  out.next = Append(items, a.val) /\ out.reply = Size(Len(items) + 1)
BY DEF RT!ItemsOutcome, RT!Outcome, RT!Size, Size

LEMMA NoPopOutcome ==
  ASSUME NEW a, a.op \in {"lpop", "rpop"}, NEW items, NEW out, out = RT!ItemsOutcome(a, items)
  PROVE  items = <<>> => out.next = items /\ out.reply = Status("None")
BY DEF RT!ItemsOutcome, RT!Outcome, RT!Status, Status, RT!EmptyMap

LEMMA LpopOutcome ==
  ASSUME NEW a, a.op = "lpop", NEW items, NEW out, out = RT!ItemsOutcome(a, items)
  PROVE  items # <<>> => out.next = Tail(items) /\ out.reply = Value(Head(items))
BY DEF RT!ItemsOutcome, RT!Outcome, RT!Value, Value, RT!EmptyMap

LEMMA RpopOutcome ==
  ASSUME NEW a, a.op = "rpop", NEW items, NEW out, out = RT!ItemsOutcome(a, items)
  PROVE  items # <<>> => /\ out.next = SubSeq(items, 1, Len(items) - 1)
                         /\ out.reply = Value(items[Len(items)])
BY DEF RT!ItemsOutcome, RT!Outcome, RT!Value, Value, RT!EmptyMap

LEMMA ZaddOutcome ==
  ASSUME NEW a, a.op = "zadd", NEW items, NEW out, out = RT!ItemsOutcome(a, items)
  PROVE  /\ out.next = With(items, a.field, a.score)
         /\ out.reply = Flag(a.field \notin DOMAIN items)
BY DEF RT!ItemsOutcome, RT!Outcome, RT!With, With, RT!Flag, Flag

LEMMA ZscoreOutcome ==
  ASSUME NEW a, a.op = "zscore", NEW items, NEW out, out = RT!ItemsOutcome(a, items)
  PROVE  /\ out.next = items
         /\ out.reply = CASE a.field \in DOMAIN items -> Score(items[a.field])
                          [] items = <<>> -> Score("-1")
                          [] OTHER -> Status("KeyNotFound")
BY DEF RT!ItemsOutcome, RT!Outcome, RT!Score, Score, RT!Status, Status, RT!EmptyMap

-----------------------------------------------------------------------------
(* What a command on a collection answers and writes is what the promise   *)
(* says of its items.                                                      *)
Serves(a, m, k, meta, d) ==
  LET items == ItemsIn(m, k, meta)
      out == RT!ItemsOutcome(a, items)
      n == Applied(m, d.write)
  IN
  /\ d.reply = out.reply /\ d.reply # NoReply /\ d.reply # Status("WrongType")
  /\ d.write = NoWrite =>
       out.next = items /\ (a.op \in RT!Growing => EntriesIn(m, k, meta) # {})
  /\ d.write # NoWrite =>
       /\ MetaKey(k) \in DOMAIN n /\ n[MetaKey(k)].type = meta.type
       /\ ItemsIn(n, k, n[MetaKey(k)]) = out.next
       /\ a.op \notin RT!Growing => EntriesIn(m, k, meta) # {}
       /\ d.write.kind = IF a.op \in {"lpop", "rpop"} THEN "put" ELSE "batch"
       /\ a.op = "hset" \/ out.next # items

(* The items of a hash.                                                     *)
LEMMA HashItems ==
  ASSUME NEW m, NEW k, NEW meta, meta.type = "Hash", NEW v, v = meta.version,
         NEW items, items = ItemsIn(m, k, meta)
  PROVE  /\ \A f : f \in DOMAIN items <=> f \in Fields /\ HashInternalKey(k, v, f) \in DOMAIN m
         /\ \A f \in DOMAIN items : items[f] = m[HashInternalKey(k, v, f)]
BY DEF ItemsIn

LEMMA HashFunction ==
  ASSUME NEW m, NEW k, NEW meta, meta.type = "Hash", NEW items, items = ItemsIn(m, k, meta)
  PROVE  items = [f \in DOMAIN items |-> items[f]]
BY DEF ItemsIn

LEMMA HashKeysDiffer ==
  ASSUME NEW k, NEW v, NEW f
  PROVE  /\ HashInternalKey(k, v, f) # MetaKey(k)
         /\ \A g : g # f => HashInternalKey(k, v, g) # HashInternalKey(k, v, f)
BY DEF HashInternalKey, MetaKey

(* One of them is set, the others stay.                                    *)
LEMMA HashTakes ==
  ASSUME NEW m, NEW n, NEW k, NEW meta, NEW next, meta.type = "Hash", next.type = "Hash",
         next.version = meta.version, NEW field \in Fields, NEW x, NEW val,
         x = HashInternalKey(k, meta.version, field), x \in DOMAIN n, n[x] = val,
         \A f \in Fields : f # field =>
           /\ HashInternalKey(k, meta.version, f) \in DOMAIN n
                <=> HashInternalKey(k, meta.version, f) \in DOMAIN m
           /\ HashInternalKey(k, meta.version, f) \in DOMAIN m =>
                n[HashInternalKey(k, meta.version, f)] = m[HashInternalKey(k, meta.version, f)]
  PROVE  ItemsIn(n, k, next) = With(ItemsIn(m, k, meta), field, val)
<1>1. PICK items : items = ItemsIn(m, k, meta)
  OBVIOUS
<1>2. PICK new : new = ItemsIn(n, k, next)
  OBVIOUS
<1>3. /\ \A f : f \in DOMAIN items <=> f \in Fields /\ HashInternalKey(k, meta.version, f) \in DOMAIN m
      /\ \A f \in DOMAIN items : items[f] = m[HashInternalKey(k, meta.version, f)]
  BY <1>1, HashItems
<1>4. /\ \A f : f \in DOMAIN new <=> f \in Fields /\ HashInternalKey(k, meta.version, f) \in DOMAIN n
      /\ \A f \in DOMAIN new : new[f] = n[HashInternalKey(k, meta.version, f)]
  BY <1>2, HashItems
<1>5. new = [f \in DOMAIN new |-> new[f]]
  BY <1>2, HashFunction
<1>6. DOMAIN new = DOMAIN items \cup {field}
  BY <1>3, <1>4
<1>7. \A f \in DOMAIN new : new[f] = IF f = field THEN val ELSE items[f]
  BY <1>3, <1>4, <1>6
<1> QED
  BY <1>1, <1>2, <1>5, <1>6, <1>7 DEF With

(* One of them is taken off.                                               *)
LEMMA HashGives ==
  ASSUME NEW m, NEW n, NEW k, NEW meta, NEW next, meta.type = "Hash", next.type = "Hash",
         next.version = meta.version, NEW field \in Fields,
         HashInternalKey(k, meta.version, field) \notin DOMAIN n,
         \A f \in Fields : f # field =>
           /\ HashInternalKey(k, meta.version, f) \in DOMAIN n
                <=> HashInternalKey(k, meta.version, f) \in DOMAIN m
           /\ HashInternalKey(k, meta.version, f) \in DOMAIN m =>
                n[HashInternalKey(k, meta.version, f)] = m[HashInternalKey(k, meta.version, f)],
         NEW items, items = ItemsIn(m, k, meta)
  PROVE  ItemsIn(n, k, next) = RT!Without(items, field)
<1>2. PICK new : new = ItemsIn(n, k, next)
  OBVIOUS
<1>3. /\ \A f : f \in DOMAIN items <=> f \in Fields /\ HashInternalKey(k, meta.version, f) \in DOMAIN m
      /\ \A f \in DOMAIN items : items[f] = m[HashInternalKey(k, meta.version, f)]
  BY HashItems
<1>4. /\ \A f : f \in DOMAIN new <=> f \in Fields /\ HashInternalKey(k, meta.version, f) \in DOMAIN n
      /\ \A f \in DOMAIN new : new[f] = n[HashInternalKey(k, meta.version, f)]
  BY <1>2, HashItems
<1>5. new = [f \in DOMAIN new |-> new[f]]
  BY <1>2, HashFunction
<1>6. DOMAIN new = DOMAIN items \ {field}
  BY <1>3, <1>4
<1>7. \A f \in DOMAIN new : new[f] = items[f]
  BY <1>3, <1>4, <1>6
<1> QED
  BY <1>2, <1>5, <1>6, <1>7 DEF RT!Without

(* A hash takes a field, whether it is new or not.                         *)
LEMMA HsetServes ==
  ASSUME NEW a, a.op = "hset", NEW m, NEW k \in Keys, NEW time \in Nat, NEW meta,
         WorksOn(m, k, meta, "Hash", time), NEW field \in Fields, field = a.field
  PROVE  Serves(a, m, k, meta, Hset(k, meta, field, a.val, FALSE))
<1>1. PICK d : d = Hset(k, meta, field, a.val, FALSE)
  OBVIOUS
<1>2. PICK hk : hk = HashInternalKey(k, meta.version, field)
  OBVIOUS
<1>3. PICK n : n = Applied(m, d.write)
  OBVIOUS
<1>4. PICK items : items = ItemsIn(m, k, meta)
  OBVIOUS
<1>5. /\ Len(hk) = 3 /\ hk # MetaKey(k) /\ meta \in MetadataType /\ meta.type = "Hash"
      /\ Describes(m, k, meta)
  BY <1>2, KeyParts DEF WorksOn, HashInternalKey, MetaKey
<1>6. hk \in DOMAIN m <=> hk \in DOMAIN store
  <2>1. Covers(m, store) /\ Len(hk) > 1
    BY <1>5 DEF WorksOn
  <2> QED
    BY <2>1, EntriesSame
<1>7. hk \in DOMAIN store <=> field \in DOMAIN items
  <2>1. field \in DOMAIN items <=> hk \in DOMAIN m
    BY <1>2, <1>4, <1>5, HashItems
  <2> QED
    BY <1>6, <2>1
<1>8. PICK out : out = RT!ItemsOutcome(a, items)
  OBVIOUS
<1>9. out.next = With(items, field, a.val) /\ out.reply = Flag(field \notin DOMAIN items)
  BY <1>8, HsetOutcome
<1>10. /\ d.reply = Flag(field \notin DOMAIN items)
       /\ d.write # NoWrite /\ d.write.kind = "batch"
  <2>1. PICK exist \in BOOLEAN : exist = (Lookup(hk, FALSE) # "KeyNotFound")
    OBVIOUS
  <2>2. (~exist) = (field \notin DOMAIN items)
    BY <1>7, <2>1 DEF Lookup
  <2>3. d.reply = Flag(~exist) /\ d.write.kind = "batch"
    BY <1>1, <1>2, <2>1 DEF Hset, Decision, Batch, Write
  <2> QED
    BY <2>2, <2>3, OtherKinds
<1>11. PICK next : next = IF hk \in DOMAIN store THEN meta ELSE Resized(meta, 1)
  OBVIOUS
<1>12. next.type = "Hash" /\ next.version = meta.version
  <2>1. meta.size + 1 \in Nat
    BY <1>5 DEF MetadataType
  <2> QED
    BY <1>5, <1>11, <2>1, ResizedFacts
<1>13. /\ hk \in DOMAIN n /\ n[hk] = a.val
       /\ MetaKey(k) \in DOMAIN n /\ n[MetaKey(k)] = next
       /\ \A x : x # hk /\ x # MetaKey(k) =>
            (x \in DOMAIN n <=> x \in DOMAIN m) /\ (x \in DOMAIN m => n[x] = m[x])
  <2>1. CASE hk \in DOMAIN store
    <3>1. d.write.puts = With(<<>>, hk, a.val) /\ d.write.dels = {}
      BY <1>1, <1>2, <2>1 DEF Hset, Lookup, Decision, Batch, Write
    <3>2. DOMAIN d.write.puts = {hk} /\ d.write.puts[hk] = a.val
      BY <3>1, EmptyDomain DEF With
    <3>3. /\ DOMAIN n = {hk} \cup DOMAIN m /\ n[hk] = a.val
          /\ \A x \in DOMAIN m : x # hk => n[x] = m[x]
      BY <1>3, <3>1, <3>2 DEF Applied
    <3>4. hk \in EntriesIn(m, k, meta)
      BY <1>2, <1>5, <1>6, <2>1 DEF EntriesIn, EntryKeys
    <3>5. MetaKey(k) \in DOMAIN m /\ m[MetaKey(k)] = meta
      BY <3>4 DEF WorksOn
    <3> QED
      BY <1>5, <1>11, <2>1, <3>3, <3>5
  <2>2. CASE hk \notin DOMAIN store
    <3>1. d.write.puts = With(With(<<>>, MetaKey(k), next), hk, a.val) /\ d.write.dels = {}
      BY <1>1, <1>2, <1>11, <2>2 DEF Hset, Lookup, Decision, Batch, Write
    <3>2. /\ DOMAIN d.write.puts = {hk, MetaKey(k)}
          /\ d.write.puts[hk] = a.val /\ d.write.puts[MetaKey(k)] = next
      BY <1>5, <3>1, EmptyDomain DEF With
    <3>3. /\ DOMAIN n = {hk, MetaKey(k)} \cup DOMAIN m /\ n[hk] = a.val /\ n[MetaKey(k)] = next
          /\ \A x \in DOMAIN m : x # hk /\ x # MetaKey(k) => n[x] = m[x]
      BY <1>3, <3>1, <3>2 DEF Applied
    <3> QED
      BY <3>3
  <2> QED
    BY <2>1, <2>2
<1>14. ItemsIn(n, k, next) = With(items, field, a.val)
  <2>1. \A f : /\ HashInternalKey(k, meta.version, f) # MetaKey(k)
               /\ f # field => HashInternalKey(k, meta.version, f) # hk
    BY <1>2, HashKeysDiffer
  <2>2. \A f \in Fields : f # field =>
           /\ HashInternalKey(k, meta.version, f) \in DOMAIN n
                <=> HashInternalKey(k, meta.version, f) \in DOMAIN m
           /\ HashInternalKey(k, meta.version, f) \in DOMAIN m =>
                n[HashInternalKey(k, meta.version, f)] = m[HashInternalKey(k, meta.version, f)]
    BY <1>13, <2>1
  <2> QED
    BY <1>2, <1>4, <1>5, <1>12, <1>13, <2>2, HashTakes
<1>15. d.reply = out.reply /\ d.reply # NoReply /\ d.reply # Status("WrongType")
  BY <1>9, <1>10, RepliesDiffer
<1>16. MetaKey(k) \in DOMAIN n /\ n[MetaKey(k)].type = meta.type
  BY <1>5, <1>12, <1>13
<1>17. ItemsIn(n, k, n[MetaKey(k)]) = out.next
  BY <1>9, <1>13, <1>14
<1>18. a.op \in RT!Growing
  BY DEF RT!Growing
<1> QED
  BY <1>1, <1>3, <1>4, <1>8, <1>10, <1>15, <1>16, <1>17, <1>18 DEF Serves

(* It answers with one.                                                    *)
LEMMA HgetServes ==
  ASSUME NEW a, a.op = "hget", NEW m, NEW k \in Keys, NEW time \in Nat, NEW meta,
         WorksOn(m, k, meta, "Hash", time), NEW field \in Fields, field = a.field
  PROVE  Serves(a, m, k, meta, Hget(k, meta, field, FALSE))
<1>1. PICK d : d = Hget(k, meta, field, FALSE)
  OBVIOUS
<1>2. PICK hk : hk = HashInternalKey(k, meta.version, field)
  OBVIOUS
<1>4. PICK items : items = ItemsIn(m, k, meta)
  OBVIOUS
<1>5. Len(hk) = 3 /\ meta.type = "Hash" /\ Describes(m, k, meta)
  BY <1>2, KeyParts DEF WorksOn
<1>6. (hk \in DOMAIN m <=> hk \in DOMAIN store) /\ (hk \in DOMAIN store => m[hk] = store[hk])
  <2>1. Covers(m, store) /\ Len(hk) > 1
    BY <1>5 DEF WorksOn
  <2> QED
    BY <2>1, EntriesSame
<1>7. (field \in DOMAIN items <=> hk \in DOMAIN m) /\ (field \in DOMAIN items => items[field] = m[hk])
  BY <1>2, <1>4, <1>5, HashItems
<1>8. PICK out : out = RT!ItemsOutcome(a, items)
  OBVIOUS
<1>9. /\ out.next = items
      /\ out.reply = CASE field \in DOMAIN items -> Value(items[field])
                       [] items = <<>> -> Status("None")
                       [] OTHER -> Status("KeyNotFound")
  BY <1>8, HgetOutcome
<1>10. meta.size = 0 <=> items = <<>>
  BY <1>4, <1>5, SizeZero, ItemsEmpty
<1>11. items = <<>> => field \notin DOMAIN items
  BY EmptyDomain
<1>12. d.write = NoWrite /\ d.reply = out.reply
  <2>1. CASE meta.size = 0
    BY <1>1, <1>9, <1>10, <1>11, <2>1 DEF Hget, Say, Decision
  <2>2. CASE meta.size # 0 /\ hk \in DOMAIN store
    BY <1>1, <1>2, <1>6, <1>7, <1>9, <1>10, <2>2 DEF Hget, Lookup, Say, Decision
  <2>3. CASE meta.size # 0 /\ hk \notin DOMAIN store
    BY <1>1, <1>2, <1>6, <1>7, <1>9, <1>10, <2>3 DEF Hget, Lookup, Say, Decision
  <2> QED
    BY <2>1, <2>2, <2>3
<1>13. out.reply # NoReply /\ out.reply # Status("WrongType")
  BY <1>9, RepliesDiffer
<1> QED
  BY <1>1, <1>4, <1>8, <1>9, <1>12, <1>13 DEF Serves, RT!Growing

(* It gives one up, if it has it.                                          *)
LEMMA HdelServes ==
  ASSUME NEW a, a.op = "hdel", NEW m, NEW k \in Keys, NEW time \in Nat, NEW meta,
         WorksOn(m, k, meta, "Hash", time), NEW field \in Fields, field = a.field
  PROVE  Serves(a, m, k, meta, Hdel(k, meta, field, FALSE))
<1>1. PICK d : d = Hdel(k, meta, field, FALSE)
  OBVIOUS
<1>2. PICK hk : hk = HashInternalKey(k, meta.version, field)
  OBVIOUS
<1>3. PICK n : n = Applied(m, d.write)
  OBVIOUS
<1>4. PICK items : items = ItemsIn(m, k, meta)
  OBVIOUS
<1>5. /\ Len(hk) = 3 /\ hk # MetaKey(k) /\ meta \in MetadataType /\ meta.type = "Hash"
      /\ Describes(m, k, meta)
  BY <1>2, KeyParts DEF WorksOn, HashInternalKey, MetaKey
<1>6. hk \in DOMAIN m <=> hk \in DOMAIN store
  <2>1. Covers(m, store) /\ Len(hk) > 1
    BY <1>5 DEF WorksOn
  <2> QED
    BY <2>1, EntriesSame
<1>7. field \in DOMAIN items <=> hk \in DOMAIN m
  BY <1>2, <1>4, <1>5, HashItems
<1>8. PICK out : out = RT!ItemsOutcome(a, items)
  OBVIOUS
<1>9. out.next = RT!Without(items, field) /\ out.reply = Flag(field \in DOMAIN items)
  BY <1>8, HdelOutcome
<1>10. items = [g \in DOMAIN items |-> items[g]]
  BY <1>4, <1>5, HashFunction
<1>11. CASE hk \notin DOMAIN store
  <2>1. d.write = NoWrite /\ d.reply = Flag(FALSE)
    BY <1>1, <1>2, <1>11 DEF Hdel, Lookup, Say, Decision
  <2>2. field \notin DOMAIN items
    BY <1>6, <1>7, <1>11
  <2>3. (field \in DOMAIN items) = FALSE
    BY <2>2
  <2>4. out.reply = Flag(FALSE)
    BY <1>9, <2>3
  <2>5. DOMAIN items \ {field} = DOMAIN items
    BY <2>2
  <2>6. out.next = items
    BY <1>9, <1>10, <2>5 DEF RT!Without
  <2> QED
    BY <1>1, <1>4, <1>8, <2>1, <2>4, <2>6, RepliesDiffer DEF Serves, RT!Growing
<1>12. CASE hk \in DOMAIN store
  <2>1. hk \in EntriesIn(m, k, meta) /\ meta.size \in Nat /\ meta.size # 0
    <3>1. hk \in EntriesIn(m, k, meta)
      BY <1>2, <1>5, <1>6, <1>12 DEF EntriesIn, EntryKeys
    <3> QED
      BY <1>5, <3>1, CountedPositive
  <2>2. PICK next : next = Resized(meta, -1)
    OBVIOUS
  <2>3. next.type = "Hash" /\ next.version = meta.version
    <3>1. meta.size + (-1) \in Nat /\ -1 \in Int
      BY <2>1
    <3> QED
      BY <1>5, <2>2, <3>1, ResizedFacts
  <2>4. /\ d.write.puts = With(<<>>, MetaKey(k), next) /\ d.write.dels = {hk}
        /\ d.write.kind = "batch" /\ d.reply = Flag(TRUE)
    BY <1>1, <1>2, <1>12, <2>1, <2>2 DEF Hdel, Lookup, Decision, Batch, Write
  <2>5. DOMAIN d.write.puts = {MetaKey(k)} /\ d.write.puts[MetaKey(k)] = next
    BY <2>4, EmptyDomain DEF With
  <2>6. /\ DOMAIN n = {MetaKey(k)} \cup (DOMAIN m \ {hk}) /\ n[MetaKey(k)] = next
        /\ \A x \in DOMAIN m : x # hk /\ x # MetaKey(k) => n[x] = m[x]
    BY <1>3, <2>4, <2>5 DEF Applied
  <2>7. \A f : /\ HashInternalKey(k, meta.version, f) # MetaKey(k)
               /\ f # field => HashInternalKey(k, meta.version, f) # hk
    BY <1>2, HashKeysDiffer
  <2>8. \A f \in Fields : f # field =>
           /\ HashInternalKey(k, meta.version, f) \in DOMAIN n
                <=> HashInternalKey(k, meta.version, f) \in DOMAIN m
           /\ HashInternalKey(k, meta.version, f) \in DOMAIN m =>
                n[HashInternalKey(k, meta.version, f)] = m[HashInternalKey(k, meta.version, f)]
    BY <2>6, <2>7
  <2>9. HashInternalKey(k, meta.version, field) \notin DOMAIN n
    BY <1>2, <1>5, <2>6
  <2>10. ItemsIn(n, k, next) = out.next
    BY <1>4, <1>5, <1>9, <2>3, <2>8, <2>9, HashGives
  <2>11. field \in DOMAIN items
    BY <1>6, <1>7, <1>12
  <2>12. (field \in DOMAIN items) = TRUE
    BY <2>11
  <2>13. out.next # items
    <3>1. DOMAIN out.next = DOMAIN items \ {field}
      BY <1>9 DEF RT!Without
    <3> QED
      BY <2>11, <3>1
  <2>14. d.reply = out.reply /\ d.write # NoWrite
    BY <1>9, <2>4, <2>12, OtherKinds
  <2>15. d.reply # NoReply /\ d.reply # Status("WrongType")
    BY <2>4, RepliesDiffer
  <2>16. MetaKey(k) \in DOMAIN n /\ n[MetaKey(k)].type = meta.type
    BY <1>5, <2>3, <2>6
  <2>17. ItemsIn(n, k, n[MetaKey(k)]) = out.next /\ EntriesIn(m, k, meta) # {}
    BY <2>1, <2>6, <2>10
  <2> QED
    BY <1>1, <1>3, <1>4, <1>8, <2>4, <2>13, <2>14, <2>15, <2>16, <2>17 DEF Serves
<1> QED
  BY <1>11, <1>12

-----------------------------------------------------------------------------
(* The items of a set.                                                     *)
LEMMA SetItems ==
  ASSUME NEW m, NEW k, NEW meta, meta.type = "Set", NEW v, v = meta.version,
         NEW items, items = ItemsIn(m, k, meta)
  PROVE  \A f : f \in items <=> f \in Fields /\ SetInternalKey(k, v, f) \in DOMAIN m
BY DEF ItemsIn

LEMMA SetKeysDiffer ==
  ASSUME NEW k, NEW v, NEW f
  PROVE  /\ SetInternalKey(k, v, f) # MetaKey(k)
         /\ \A g : g # f => SetInternalKey(k, v, g) # SetInternalKey(k, v, f)
BY DEF SetInternalKey, MetaKey

(* A set takes a member, if it does not have it.                           *)
LEMMA SaddServes ==
  ASSUME NEW a, a.op = "sadd", NEW m, NEW k \in Keys, NEW time \in Nat, NEW meta,
         WorksOn(m, k, meta, "Set", time), NEW field \in Fields, field = a.field
  PROVE  Serves(a, m, k, meta, Sadd(k, meta, field, FALSE))
<1>1. PICK d : d = Sadd(k, meta, field, FALSE)
  OBVIOUS
<1>2. PICK sk : sk = SetInternalKey(k, meta.version, field)
  OBVIOUS
<1>3. PICK n : n = Applied(m, d.write)
  OBVIOUS
<1>4. PICK items : items = ItemsIn(m, k, meta)
  OBVIOUS
<1>5. /\ Len(sk) = 4 /\ sk # MetaKey(k) /\ meta \in MetadataType /\ meta.type = "Set"
      /\ Describes(m, k, meta)
  BY <1>2, KeyParts DEF WorksOn, SetInternalKey, MetaKey
<1>6. sk \in DOMAIN m <=> sk \in DOMAIN store
  <2>1. Covers(m, store) /\ Len(sk) > 1
    BY <1>5 DEF WorksOn
  <2> QED
    BY <2>1, EntriesSame
<1>7. field \in items <=> sk \in DOMAIN m
  BY <1>2, <1>4, <1>5, SetItems
<1>8. PICK out : out = RT!ItemsOutcome(a, items)
  OBVIOUS
<1>9. out.next = items \cup {field} /\ out.reply = Flag(field \notin items)
  BY <1>8, SaddOutcome
<1>10. CASE sk \in DOMAIN store
  <2>1. d.write = NoWrite /\ d.reply = Flag(FALSE)
    BY <1>1, <1>2, <1>10 DEF Sadd, Lookup, Say, Decision
  <2>2. (field \notin items) = FALSE /\ items \cup {field} = items
    BY <1>6, <1>7, <1>10
  <2>3. sk \in EntriesIn(m, k, meta)
    BY <1>2, <1>5, <1>6, <1>10 DEF EntriesIn, EntryKeys
  <2>4. out.reply = Flag(FALSE) /\ out.next = items
    BY <1>9, <2>2
  <2> QED
    BY <1>1, <1>4, <1>8, <2>1, <2>3, <2>4, RepliesDiffer DEF Serves
<1>11. CASE sk \notin DOMAIN store
  <2>1. PICK next : next = Resized(meta, 1)
    OBVIOUS
  <2>2. next.type = "Set" /\ next.version = meta.version
    <3>1. meta.size + 1 \in Nat
      BY <1>5 DEF MetadataType
    <3> QED
      BY <1>5, <2>1, <3>1, ResizedFacts
  <2>3. /\ d.write.puts = With(With(<<>>, MetaKey(k), next), sk, EmptyVal) /\ d.write.dels = {}
        /\ d.write.kind = "batch" /\ d.reply = Flag(TRUE)
    BY <1>1, <1>2, <1>11, <2>1 DEF Sadd, Lookup, Decision, Batch, Write
  <2>4. DOMAIN d.write.puts = {MetaKey(k), sk} /\ d.write.puts[MetaKey(k)] = next
    BY <1>5, <2>3, EmptyDomain DEF With
  <2>5. DOMAIN n = {MetaKey(k), sk} \cup DOMAIN m /\ n[MetaKey(k)] = next
    BY <1>3, <2>3, <2>4 DEF Applied
  <2>6. \A f : /\ SetInternalKey(k, meta.version, f) # MetaKey(k)
               /\ f # field => SetInternalKey(k, meta.version, f) # sk
    BY <1>2, SetKeysDiffer
  <2>7. PICK new : new = ItemsIn(n, k, next)
    OBVIOUS
  <2>8. \A f : f \in new <=> f \in Fields /\ SetInternalKey(k, meta.version, f) \in DOMAIN n
    BY <2>2, <2>7, SetItems
  <2>9. \A f : f \in items <=> f \in Fields /\ SetInternalKey(k, meta.version, f) \in DOMAIN m
    BY <1>4, <1>5, SetItems
  <2>10. \A f : f \in new <=> f \in items \cup {field}
    BY <1>2, <2>5, <2>6, <2>8, <2>9
  <2>11. new = out.next
    BY <1>9, <2>10
  <2>12. field \notin items
    BY <1>6, <1>7, <1>11
  <2>13. out.next # items /\ (field \notin items) = TRUE
    BY <1>9, <2>12
  <2>14. d.reply = out.reply /\ d.write # NoWrite
    BY <1>9, <2>3, <2>13, OtherKinds
  <2> QED
    BY <1>1, <1>3, <1>4, <1>5, <1>8, <2>2, <2>3, <2>5, <2>7, <2>11, <2>13, <2>14, RepliesDiffer
    DEF Serves, RT!Growing
<1> QED
  BY <1>10, <1>11

(* It answers whether it has one.                                          *)
LEMMA SIsMemberServes ==
  ASSUME NEW a, a.op = "sismember", NEW m, NEW k \in Keys, NEW time \in Nat, NEW meta,
         WorksOn(m, k, meta, "Set", time), NEW field \in Fields, field = a.field
  PROVE  Serves(a, m, k, meta, SIsMember(k, meta, field, FALSE))
<1>1. PICK d : d = SIsMember(k, meta, field, FALSE)
  OBVIOUS
<1>2. PICK sk : sk = SetInternalKey(k, meta.version, field)
  OBVIOUS
<1>4. PICK items : items = ItemsIn(m, k, meta)
  OBVIOUS
<1>5. Len(sk) = 4 /\ meta.type = "Set" /\ Describes(m, k, meta)
  BY <1>2, KeyParts DEF WorksOn
<1>6. sk \in DOMAIN m <=> sk \in DOMAIN store
  <2>1. Covers(m, store) /\ Len(sk) > 1
    BY <1>5 DEF WorksOn
  <2> QED
    BY <2>1, EntriesSame
<1>7. field \in items <=> sk \in DOMAIN m
  BY <1>2, <1>4, <1>5, SetItems
<1>8. PICK out : out = RT!ItemsOutcome(a, items)
  OBVIOUS
<1>9. out.next = items /\ out.reply = Flag(field \in items)
  BY <1>8, SIsMemberOutcome
<1>10. meta.size = 0 <=> items = {}
  BY <1>4, <1>5, SizeZero, ItemsEmpty
<1>11. PICK yes \in BOOLEAN : yes = (meta.size # 0 /\ Lookup(sk, FALSE) = "Ok")
  OBVIOUS
<1>12. d.write = NoWrite /\ d.reply = Flag(yes)
  BY <1>1, <1>2, <1>11 DEF SIsMember, Lookup, Say, Decision
<1>13. yes = (field \in items)
  BY <1>6, <1>7, <1>10, <1>11 DEF Lookup
<1>14. d.reply = out.reply
  BY <1>9, <1>12, <1>13
<1> QED
  BY <1>1, <1>4, <1>8, <1>9, <1>12, <1>14, RepliesDiffer DEF Serves, RT!Growing

(* It gives one up, if it has it.                                          *)
LEMMA SremServes ==
  ASSUME NEW a, a.op = "srem", NEW m, NEW k \in Keys, NEW time \in Nat, NEW meta,
         WorksOn(m, k, meta, "Set", time), NEW field \in Fields, field = a.field
  PROVE  Serves(a, m, k, meta, Srem(k, meta, field, FALSE))
<1>1. PICK d : d = Srem(k, meta, field, FALSE)
  OBVIOUS
<1>2. PICK sk : sk = SetInternalKey(k, meta.version, field)
  OBVIOUS
<1>3. PICK n : n = Applied(m, d.write)
  OBVIOUS
<1>4. PICK items : items = ItemsIn(m, k, meta)
  OBVIOUS
<1>5. /\ Len(sk) = 4 /\ sk # MetaKey(k) /\ meta \in MetadataType /\ meta.type = "Set"
      /\ Describes(m, k, meta)
  BY <1>2, KeyParts DEF WorksOn, SetInternalKey, MetaKey
<1>6. sk \in DOMAIN m <=> sk \in DOMAIN store
  <2>1. Covers(m, store) /\ Len(sk) > 1
    BY <1>5 DEF WorksOn
  <2> QED
    BY <2>1, EntriesSame
<1>7. field \in items <=> sk \in DOMAIN m
  BY <1>2, <1>4, <1>5, SetItems
<1>8. PICK out : out = RT!ItemsOutcome(a, items)
  OBVIOUS
<1>9. out.next = items \ {field} /\ out.reply = Flag(field \in items)
  BY <1>8, SremOutcome
<1>10. CASE sk \notin DOMAIN store
  <2>1. d.write = NoWrite /\ d.reply = Flag(FALSE)
    BY <1>1, <1>2, <1>10 DEF Srem, Lookup, Say, Decision
  <2>2. (field \in items) = FALSE /\ items \ {field} = items
    BY <1>6, <1>7, <1>10
  <2>3. out.reply = Flag(FALSE) /\ out.next = items
    BY <1>9, <2>2
  <2> QED
    BY <1>1, <1>4, <1>8, <2>1, <2>3, RepliesDiffer DEF Serves, RT!Growing
<1>11. CASE sk \in DOMAIN store
  <2>1. sk \in EntriesIn(m, k, meta) /\ meta.size \in Nat /\ meta.size # 0
    <3>1. sk \in EntriesIn(m, k, meta)
      BY <1>2, <1>5, <1>6, <1>11 DEF EntriesIn, EntryKeys
    <3> QED
      BY <1>5, <3>1, CountedPositive
  <2>2. PICK next : next = Resized(meta, -1)
    OBVIOUS
  <2>3. next.type = "Set" /\ next.version = meta.version
    <3>1. meta.size + (-1) \in Nat /\ -1 \in Int
      BY <2>1
    <3> QED
      BY <1>5, <2>2, <3>1, ResizedFacts
  <2>4. /\ d.write.puts = With(<<>>, MetaKey(k), next) /\ d.write.dels = {sk}
        /\ d.write.kind = "batch" /\ d.reply = Flag(TRUE)
    BY <1>1, <1>2, <1>11, <2>1, <2>2 DEF Srem, Lookup, Decision, Batch, Write
  <2>5. DOMAIN d.write.puts = {MetaKey(k)} /\ d.write.puts[MetaKey(k)] = next
    BY <2>4, EmptyDomain DEF With
  <2>6. DOMAIN n = {MetaKey(k)} \cup (DOMAIN m \ {sk}) /\ n[MetaKey(k)] = next
    BY <1>3, <2>4, <2>5 DEF Applied
  <2>7. \A f : /\ SetInternalKey(k, meta.version, f) # MetaKey(k)
               /\ f # field => SetInternalKey(k, meta.version, f) # sk
    BY <1>2, SetKeysDiffer
  <2>8. PICK new : new = ItemsIn(n, k, next)
    OBVIOUS
  <2>9. \A f : f \in new <=> f \in Fields /\ SetInternalKey(k, meta.version, f) \in DOMAIN n
    BY <2>3, <2>8, SetItems
  <2>10. \A f : f \in items <=> f \in Fields /\ SetInternalKey(k, meta.version, f) \in DOMAIN m
    BY <1>4, <1>5, SetItems
  <2>11. new = items \ {field}
    BY <1>2, <1>5, <2>6, <2>7, <2>9, <2>10
  <2>12. field \in items
    BY <1>6, <1>7, <1>11
  <2>13. out.next # items /\ (field \in items) = TRUE
    BY <1>9, <2>12
  <2>14. d.reply = out.reply /\ d.write # NoWrite
    BY <1>9, <2>4, <2>13, OtherKinds
  <2> QED
    BY <1>1, <1>3, <1>4, <1>5, <1>8, <1>9, <2>1, <2>3, <2>4, <2>6, <2>8, <2>11, <2>13, <2>14,
       RepliesDiffer
    DEF Serves
<1> QED
  BY <1>10, <1>11

-----------------------------------------------------------------------------
(* A list has an entry at every place from head up to tail, since its size *)
(* counts them.                                                            *)
LEMMA ListFull ==
  ASSUME NEW m, NEW k, NEW meta, Describes(m, k, meta), meta.type = "List",
         NEW i \in Int, meta.head <= i, i < meta.tail
  PROVE  /\ ListInternalKey(k, meta.version, i) \in DOMAIN m
         /\ ListInternalKey(k, meta.version, i) \in EntriesIn(m, k, meta)
<1>1. /\ meta.head \in Int /\ meta.tail \in Int /\ meta.size \in Nat
      /\ meta.size = meta.tail - meta.head
  BY ListBounds
<1>2. PICK I : I = meta.head..meta.tail - 1
  OBVIOUS
<1>3. PICK K : K = EntryKeys(k, meta)
  OBVIOUS
<1>4. K = {ListInternalKey(k, meta.version, j) : j \in I}
  BY <1>2, <1>3, ListKeys
<1>5. PICK g : g = [j \in I |-> ListInternalKey(k, meta.version, j)]
  OBVIOUS
<1>6. g \in Surjection(I, K)
  BY <1>4, <1>5 DEF Surjection
<1>7. IsFiniteSet(I) /\ Cardinality(I) = meta.size
  <2>1. meta.tail - 1 \in Int
    BY <1>1
  <2>2. /\ IsFiniteSet(I)
        /\ Cardinality(I) = IF meta.head > meta.tail - 1 THEN 0 ELSE (meta.tail - 1) - meta.head + 1
    BY <1>1, <1>2, <2>1, FS_Interval
  <2> QED
    BY <1>1, <2>2
<1>8. IsFiniteSet(K) /\ Cardinality(K) <= meta.size
  BY <1>6, <1>7, FS_Surjection
<1>9. PICK E : E = EntriesIn(m, k, meta)
  OBVIOUS
<1>10. E \in SUBSET K /\ Cardinality(E) = meta.size
  BY <1>3, <1>9 DEF EntriesIn, Describes, CountsEntries
<1>11. /\ Cardinality(E) <= Cardinality(K)
       /\ Cardinality(K) = Cardinality(E) => K = E
  BY <1>8, <1>10, FS_Subset
<1>12. Cardinality(K) \in Nat
  BY <1>8, FS_CardinalityType
<1>13. K = E
  BY <1>1, <1>8, <1>10, <1>11, <1>12
<1>14. i \in I
  BY <1>1, <1>2
<1>15. ListInternalKey(k, meta.version, i) \in E
  BY <1>4, <1>13, <1>14
<1> QED
  BY <1>9, <1>15 DEF EntriesIn

(* The items of a list.                                                    *)
LEMMA ListItems ==
  ASSUME NEW m, NEW k, NEW meta, Describes(m, k, meta), meta.type = "List",
         NEW items, items = ItemsIn(m, k, meta)
  PROVE  /\ items \in Seq(Range(items)) /\ Len(items) = meta.size /\ meta.size \in Nat
         /\ \A i \in 1..meta.size :
              items[i] = Entry(m, ListInternalKey(k, meta.version, meta.head + i - 1))
<1>1. /\ meta.head \in Int /\ meta.tail \in Int /\ meta.size \in Nat
      /\ meta.size = meta.tail - meta.head
  BY ListBounds
<1>2. items = [i \in 1..meta.size |->
                 Entry(m, ListInternalKey(k, meta.version, meta.head + i - 1))]
  BY <1>1 DEF ItemsIn
<1>3. PICK S : S = {items[i] : i \in 1..meta.size}
  OBVIOUS
<1>4. items \in [1..meta.size -> S]
  BY <1>2, <1>3
<1>5. items \in Seq(S)
  BY <1>1, <1>4, SeqDef
<1>6. Len(items) = meta.size
  BY <1>1, <1>4, <1>5, LenProperties
<1>7. items \in Seq(Range(items))
  BY <1>5, SeqOfRange
<1> QED
  BY <1>1, <1>2, <1>6, <1>7

LEMMA ListKeysDiffer ==
  ASSUME NEW k, NEW v, NEW i
  PROVE  /\ ListInternalKey(k, v, i) # MetaKey(k)
         /\ \A j : j # i => ListInternalKey(k, v, j) # ListInternalKey(k, v, i)
BY DEF ListInternalKey, MetaKey

(* An element put before the first or behind the last.                     *)
LEMMA Prepended ==
  ASSUME NEW s, s \in Seq(Range(s)), NEW t, t \in Seq(Range(t)), NEW v,
         Len(t) = Len(s) + 1, t[1] = v, \A i \in 1..Len(s) : t[i + 1] = s[i]
  PROVE  t = <<v>> \o s /\ t # s
<1>1. PICK S : S = Range(s) \cup Range(t) \cup {v}
  OBVIOUS
<1>2. s \in Seq(S) /\ t \in Seq(S) /\ <<v>> \in Seq(S) /\ Len(<<v>>) = 1 /\ <<v>>[1] = v
  BY <1>1
<1>3. Len(s) \in Nat
  BY <1>2
<1>4. PICK u : u = <<v>> \o s
  OBVIOUS
<1>5. /\ u \in Seq(S) /\ Len(u) = 1 + Len(s)
      /\ \A i \in 1..1 + Len(s) : u[i] = IF i <= 1 THEN <<v>>[i] ELSE s[i - 1]
  BY <1>2, <1>4, ConcatProperties
<1>6. ASSUME NEW i \in 1..Len(t)
      PROVE  t[i] = u[i]
  <2>1. CASE i = 1
    BY <1>2, <1>3, <1>5, <2>1
  <2>2. CASE i # 1
    <3>1. i - 1 \in 1..Len(s) /\ (i - 1) + 1 = i
      BY <1>3, <2>2
    <3>2. t[i] = s[i - 1]
      BY <3>1
    <3> QED
      BY <1>3, <1>5, <2>2, <3>2
  <2> QED
    BY <2>1, <2>2
<1>7. t = u
  BY <1>2, <1>3, <1>5, <1>6, SeqEqual
<1> QED
  BY <1>3, <1>4, <1>7

LEMMA Appended ==
  ASSUME NEW s, s \in Seq(Range(s)), NEW t, t \in Seq(Range(t)), NEW v,
         Len(t) = Len(s) + 1, t[Len(s) + 1] = v, \A i \in 1..Len(s) : t[i] = s[i]
  PROVE  t = Append(s, v) /\ t # s
<1>1. PICK S : S = Range(s) \cup Range(t) \cup {v}
  OBVIOUS
<1>2. s \in Seq(S) /\ t \in Seq(S) /\ v \in S
  BY <1>1
<1>3. Len(s) \in Nat
  BY <1>2
<1>4. PICK u : u = Append(s, v)
  OBVIOUS
<1>5. /\ u \in Seq(S) /\ Len(u) = Len(s) + 1 /\ u[Len(s) + 1] = v
      /\ \A i \in 1..Len(s) : u[i] = s[i]
  BY <1>2, <1>4, AppendProperties
<1>6. \A i \in 1..Len(t) : t[i] = u[i]
  BY <1>3, <1>5
<1>7. t = u
  BY <1>2, <1>3, <1>5, <1>6, SeqEqual
<1> QED
  BY <1>3, <1>4, <1>7

(* The first or the last taken off.                                        *)
LEMMA Beheaded ==
  ASSUME NEW s, s \in Seq(Range(s)), s # <<>>, NEW t, t \in Seq(Range(t)),
         Len(t) = Len(s) - 1, \A i \in 1..Len(t) : t[i] = s[i + 1]
  PROVE  t = Tail(s) /\ t # s
<1>1. PICK S : S = Range(s) \cup Range(t)
  OBVIOUS
<1>2. s \in Seq(S) /\ t \in Seq(S)
  BY <1>1
<1>3. Len(s) \in Nat
  BY <1>2
<1>4. /\ Tail(s) \in Seq(S) /\ Len(Tail(s)) = Len(s) - 1
      /\ \A i \in 1..Len(Tail(s)) : Tail(s)[i] = s[i + 1]
  BY <1>2, HeadTailProperties
<1>5. \A i \in 1..Len(t) : t[i] = Tail(s)[i]
  BY <1>4
<1>6. t = Tail(s)
  BY <1>2, <1>4, <1>5, SeqEqual
<1>7. t # s
  BY <1>3
<1> QED
  BY <1>6, <1>7, Zenon

LEMMA Curtailed ==
  ASSUME NEW s, s \in Seq(Range(s)), s # <<>>, NEW t, t \in Seq(Range(t)),
         Len(t) = Len(s) - 1, \A i \in 1..Len(t) : t[i] = s[i]
  PROVE  t = SubSeq(s, 1, Len(s) - 1) /\ t # s
<1>1. PICK S : S = Range(s) \cup Range(t)
  OBVIOUS
<1>2. s \in Seq(S) /\ t \in Seq(S)
  BY <1>1
<1>3. Len(s) \in Nat /\ Len(s) # 0
  BY <1>2, EmptySeq
<1>4. PICK u : u = SubSeq(s, 1, Len(s) - 1)
  OBVIOUS
<1>5. /\ u \in Seq(S) /\ Len(u) = Len(s) - 1
      /\ \A i \in 1..Len(s) - 1 : u[i] = s[i]
  BY <1>2, <1>3, <1>4
<1>6. \A i \in 1..Len(t) : t[i] = u[i]
  BY <1>5
<1>7. t = u
  BY <1>2, <1>5, <1>6, SeqEqual
<1> QED
  BY <1>3, <1>4, <1>7

(* A list takes an element at either end.                                  *)
LEMMA PushServes ==
  ASSUME NEW a, NEW isLeft \in BOOLEAN, a.op = IF isLeft THEN "lpush" ELSE "rpush",
         NEW m, NEW k \in Keys, NEW time \in Nat, NEW meta,
         WorksOn(m, k, meta, "List", time)
  PROVE  Serves(a, m, k, meta, PushInner(k, meta, a.val, isLeft))
<1>1. PICK d : d = PushInner(k, meta, a.val, isLeft)
  OBVIOUS
<1>2. PICK i : i = IF isLeft THEN meta.head - 1 ELSE meta.tail
  OBVIOUS
<1>3. PICK lk : lk = ListInternalKey(k, meta.version, i)
  OBVIOUS
<1>4. PICK n : n = Applied(m, d.write)
  OBVIOUS
<1>5. PICK items : items = ItemsIn(m, k, meta)
  OBVIOUS
<1>6. lk # MetaKey(k) /\ meta \in MetadataType /\ meta.type = "List" /\ Describes(m, k, meta)
  BY <1>3, ListKeysDiffer DEF WorksOn
<1>7. /\ meta.head \in Int /\ meta.tail \in Int /\ meta.size \in Nat
      /\ meta.size = meta.tail - meta.head /\ meta.head <= meta.tail
  BY <1>6, ListBounds
<1>8. PICK next : next = [Resized(meta, 1) EXCEPT !.head = IF isLeft THEN @ - 1 ELSE @,
                                                  !.tail = IF isLeft THEN @ ELSE @ + 1]
  OBVIOUS
<1>9. /\ next.type = "List" /\ next.version = meta.version /\ next.size = meta.size + 1
      /\ next.head = IF isLeft THEN meta.head - 1 ELSE meta.head
  <2>1. PICK r : r = Resized(meta, 1)
    OBVIOUS
  <2>2. meta.size + 1 \in Nat
    BY <1>7
  <2>3. /\ r \in MetadataType /\ r.type = "List" /\ r.version = meta.version
        /\ r.size = meta.size + 1 /\ r.head = meta.head /\ r.tail = meta.tail
    BY <1>6, <2>1, <2>2, ResizedFacts
  <2>4. PICK h, t : /\ h = IF isLeft THEN meta.head - 1 ELSE meta.head
                    /\ t = IF isLeft THEN meta.tail ELSE meta.tail + 1
    OBVIOUS
  <2>5. next = [r EXCEPT !.head = h, !.tail = t]
    BY <1>8, <2>1, <2>3, <2>4
  <2>6. /\ next.type = r.type /\ next.version = r.version /\ next.size = r.size /\ next.head = h
    BY <2>3, <2>5 DEF MetadataType
  <2> QED
    BY <2>3, <2>4, <2>6
<1>10. /\ d.write.puts = With(With(<<>>, MetaKey(k), next), lk, a.val) /\ d.write.dels = {}
       /\ d.write.kind = "batch" /\ d.reply = Size(next.size)
  BY <1>1, <1>2, <1>3, <1>8 DEF PushInner, Decision, Batch, Write
<1>11. /\ DOMAIN d.write.puts = {MetaKey(k), lk}
       /\ d.write.puts[MetaKey(k)] = next /\ d.write.puts[lk] = a.val
  BY <1>6, <1>10, EmptyDomain DEF With
<1>12. /\ DOMAIN n = {MetaKey(k), lk} \cup DOMAIN m /\ n[MetaKey(k)] = next /\ n[lk] = a.val
       /\ \A x \in DOMAIN m : x # lk /\ x # MetaKey(k) => n[x] = m[x]
  BY <1>4, <1>10, <1>11 DEF Applied
<1>13. Describes(n, k, next)
  <2>1. KeepsOrder(m, d.write, k, time)
    BY <1>1, PushKeepsOrder
  <2>2. HasMeta(n, k)
    BY <1>9, <1>12 DEF HasMeta
  <2> QED
    BY <1>4, <1>12, <2>1, <2>2 DEF KeepsOrder
<1>14. PICK new : new = ItemsIn(n, k, next)
  OBVIOUS
<1>15. /\ items \in Seq(Range(items)) /\ Len(items) = meta.size
       /\ \A j \in 1..meta.size :
            items[j] = Entry(m, ListInternalKey(k, meta.version, meta.head + j - 1))
  BY <1>5, <1>6, ListItems
<1>16. /\ new \in Seq(Range(new)) /\ Len(new) = meta.size + 1
       /\ \A j \in 1..meta.size + 1 :
            new[j] = Entry(n, ListInternalKey(k, meta.version, next.head + j - 1))
  <2>1. /\ new \in Seq(Range(new)) /\ Len(new) = next.size
        /\ \A j \in 1..next.size :
             new[j] = Entry(n, ListInternalKey(k, next.version, next.head + j - 1))
    BY <1>9, <1>13, <1>14, ListItems
  <2> QED
    BY <1>9, <2>1
<1>17. \A j : j # i => Entry(n, ListInternalKey(k, meta.version, j))
                         = Entry(m, ListInternalKey(k, meta.version, j))
  <2>1. \A j : /\ ListInternalKey(k, meta.version, j) # MetaKey(k)
               /\ j # i => ListInternalKey(k, meta.version, j) # lk
    BY <1>3, ListKeysDiffer
  <2> QED
    BY <1>12, <2>1 DEF Entry
<1>18. Entry(n, ListInternalKey(k, meta.version, i)) = a.val
  BY <1>3, <1>12 DEF Entry
<1>19. PICK out : out = RT!ItemsOutcome(a, items)
  OBVIOUS
<1>20. d.reply = out.reply /\ new = out.next /\ new # items
  <2>1. CASE isLeft
    <3>1. out.next = <<a.val>> \o items /\ out.reply = Size(Len(items) + 1)
      BY <1>19, <2>1, LpushOutcome
    <3>2. next.head = meta.head - 1 /\ i = meta.head - 1 /\ next.head + 1 - 1 = i
      BY <1>2, <1>7, <1>9, <2>1
    <3>3. new[1] = a.val
      BY <1>7, <1>16, <1>18, <3>2
    <3>4. ASSUME NEW j \in 1..Len(items)
          PROVE  new[j + 1] = items[j]
      <4>0. j \in 1..meta.size
        BY <1>15
      <4>1. /\ next.head + (j + 1) - 1 = meta.head + j - 1 /\ meta.head + j - 1 # i
            /\ j + 1 \in 1..meta.size + 1 /\ j \in 1..meta.size
        <5>1. PICK h \in Int, size \in Nat : h = meta.head /\ size = meta.size
          BY <1>7
        <5>2. j \in Int /\ 1 <= j /\ j <= size
          BY <4>0, <5>1
        <5>3. next.head = h - 1 /\ i = h - 1
          BY <3>2, <5>1
        <5>4. (h - 1) + (j + 1) - 1 = h + j - 1 /\ h + j - 1 # h - 1
          BY <5>1, <5>2
        <5>5. j + 1 \in 1..size + 1
          BY <5>1, <5>2
        <5> QED
          BY <4>0, <5>1, <5>3, <5>4, <5>5
      <4>2. new[j + 1] = Entry(n, ListInternalKey(k, meta.version, meta.head + j - 1))
        BY <1>16, <4>1
      <4>3. items[j] = Entry(m, ListInternalKey(k, meta.version, meta.head + j - 1))
        BY <1>15, <4>1
      <4> QED
        BY <1>17, <4>1, <4>2, <4>3
    <3>5. new = <<a.val>> \o items /\ new # items
      BY <1>15, <1>16, <3>3, <3>4, Prepended
    <3> QED
      BY <1>9, <1>10, <1>15, <3>1, <3>5
  <2>2. CASE ~isLeft
    <3>1. out.next = Append(items, a.val) /\ out.reply = Size(Len(items) + 1)
      BY <1>19, <2>2, RpushOutcome
    <3>2. next.head = meta.head /\ i = meta.tail /\ next.head + (meta.size + 1) - 1 = i
      BY <1>2, <1>7, <1>9, <2>2
    <3>3. new[Len(items) + 1] = a.val
      <4>1. meta.size + 1 \in 1..meta.size + 1
        BY <1>7
      <4>2. new[meta.size + 1] = Entry(n, ListInternalKey(k, meta.version, i))
        BY <1>16, <3>2, <4>1
      <4> QED
        BY <1>15, <1>18, <4>2
    <3>4. ASSUME NEW j \in 1..Len(items)
          PROVE  new[j] = items[j]
      <4>0. j \in 1..meta.size
        BY <1>15
      <4>1. meta.head + j - 1 # i /\ j \in 1..meta.size + 1 /\ j \in 1..meta.size
        <5>1. PICK h \in Int, size \in Nat : h = meta.head /\ size = meta.size
          BY <1>7
        <5>2. j \in Int /\ 1 <= j /\ j <= size
          BY <4>0, <5>1
        <5>3. i = h + size
          BY <1>7, <3>2, <5>1
        <5>4. h + j - 1 < h + size
          BY <5>1, <5>2
        <5>5. j \in 1..size + 1
          BY <5>1, <5>2
        <5> QED
          BY <4>0, <5>1, <5>2, <5>3, <5>4, <5>5
      <4>2. new[j] = Entry(n, ListInternalKey(k, meta.version, meta.head + j - 1))
        BY <1>16, <3>2, <4>1
      <4>3. items[j] = Entry(m, ListInternalKey(k, meta.version, meta.head + j - 1))
        BY <1>15, <4>1
      <4> QED
        BY <1>17, <4>1, <4>2, <4>3
    <3>5. new = Append(items, a.val) /\ new # items
      BY <1>15, <1>16, <3>3, <3>4, Appended
    <3> QED
      BY <1>9, <1>10, <1>15, <3>1, <3>5
  <2> QED
    BY <2>1, <2>2
<1>21. d.reply # NoReply /\ d.reply # Status("WrongType") /\ d.write # NoWrite
  BY <1>10, RepliesDiffer, OtherKinds
<1>22. /\ MetaKey(k) \in DOMAIN n /\ n[MetaKey(k)].type = meta.type
       /\ ItemsIn(n, k, n[MetaKey(k)]) = out.next /\ out.next # items
  BY <1>6, <1>9, <1>12, <1>14, <1>20
<1>23. a.op \in RT!Growing /\ a.op \notin {"lpop", "rpop"}
  BY DEF RT!Growing
<1> QED
  BY <1>1, <1>4, <1>5, <1>10, <1>19, <1>20, <1>21, <1>22, <1>23 DEF Serves

(* It gives one up, if it has any; that element stays behind.              *)
LEMMA PopServes ==
  ASSUME NEW a, NEW isLeft \in BOOLEAN, a.op = IF isLeft THEN "lpop" ELSE "rpop",
         NEW m, NEW k \in Keys, NEW time \in Nat, NEW meta,
         WorksOn(m, k, meta, "List", time)
  PROVE  Serves(a, m, k, meta, PopInner(k, meta, isLeft, FALSE))
<1>1. PICK d : d = PopInner(k, meta, isLeft, FALSE)
  OBVIOUS
<1>2. PICK i : i = IF isLeft THEN meta.head ELSE meta.tail - 1
  OBVIOUS
<1>3. PICK lk : lk = ListInternalKey(k, meta.version, i)
  OBVIOUS
<1>4. PICK n : n = Applied(m, d.write)
  OBVIOUS
<1>5. PICK items : items = ItemsIn(m, k, meta)
  OBVIOUS
<1>6. meta \in MetadataType /\ meta.type = "List" /\ Describes(m, k, meta) /\ Len(lk) > 1
  BY <1>3, KeyParts DEF WorksOn
<1>7. /\ meta.head \in Int /\ meta.tail \in Int /\ meta.size \in Nat
      /\ meta.size = meta.tail - meta.head /\ meta.head <= meta.tail
  BY <1>6, ListBounds
<1>8. PICK out : out = RT!ItemsOutcome(a, items)
  OBVIOUS
<1>9. /\ items \in Seq(Range(items)) /\ Len(items) = meta.size
      /\ \A j \in 1..meta.size :
           items[j] = Entry(m, ListInternalKey(k, meta.version, meta.head + j - 1))
  BY <1>5, <1>6, ListItems
<1>10. meta.size = 0 <=> items = <<>>
  BY <1>5, <1>6, SizeZero, ItemsEmpty
<1>11. CASE meta.size = 0
  <2>1. d.write = NoWrite /\ d.reply = Status("None")
    BY <1>1, <1>11 DEF PopInner, Say, Decision
  <2>2. out.next = items /\ out.reply = Status("None")
    BY <1>8, <1>10, <1>11, NoPopOutcome
  <2> QED
    BY <1>1, <1>5, <1>8, <2>1, <2>2, RepliesDiffer DEF Serves, RT!Growing
<1>12. CASE meta.size # 0
  <2>1. /\ i \in Int /\ meta.head <= i /\ i < meta.tail
    BY <1>2, <1>7, <1>12
  <2>2. lk \in DOMAIN m /\ lk \in EntriesIn(m, k, meta)
    BY <1>3, <1>6, <2>1, ListFull
  <2>3. lk \in DOMAIN store /\ m[lk] = store[lk]
    <3>1. Covers(m, store)
      BY DEF WorksOn
    <3> QED
      BY <1>6, <2>2, <3>1, EntriesSame
  <2>4. PICK next : next = [Resized(meta, -1) EXCEPT !.head = IF isLeft THEN @ + 1 ELSE @,
                                                     !.tail = IF isLeft THEN @ ELSE @ - 1]
    OBVIOUS
  <2>5. /\ next.type = "List" /\ next.version = meta.version /\ next.size = meta.size - 1
        /\ next.head = IF isLeft THEN meta.head + 1 ELSE meta.head
    <3>1. PICK r : r = Resized(meta, -1)
      OBVIOUS
    <3>2. meta.size + (-1) \in Nat /\ meta.size + (-1) = meta.size - 1 /\ -1 \in Int
      BY <1>7, <1>12
    <3>3. /\ r \in MetadataType /\ r.type = "List" /\ r.version = meta.version
          /\ r.size = meta.size - 1 /\ r.head = meta.head /\ r.tail = meta.tail
      BY <1>6, <3>1, <3>2, ResizedFacts
    <3>4. PICK h, t : /\ h = IF isLeft THEN meta.head + 1 ELSE meta.head
                      /\ t = IF isLeft THEN meta.tail ELSE meta.tail - 1
      OBVIOUS
    <3>5. next = [r EXCEPT !.head = h, !.tail = t]
      BY <2>4, <3>1, <3>3, <3>4
    <3>6. next.type = r.type /\ next.version = r.version /\ next.size = r.size /\ next.head = h
      BY <3>3, <3>5 DEF MetadataType
    <3> QED
      BY <3>3, <3>4, <3>6
  <2>6. /\ d.write.puts = With(<<>>, MetaKey(k), next) /\ d.write.dels = {}
        /\ d.write.kind = "put" /\ d.reply = Value(store[lk])
    BY <1>1, <1>2, <1>3, <1>12, <2>3, <2>4 DEF PopInner, Lookup, Decision, Put, Write
  <2>7. DOMAIN d.write.puts = {MetaKey(k)} /\ d.write.puts[MetaKey(k)] = next
    BY <2>6, EmptyDomain DEF With
  <2>8. /\ DOMAIN n = {MetaKey(k)} \cup DOMAIN m /\ n[MetaKey(k)] = next
        /\ \A x \in DOMAIN m : x # MetaKey(k) => n[x] = m[x]
    BY <1>4, <2>6, <2>7 DEF Applied
  <2>9. d.write # NoWrite
    BY <2>6, OtherKinds
  <2>10. Describes(n, k, next)
    <3>1. KeepsOrder(m, d.write, k, time)
      BY <1>1, <2>9, PopKeepsOrder
    <3>2. HasMeta(n, k)
      BY <2>5, <2>8 DEF HasMeta
    <3> QED
      BY <1>4, <2>8, <3>1, <3>2 DEF KeepsOrder
  <2>11. PICK new : new = ItemsIn(n, k, next)
    OBVIOUS
  <2>12. /\ new \in Seq(Range(new)) /\ Len(new) = meta.size - 1
         /\ \A j \in 1..meta.size - 1 :
              new[j] = Entry(n, ListInternalKey(k, meta.version, next.head + j - 1))
    <3>1. /\ new \in Seq(Range(new)) /\ Len(new) = next.size
          /\ \A j \in 1..next.size :
               new[j] = Entry(n, ListInternalKey(k, next.version, next.head + j - 1))
      BY <2>5, <2>10, <2>11, ListItems
    <3> QED
      BY <2>5, <3>1
  <2>13. \A j : Entry(n, ListInternalKey(k, meta.version, j))
                  = Entry(m, ListInternalKey(k, meta.version, j))
    <3>1. \A j : ListInternalKey(k, meta.version, j) # MetaKey(k)
      BY ListKeysDiffer
    <3> QED
      BY <2>8, <3>1 DEF Entry
  <2>14. Entry(m, ListInternalKey(k, meta.version, i)) = store[lk]
    BY <1>3, <2>2, <2>3 DEF Entry
  <2>15. items # <<>>
    BY <1>10, <1>12
  <2>16. d.reply = out.reply /\ new = out.next /\ new # items
    <3>1. CASE isLeft
      <4>1. out.next = Tail(items) /\ out.reply = Value(Head(items))
        BY <1>8, <2>15, <3>1, LpopOutcome
      <4>2. Head(items) = store[lk]
        <5>1. meta.head + 1 - 1 = i /\ 1 \in 1..meta.size
          BY <1>2, <1>7, <1>12, <3>1
        <5>2. items[1] = store[lk]
          BY <1>9, <2>14, <5>1
        <5> QED
          BY <1>9, <2>15, <5>2
      <4>3. ASSUME NEW j \in 1..Len(new)
            PROVE  new[j] = items[j + 1]
        <5>1. /\ next.head + j - 1 = meta.head + (j + 1) - 1
              /\ j + 1 \in 1..meta.size /\ j \in 1..meta.size - 1
          BY <1>7, <2>5, <2>12, <3>1
        <5>2. new[j] = Entry(n, ListInternalKey(k, meta.version, meta.head + (j + 1) - 1))
          BY <2>12, <5>1
        <5>3. items[j + 1] = Entry(m, ListInternalKey(k, meta.version, meta.head + (j + 1) - 1))
          BY <1>9, <5>1
        <5> QED
          BY <2>13, <5>2, <5>3
      <4>4. new = Tail(items) /\ new # items
        BY <1>9, <2>12, <2>15, <4>3, Beheaded
      <4> QED
        BY <2>6, <4>1, <4>2, <4>4
    <3>2. CASE ~isLeft
      <4>1. out.next = SubSeq(items, 1, Len(items) - 1) /\ out.reply = Value(items[Len(items)])
        BY <1>8, <2>15, <3>2, RpopOutcome
      <4>2. items[Len(items)] = store[lk]
        <5>1. meta.head + meta.size - 1 = i /\ meta.size \in 1..meta.size
          BY <1>2, <1>7, <1>12, <3>2
        <5> QED
          BY <1>9, <2>14, <5>1
      <4>3. ASSUME NEW j \in 1..Len(new)
            PROVE  new[j] = items[j]
        <5>1. j \in 1..meta.size /\ j \in 1..meta.size - 1 /\ next.head = meta.head
          BY <1>7, <2>5, <2>12, <3>2
        <5>2. new[j] = Entry(n, ListInternalKey(k, meta.version, meta.head + j - 1))
          BY <2>12, <5>1
        <5>3. items[j] = Entry(m, ListInternalKey(k, meta.version, meta.head + j - 1))
          BY <1>9, <5>1
        <5> QED
          BY <2>13, <5>2, <5>3
      <4>4. new = SubSeq(items, 1, Len(items) - 1) /\ new # items
        BY <1>9, <2>12, <2>15, <4>3, Curtailed
      <4> QED
        BY <2>6, <4>1, <4>2, <4>4
    <3> QED
      BY <3>1, <3>2
  <2>17. d.reply # NoReply /\ d.reply # Status("WrongType")
    BY <2>6, RepliesDiffer
  <2>18. /\ MetaKey(k) \in DOMAIN n /\ n[MetaKey(k)].type = meta.type
         /\ ItemsIn(n, k, n[MetaKey(k)]) = out.next /\ out.next # items
         /\ EntriesIn(m, k, meta) # {}
    BY <1>6, <2>2, <2>5, <2>8, <2>11, <2>16
  <2>19. a.op \in {"lpop", "rpop"}
    OBVIOUS
  <2> QED
    BY <1>1, <1>4, <1>5, <1>8, <2>6, <2>9, <2>16, <2>17, <2>18, <2>19 DEF Serves
<1> QED
  BY <1>11, <1>12

-----------------------------------------------------------------------------
(* The items of a sorted set.                                               *)
LEMMA ZSetItems ==
  ASSUME NEW m, NEW k, NEW meta, meta.type = "ZSet", NEW v, v = meta.version,
         NEW items, items = ItemsIn(m, k, meta)
  PROVE  /\ \A f : f \in DOMAIN items <=> f \in Fields /\ ZSetMemberKey(k, v, f) \in DOMAIN m
         /\ \A f \in DOMAIN items : items[f] = m[ZSetMemberKey(k, v, f)]
BY DEF ItemsIn

LEMMA ZSetFunction ==
  ASSUME NEW m, NEW k, NEW meta, meta.type = "ZSet", NEW items, items = ItemsIn(m, k, meta)
  PROVE  items = [f \in DOMAIN items |-> items[f]]
BY DEF ItemsIn

(* One of them is set, the others stay.                                    *)
LEMMA ZSetTakes ==
  ASSUME NEW m, NEW n, NEW k, NEW meta, NEW next, meta.type = "ZSet", next.type = "ZSet",
         next.version = meta.version, NEW field \in Fields, NEW x, NEW val,
         x = ZSetMemberKey(k, meta.version, field), x \in DOMAIN n, n[x] = val,
         \A f \in Fields : f # field =>
           /\ ZSetMemberKey(k, meta.version, f) \in DOMAIN n
                <=> ZSetMemberKey(k, meta.version, f) \in DOMAIN m
           /\ ZSetMemberKey(k, meta.version, f) \in DOMAIN m =>
                n[ZSetMemberKey(k, meta.version, f)] = m[ZSetMemberKey(k, meta.version, f)]
  PROVE  ItemsIn(n, k, next) = With(ItemsIn(m, k, meta), field, val)
<1>1. PICK items : items = ItemsIn(m, k, meta)
  OBVIOUS
<1>2. PICK new : new = ItemsIn(n, k, next)
  OBVIOUS
<1>3. /\ \A f : f \in DOMAIN items <=> f \in Fields /\ ZSetMemberKey(k, meta.version, f) \in DOMAIN m
      /\ \A f \in DOMAIN items : items[f] = m[ZSetMemberKey(k, meta.version, f)]
  BY <1>1, ZSetItems
<1>4. /\ \A f : f \in DOMAIN new <=> f \in Fields /\ ZSetMemberKey(k, meta.version, f) \in DOMAIN n
      /\ \A f \in DOMAIN new : new[f] = n[ZSetMemberKey(k, meta.version, f)]
  BY <1>2, ZSetItems
<1>5. new = [f \in DOMAIN new |-> new[f]]
  BY <1>2, ZSetFunction
<1>6. DOMAIN new = DOMAIN items \cup {field}
  BY <1>3, <1>4
<1>7. \A f \in DOMAIN new : new[f] = IF f = field THEN val ELSE items[f]
  BY <1>3, <1>4, <1>6
<1> QED
  BY <1>1, <1>2, <1>5, <1>6, <1>7 DEF With

(* A sorted set takes a member, or a member another score.                 *)
LEMMA ZaddServes ==
  ASSUME NEW a, a.op = "zadd", NEW m, NEW k \in Keys, NEW time \in Nat, NEW meta,
         WorksOn(m, k, meta, "ZSet", time), NEW field \in Fields, field = a.field,
         NEW score, score = a.score
  PROVE  Serves(a, m, k, meta, Zadd(k, meta, field, score, FALSE))
<1>1. PICK d : d = Zadd(k, meta, field, score, FALSE)
  OBVIOUS
<1>2. PICK zk : zk = ZSetMemberKey(k, meta.version, field)
  OBVIOUS
<1>3. PICK zs : zs = ZSetScoreKey(k, meta.version, score, field)
  OBVIOUS
<1>4. PICK n : n = Applied(m, d.write)
  OBVIOUS
<1>5. PICK items : items = ItemsIn(m, k, meta)
  OBVIOUS
<1>6. /\ Len(zk) = 3 /\ zk # MetaKey(k) /\ zs # MetaKey(k) /\ zs # zk
      /\ meta \in MetadataType /\ meta.type = "ZSet" /\ Describes(m, k, meta)
  BY <1>2, <1>3, KeyParts DEF WorksOn, ZSetMemberKey, ZSetScoreKey, MetaKey
<1>7. (zk \in DOMAIN m <=> zk \in DOMAIN store) /\ (zk \in DOMAIN store => m[zk] = store[zk])
  <2>1. Covers(m, store) /\ Len(zk) > 1
    BY <1>6 DEF WorksOn
  <2> QED
    BY <2>1, EntriesSame
<1>8. (field \in DOMAIN items <=> zk \in DOMAIN m) /\ (field \in DOMAIN items => items[field] = m[zk])
  BY <1>2, <1>5, <1>6, ZSetItems
<1>9. PICK out : out = RT!ItemsOutcome(a, items)
  OBVIOUS
<1>10. out.next = With(items, field, score) /\ out.reply = Flag(field \notin DOMAIN items)
  BY <1>9, ZaddOutcome
<1>11. \A f : f # field => ZSetMemberKey(k, meta.version, f) # zk
  BY <1>2 DEF ZSetMemberKey
<1>12. \A f, s, g : /\ ZSetMemberKey(k, meta.version, f) # ZSetScoreKey(k, meta.version, s, g)
                    /\ ZSetMemberKey(k, meta.version, f) # MetaKey(k)
  BY DEF ZSetMemberKey, ZSetScoreKey, MetaKey
<1>13. items = [f \in DOMAIN items |-> items[f]]
  BY <1>5, <1>6, ZSetFunction
<1>14. CASE zk \notin DOMAIN store
  <2>1. PICK next : next = Resized(meta, 1)
    OBVIOUS
  <2>2. next.type = "ZSet" /\ next.version = meta.version
    <3>1. meta.size + 1 \in Nat
      BY <1>6 DEF MetadataType
    <3> QED
      BY <1>6, <2>1, <3>1, ResizedFacts
  <2>3. /\ d.write.puts = With(With(With(<<>>, zk, score), zs, EmptyVal), MetaKey(k), next)
        /\ d.write.dels = {} /\ d.write.kind = "batch" /\ d.reply = Flag(TRUE)
    BY <1>1, <1>2, <1>3, <1>14, <2>1 DEF Zadd, Lookup, Decision, Batch, Write
  <2>4. /\ DOMAIN d.write.puts = {zk, zs, MetaKey(k)}
        /\ d.write.puts[MetaKey(k)] = next /\ d.write.puts[zk] = score
    BY <1>6, <2>3, EmptyDomain DEF With
  <2>5. /\ DOMAIN n = {zk, zs, MetaKey(k)} \cup DOMAIN m
        /\ n[MetaKey(k)] = next /\ n[zk] = score
        /\ \A x \in DOMAIN m : x \notin {zk, zs, MetaKey(k)} => n[x] = m[x]
    BY <1>4, <2>3, <2>4 DEF Applied
  <2>6. \A f \in Fields : f # field =>
           /\ ZSetMemberKey(k, meta.version, f) \in DOMAIN n
                <=> ZSetMemberKey(k, meta.version, f) \in DOMAIN m
           /\ ZSetMemberKey(k, meta.version, f) \in DOMAIN m =>
                n[ZSetMemberKey(k, meta.version, f)] = m[ZSetMemberKey(k, meta.version, f)]
    BY <1>3, <1>11, <1>12, <2>5
  <2>7. ItemsIn(n, k, next) = out.next
    BY <1>2, <1>5, <1>6, <1>10, <2>2, <2>5, <2>6, ZSetTakes
  <2>8. field \notin DOMAIN items
    BY <1>7, <1>8, <1>14
  <2>9. out.next # items
    <3>1. field \in DOMAIN out.next
      BY <1>10 DEF With
    <3> QED
      BY <2>8, <3>1
  <2>10. (field \notin DOMAIN items) = TRUE
    BY <2>8
  <2>11. /\ d.reply = out.reply /\ d.reply # NoReply /\ d.reply # Status("WrongType")
         /\ d.write # NoWrite
    BY <1>10, <2>3, <2>10, RepliesDiffer, OtherKinds
  <2>12. /\ MetaKey(k) \in DOMAIN n /\ n[MetaKey(k)].type = meta.type
         /\ ItemsIn(n, k, n[MetaKey(k)]) = out.next
    BY <1>6, <2>2, <2>5, <2>7
  <2>13. a.op \in RT!Growing /\ a.op \notin {"lpop", "rpop"}
    BY DEF RT!Growing
  <2> QED
    BY <1>1, <1>4, <1>5, <1>9, <2>3, <2>9, <2>11, <2>12, <2>13 DEF Serves
<1>15. CASE zk \in DOMAIN store
  <2>1. field \in DOMAIN items /\ items[field] = store[zk]
    BY <1>7, <1>8, <1>15
  <2>2. zk \in EntriesIn(m, k, meta)
    BY <1>2, <1>6, <1>7, <1>15 DEF EntriesIn, EntryKeys
  <2>3. (field \notin DOMAIN items) = FALSE
    BY <2>1
  <2>4. a.op \in RT!Growing /\ a.op \notin {"lpop", "rpop"}
    BY DEF RT!Growing
  <2>5. CASE store[zk] = score
    <3>1. d.write = NoWrite /\ d.reply = Flag(FALSE)
      BY <1>1, <1>2, <1>15, <2>5 DEF Zadd, Lookup, Say, Decision
    <3>2. DOMAIN items \cup {field} = DOMAIN items
      BY <2>1
    <3>3. \A f \in DOMAIN items : (IF f = field THEN score ELSE items[f]) = items[f]
      BY <2>1, <2>5
    <3>4. With(items, field, score) = items
      BY <1>13, <3>2, <3>3 DEF With
    <3>5. out.next = items /\ out.reply = Flag(FALSE)
      BY <1>10, <2>3, <3>4
    <3> QED
      BY <1>1, <1>5, <1>9, <2>2, <3>1, <3>5, RepliesDiffer DEF Serves
  <2>6. CASE store[zk] # score
    <3>1. PICK old : old = ZSetScoreKey(k, meta.version, store[zk], field)
      OBVIOUS
    <3>2. /\ d.write.puts = With(With(<<>>, zk, score), zs, EmptyVal) /\ d.write.dels = {old}
          /\ d.write.kind = "batch" /\ d.reply = Flag(FALSE)
      BY <1>1, <1>2, <1>3, <1>15, <2>6, <3>1 DEF Zadd, Lookup, Decision, Batch, Write
    <3>3. DOMAIN d.write.puts = {zk, zs} /\ d.write.puts[zk] = score
      BY <1>6, <3>2, EmptyDomain DEF With
    <3>4. /\ DOMAIN n = {zk, zs} \cup (DOMAIN m \ {old}) /\ n[zk] = score
          /\ \A x \in DOMAIN m \ {old} : x \notin {zk, zs} => n[x] = m[x]
      BY <1>4, <3>2, <3>3 DEF Applied
    <3>5. old # MetaKey(k)
      BY <3>1 DEF ZSetScoreKey, MetaKey
    <3>6. MetaKey(k) \in DOMAIN m /\ m[MetaKey(k)] = meta
      BY <2>2 DEF WorksOn
    <3>7. MetaKey(k) \in DOMAIN n /\ n[MetaKey(k)] = meta
      BY <1>6, <3>4, <3>5, <3>6
    <3>8. \A f \in Fields : f # field =>
             /\ ZSetMemberKey(k, meta.version, f) \in DOMAIN n
                  <=> ZSetMemberKey(k, meta.version, f) \in DOMAIN m
             /\ ZSetMemberKey(k, meta.version, f) \in DOMAIN m =>
                  n[ZSetMemberKey(k, meta.version, f)] = m[ZSetMemberKey(k, meta.version, f)]
      BY <1>3, <1>11, <1>12, <3>1, <3>4
    <3>9. ItemsIn(n, k, meta) = out.next
      BY <1>2, <1>5, <1>6, <1>10, <3>4, <3>8, ZSetTakes
    <3>10. out.next # items
      <4>1. out.next[field] = score
        BY <1>10 DEF With
      <4> QED
        BY <2>1, <2>6, <4>1
    <3>11. /\ d.reply = out.reply /\ d.reply # NoReply /\ d.reply # Status("WrongType")
           /\ d.write # NoWrite
      BY <1>10, <2>3, <3>2, RepliesDiffer, OtherKinds
    <3> QED
      BY <1>1, <1>4, <1>5, <1>9, <2>4, <3>2, <3>7, <3>9, <3>10, <3>11 DEF Serves
  <2> QED
    BY <2>5, <2>6
<1> QED
  BY <1>14, <1>15

(* It answers with a score.                                                *)
LEMMA ZscoreServes ==
  ASSUME NEW a, a.op = "zscore", NEW m, NEW k \in Keys, NEW time \in Nat, NEW meta,
         WorksOn(m, k, meta, "ZSet", time), NEW field \in Fields, field = a.field
  PROVE  Serves(a, m, k, meta, Zscore(k, meta, field, FALSE))
<1>1. PICK d : d = Zscore(k, meta, field, FALSE)
  OBVIOUS
<1>2. PICK zk : zk = ZSetMemberKey(k, meta.version, field)
  OBVIOUS
<1>3. PICK items : items = ItemsIn(m, k, meta)
  OBVIOUS
<1>4. Len(zk) = 3 /\ meta.type = "ZSet" /\ Describes(m, k, meta)
  BY <1>2, KeyParts DEF WorksOn
<1>5. (zk \in DOMAIN m <=> zk \in DOMAIN store) /\ (zk \in DOMAIN store => m[zk] = store[zk])
  <2>1. Covers(m, store) /\ Len(zk) > 1
    BY <1>4 DEF WorksOn
  <2> QED
    BY <2>1, EntriesSame
<1>6. (field \in DOMAIN items <=> zk \in DOMAIN m) /\ (field \in DOMAIN items => items[field] = m[zk])
  BY <1>2, <1>3, <1>4, ZSetItems
<1>7. PICK out : out = RT!ItemsOutcome(a, items)
  OBVIOUS
<1>8. /\ out.next = items
      /\ out.reply = CASE field \in DOMAIN items -> Score(items[field])
                       [] items = <<>> -> Score("-1")
                       [] OTHER -> Status("KeyNotFound")
  BY <1>7, ZscoreOutcome
<1>9. meta.size = 0 <=> items = <<>>
  BY <1>3, <1>4, SizeZero, ItemsEmpty
<1>10. items = <<>> => field \notin DOMAIN items
  BY EmptyDomain
<1>11. d.write = NoWrite /\ d.reply = out.reply
  <2>1. CASE meta.size = 0
    BY <1>1, <1>8, <1>9, <1>10, <2>1 DEF Zscore, Say, Decision
  <2>2. CASE meta.size # 0 /\ zk \in DOMAIN store
    BY <1>1, <1>2, <1>5, <1>6, <1>8, <1>9, <2>2 DEF Zscore, Lookup, Say, Decision
  <2>3. CASE meta.size # 0 /\ zk \notin DOMAIN store
    BY <1>1, <1>2, <1>5, <1>6, <1>8, <1>9, <2>3 DEF Zscore, Lookup, Say, Decision
  <2> QED
    BY <2>1, <2>2, <2>3
<1>12. out.reply # NoReply /\ out.reply # Status("WrongType")
  BY <1>8, RepliesDiffer
<1> QED
  BY <1>1, <1>3, <1>7, <1>8, <1>11, <1>12 DEF Serves, RT!Growing

-----------------------------------------------------------------------------
(* The fields of the commands that the lemmas on what they do need.        *)
LEMMA CollectionFields ==
  ASSUME NEW a \in Commands
  PROVE  a.op \in {"hset", "hget", "hdel", "sadd", "sismember", "srem", "zadd", "zscore"}
           => a.field \in Fields
<1>1. CASE a \in [op : Ops \cap {"set"}, key : Keys, val : Vals \cup {EmptyVal}, ttl : TTLs]
  BY <1>1
<1>2. CASE a \in [op : Ops \cap {"get", "del", "type", "lpop", "rpop"}, key : Keys]
  BY <1>2
<1>3. CASE a \in [op : Ops \cap {"hset"}, key : Keys, field : Fields, val : Vals]
  BY <1>3
<1>4. CASE a \in [op : Ops \cap {"hget", "hdel", "sadd", "sismember", "srem", "zscore"},
                  key : Keys, field : Fields]
  BY <1>4
<1>5. CASE a \in [op : Ops \cap {"lpush", "rpush"}, key : Keys, val : Vals]
  BY <1>5
<1>6. CASE a \in [op : Ops \cap {"zadd"}, key : Keys, field : Fields, score : Scores]
  BY <1>6
<1> QED
  BY <1>1, <1>2, <1>3, <1>4, <1>5, <1>6 DEF Commands

(* Every command on a collection does what the promise says.               *)
LEMMA CollectionServes ==
  ASSUME NEW a \in Commands, NEW m, NEW k \in Keys, NEW time \in Nat, NEW meta,
         k = a.key, a.op \notin {"set", "get", "del", "type"},
         WorksOn(m, k, meta, TypeOf(a.op), time)
  PROVE  Serves(a, m, k, meta, CollectionDecision(a, meta, FALSE))
<1>1. /\ a.op \in AllOps
      /\ a.op \in {"hset", "hget", "hdel", "sadd", "sismember", "srem", "zadd", "zscore"}
           => a.field \in Fields
  BY CommandFields, CollectionFields
<1>2. CASE a.op = "hset"
  <2>1. CollectionDecision(a, meta, FALSE) = Hset(k, meta, a.field, a.val, FALSE)
    BY <1>2 DEF CollectionDecision
  <2>2. WorksOn(m, k, meta, "Hash", time)
    BY <1>2 DEF TypeOf
  <2> QED
    BY <1>1, <1>2, <2>1, <2>2, HsetServes
<1>3. CASE a.op = "hget"
  <2>1. CollectionDecision(a, meta, FALSE) = Hget(k, meta, a.field, FALSE)
    BY <1>3 DEF CollectionDecision
  <2>2. WorksOn(m, k, meta, "Hash", time)
    BY <1>3 DEF TypeOf
  <2> QED
    BY <1>1, <1>3, <2>1, <2>2, HgetServes
<1>4. CASE a.op = "hdel"
  <2>1. CollectionDecision(a, meta, FALSE) = Hdel(k, meta, a.field, FALSE)
    BY <1>4 DEF CollectionDecision
  <2>2. WorksOn(m, k, meta, "Hash", time)
    BY <1>4 DEF TypeOf
  <2> QED
    BY <1>1, <1>4, <2>1, <2>2, HdelServes
<1>5. CASE a.op = "sadd"
  <2>1. CollectionDecision(a, meta, FALSE) = Sadd(k, meta, a.field, FALSE)
    BY <1>5 DEF CollectionDecision
  <2>2. WorksOn(m, k, meta, "Set", time)
    BY <1>5 DEF TypeOf
  <2> QED
    BY <1>1, <1>5, <2>1, <2>2, SaddServes
<1>6. CASE a.op = "sismember"
  <2>1. CollectionDecision(a, meta, FALSE) = SIsMember(k, meta, a.field, FALSE)
    BY <1>6 DEF CollectionDecision
  <2>2. WorksOn(m, k, meta, "Set", time)
    BY <1>6 DEF TypeOf
  <2> QED
    BY <1>1, <1>6, <2>1, <2>2, SIsMemberServes
<1>7. CASE a.op = "srem"
  <2>1. CollectionDecision(a, meta, FALSE) = Srem(k, meta, a.field, FALSE)
    BY <1>7 DEF CollectionDecision
  <2>2. WorksOn(m, k, meta, "Set", time)
    BY <1>7 DEF TypeOf
  <2> QED
    BY <1>1, <1>7, <2>1, <2>2, SremServes
<1>8. CASE a.op \in {"lpush", "rpush"}
  <2>0. PICK left \in BOOLEAN : left = (a.op = "lpush")
    OBVIOUS
  <2>1. CollectionDecision(a, meta, FALSE) = PushInner(k, meta, a.val, left)
    BY <1>8, <2>0 DEF CollectionDecision
  <2>2. WorksOn(m, k, meta, "List", time)
    BY <1>8 DEF TypeOf
  <2>3. a.op = IF left THEN "lpush" ELSE "rpush"
    BY <1>8, <2>0
  <2> QED
    BY <2>1, <2>2, <2>3, PushServes
<1>9. CASE a.op \in {"lpop", "rpop"}
  <2>0. PICK left \in BOOLEAN : left = (a.op = "lpop")
    OBVIOUS
  <2>1. CollectionDecision(a, meta, FALSE) = PopInner(k, meta, left, FALSE)
    BY <1>9, <2>0 DEF CollectionDecision
  <2>2. WorksOn(m, k, meta, "List", time)
    BY <1>9 DEF TypeOf
  <2>3. a.op = IF left THEN "lpop" ELSE "rpop"
    BY <1>9, <2>0
  <2> QED
    BY <2>1, <2>2, <2>3, PopServes
<1>10. CASE a.op = "zadd"
  <2>1. CollectionDecision(a, meta, FALSE) = Zadd(k, meta, a.field, a.score, FALSE)
    BY <1>10 DEF CollectionDecision
  <2>2. WorksOn(m, k, meta, "ZSet", time)
    BY <1>10 DEF TypeOf
  <2> QED
    BY <1>1, <1>10, <2>1, <2>2, ZaddServes
<1>11. CASE a.op = "zscore"
  <2>1. CollectionDecision(a, meta, FALSE) = Zscore(k, meta, a.field, FALSE)
    BY <1>11 DEF CollectionDecision
  <2>2. WorksOn(m, k, meta, "ZSet", time)
    BY <1>11 DEF TypeOf
  <2> QED
    BY <1>1, <1>11, <2>1, <2>2, ZscoreServes
<1> QED
  BY <1>1, <1>2, <1>3, <1>4, <1>5, <1>6, <1>7, <1>8, <1>9, <1>10, <1>11 DEF AllOps

-----------------------------------------------------------------------------
(* Strings.  The time a string expires is a time, or 0.                    *)
StringsTimed(map) ==
  \A k \in Keys :
    MetaKey(k) \in DOMAIN map /\ map[MetaKey(k)].type = "String" => map[MetaKey(k)].expire \in Nat

(* What a key holds has the type of its metadata.                          *)
LEMMA HeldType ==
  ASSUME NEW m, NEW time, Consistent(m, time), NEW k \in Keys, MetaKey(k) \in DOMAIN m
  PROVE  /\ HeldIn(m, k).type = m[MetaKey(k)].type /\ HeldIn(m, k) # RT!Nothing
         /\ m[MetaKey(k)].type \in CollectionTypes \cup {"String"}
<1>1. CASE m[MetaKey(k)].type = "String"
  BY <1>1, HeldOther DEF RT!String, RT!Nothing
<1>2. CASE m[MetaKey(k)].type # "String"
  <2>1. PICK type \in CollectionTypes : type = m[MetaKey(k)].type
    BY <1>2, StoredMetadata DEF HasMeta, MetadataType
  <2>2. HeldIn(m, k) = RT!Collection(type, ItemsIn(m, k, m[MetaKey(k)]))
    BY <2>1, HeldCollection
  <2> QED
    BY <2>1, <2>2, HeldKinds
<1> QED
  BY <1>1, <1>2

(* What the promise says of the commands on strings and on keys.           *)
LEMMA SetOutcome ==
  ASSUME NEW a, a.op = "set", NEW held, NEW time, NEW out, out = RT!OutcomeOf(a, held, time)
  PROVE  /\ out.reply = Status("OK")
         /\ out.next = IF a.val = EmptyVal THEN held
                       ELSE RT!String(a.val, IF a.ttl = 0 THEN 0 ELSE time + a.ttl)
BY DEF RT!OutcomeOf, RT!StringOutcome, RT!Outcome, RT!Status, Status

LEMMA DelOutcome ==
  ASSUME NEW a, a.op = "del", NEW held, NEW time, NEW out, out = RT!OutcomeOf(a, held, time)
  PROVE  out.reply = Status("OK") /\ out.next = RT!Nothing
BY DEF RT!OutcomeOf, RT!StringOutcome, RT!Outcome, RT!Status, Status

LEMMA TypeOutcome ==
  ASSUME NEW a, a.op = "type", NEW held, NEW time, NEW out, out = RT!OutcomeOf(a, held, time)
  PROVE  /\ out.next = held
         /\ out.reply = IF held = RT!Nothing THEN Status("KeyNotFound") ELSE TypeIs(held.type)
BY DEF RT!OutcomeOf, RT!StringOutcome, RT!Outcome, RT!Status, Status, RT!TypeIs, TypeIs

LEMMA GetOutcome ==
  ASSUME NEW a, a.op = "get", NEW held, NEW time, NEW out, out = RT!OutcomeOf(a, held, time)
  PROVE  /\ out.next = held
         /\ held = RT!Nothing => out.reply = Status("KeyNotFound")
         /\ held # RT!Nothing /\ held.type # "String" => out.reply = Status("WrongType")
         /\ held # RT!Nothing /\ held.type = "String" =>
              out.reply = IF held.expire # 0 /\ held.expire <= time THEN Status("None")
                                                                    ELSE Value(held.val)
BY DEF RT!OutcomeOf, RT!StringOutcome, RT!Outcome, RT!Status, Status, RT!Value, Value

(* What a command has decided is what the promise says: the answer, and    *)
(* what its key will hold in a map that the write reaches.                 *)
Delivers(a, m, d, time) ==
  LET held == HeldIn(store, a.key)
      out == RT!OutcomeOf(a, held, time)
  IN
  /\ d.reply = out.reply /\ d.reply # NoReply
  /\ d.write = NoWrite => out.next = held /\ ~RT!Synced(a, held, out)
  /\ d.write # NoWrite =>
       /\ HeldIn(Applied(m, d.write), a.key) = out.next
       /\ d.write.kind = "delete" <=> a.op = "del"
       /\ d.write.kind = "batch" <=> RT!Synced(a, held, out)
       /\ a.op # "del" => out.next # RT!Nothing
       /\ StringsTimed(m) => StringsTimed(Applied(m, d.write))

(* A write that gives its key no string, or one with a time, or nothing.   *)
LEMMA TimedKept ==
  ASSUME NEW m, NEW w, NEW k, NEW time, WritesOnly(w, k, time), StringsTimed(m),
         NEW n, n = Applied(m, w),
         MetaKey(k) \in DOMAIN n /\ n[MetaKey(k)].type = "String" => n[MetaKey(k)].expire \in Nat
  PROVE  StringsTimed(n)
<1> SUFFICES ASSUME NEW j \in Keys, MetaKey(j) \in DOMAIN n, n[MetaKey(j)].type = "String"
             PROVE  n[MetaKey(j)].expire \in Nat
  BY DEF StringsTimed
<1>1. CASE j = k
  BY <1>1
<1>2. CASE j # k
  <2>0. MetaKey(j)[1] = j
    BY KeyParts
  <2>1. MetaKey(j) \notin DOMAIN w.puts /\ MetaKey(j) \notin w.dels
    BY <1>2, <2>0 DEF WritesOnly
  <2>2. /\ DOMAIN n = DOMAIN w.puts \cup (DOMAIN m \ w.dels)
        /\ \A y \in DOMAIN m \ w.dels : y \notin DOMAIN w.puts => n[y] = m[y]
    BY DEF Applied
  <2>3. MetaKey(j) \in DOMAIN m /\ n[MetaKey(j)] = m[MetaKey(j)]
    BY <2>1, <2>2
  <2> QED
    BY <2>3 DEF StringsTimed
<1> QED
  BY <1>1, <1>2

(* The times to live are times.                                            *)
LEMMA SetFields == ASSUME NEW a \in Commands, a.op = "set" PROVE a.ttl \in Nat
<1>1. TTLs \subseteq Nat
  BY CommandsAssumption
<1>2. CASE a \in [op : Ops \cap {"set"}, key : Keys, val : Vals \cup {EmptyVal}, ttl : TTLs]
  BY <1>1, <1>2
<1>3. CASE a \in [op : Ops \cap {"get", "del", "type", "lpop", "rpop"}, key : Keys]
  BY <1>3
<1>4. CASE a \in [op : Ops \cap {"hset"}, key : Keys, field : Fields, val : Vals]
  BY <1>4
<1>5. CASE a \in [op : Ops \cap {"hget", "hdel", "sadd", "sismember", "srem", "zscore"},
                  key : Keys, field : Fields]
  BY <1>5
<1>6. CASE a \in [op : Ops \cap {"lpush", "rpush"}, key : Keys, val : Vals]
  BY <1>6
<1>7. CASE a \in [op : Ops \cap {"zadd"}, key : Keys, field : Fields, score : Scores]
  BY <1>7
<1> QED
  BY <1>2, <1>3, <1>4, <1>5, <1>6, <1>7 DEF Commands

(* A string is written over anything.                                      *)
LEMMA SetDelivers ==
  ASSUME NEW a \in Commands, a.op = "set", NEW m, NEW time \in Nat
  PROVE  Delivers(a, m, DecisionOf(a, time, FALSE), time)
<1>1. PICK k \in Keys : k = a.key
  BY CommandFields
<1>2. PICK d : d = DecisionOf(a, time, FALSE)
  OBVIOUS
<1>3. PICK held : held = HeldIn(store, k)
  OBVIOUS
<1>4. PICK out : out = RT!OutcomeOf(a, held, time)
  OBVIOUS
<1>5. PICK e \in Nat : e = IF a.ttl = 0 THEN 0 ELSE time + a.ttl
  BY SetFields
<1>6. out.reply = Status("OK") /\ out.next = IF a.val = EmptyVal THEN held ELSE RT!String(a.val, e)
  BY <1>4, <1>5, SetOutcome
<1>7. d = Set(k, a.val, a.ttl, time)
  BY <1>1, <1>2 DEF DecisionOf
<1>8. d.reply = Status("OK") /\ d.reply # NoReply
  <2>1. d.reply = Status("OK")
    BY <1>7 DEF Set, Say, Decision
  <2> QED
    BY <2>1, RepliesDiffer
<1>9. ~RT!Synced(a, held, out)
  BY DEF RT!Synced
<1>10. CASE a.val = EmptyVal
  <2>1. d.write = NoWrite
    BY <1>7, <1>10 DEF Set, Say, Decision
  <2> QED
    BY <1>1, <1>2, <1>3, <1>4, <1>6, <1>8, <1>9, <1>10, <2>1 DEF Delivers
<1>11. CASE a.val # EmptyVal
  <2>1. PICK v : v = StringValue(a.val, e)
    OBVIOUS
  <2>2. PICK w : w = Put(MetaKey(k), v)
    OBVIOUS
  <2>3. d.write = w
    BY <1>5, <1>7, <1>11, <2>1, <2>2 DEF Set, Decision
  <2>4. w.kind = "put" /\ w # NoWrite
    BY <2>2, WriteKinds, OtherKinds
  <2>5. w.puts = With(<<>>, MetaKey(k), v) /\ w.dels = {}
    BY <2>2 DEF Put, Write
  <2>6. DOMAIN w.puts = {MetaKey(k)} /\ w.puts[MetaKey(k)] = v
    BY <2>5, EmptyDomain DEF With
  <2>7. PICK n : n = Applied(m, w)
    OBVIOUS
  <2>8. MetaKey(k) \in DOMAIN n /\ n[MetaKey(k)] = v
    BY <2>6, <2>7 DEF Applied
  <2>9. v.type = "String" /\ v.val = a.val /\ v.expire = e
    BY <2>1 DEF StringValue
  <2>10. HeldIn(n, k) = RT!String(a.val, e)
    BY <2>8, <2>9, HeldOther
  <2>11. RT!String(a.val, e) # RT!Nothing
    BY DEF RT!String, RT!Nothing
  <2>12. WritesOnly(w, k, time)
    BY <2>5, <2>6, KeyParts DEF WritesOnly
  <2>13. StringsTimed(m) => StringsTimed(n)
    BY <2>7, <2>8, <2>9, <2>12, TimedKept
  <2> QED
    BY <1>1, <1>2, <1>3, <1>4, <1>6, <1>8, <1>9, <1>11, <2>3, <2>4, <2>7, <2>10, <2>11, <2>13
    DEF Delivers
<1> QED
  BY <1>10, <1>11

(* A del takes the key away, whatever it holds.                            *)
LEMMA DelDelivers ==
  ASSUME NEW a \in Commands, a.op = "del", NEW m, NEW time \in Nat
  PROVE  Delivers(a, m, DecisionOf(a, time, FALSE), time)
<1>1. PICK k \in Keys : k = a.key
  BY CommandFields
<1>2. PICK d : d = DecisionOf(a, time, FALSE)
  OBVIOUS
<1>3. PICK held : held = HeldIn(store, k)
  OBVIOUS
<1>4. PICK out : out = RT!OutcomeOf(a, held, time)
  OBVIOUS
<1>5. out.reply = Status("OK") /\ out.next = RT!Nothing
  BY <1>4, DelOutcome
<1>6. d = Del(k)
  BY <1>1, <1>2 DEF DecisionOf
<1>7. d.reply = Status("OK") /\ d.reply # NoReply
  <2>1. d.reply = Status("OK")
    BY <1>6 DEF Del, Say, Decision
  <2> QED
    BY <2>1, RepliesDiffer
<1>8. ~RT!Synced(a, held, out)
  BY DEF RT!Synced
<1>9. CASE MetaKey(k) \notin DOMAIN store
  <2>1. d.write = NoWrite
    BY <1>6, <1>9 DEF Del, Say, Decision
  <2>2. held = RT!Nothing
    BY <1>3, <1>9, HeldOther
  <2> QED
    BY <1>1, <1>2, <1>3, <1>4, <1>5, <1>7, <1>8, <2>1, <2>2 DEF Delivers
<1>10. CASE MetaKey(k) \in DOMAIN store
  <2>1. PICK w : w = Delete(MetaKey(k))
    OBVIOUS
  <2>2. d.write = w
    BY <1>6, <1>10, <2>1 DEF Del, Decision
  <2>3. w.kind = "delete" /\ w # NoWrite
    BY <2>1, OtherKinds
  <2>4. w.dels = {MetaKey(k)} /\ DOMAIN w.puts = {}
    BY <2>1, EmptyDomain DEF Delete, Write
  <2>5. PICK n : n = Applied(m, w)
    OBVIOUS
  <2>6. MetaKey(k) \notin DOMAIN n
    BY <2>4, <2>5 DEF Applied
  <2>7. HeldIn(n, k) = RT!Nothing
    BY <2>6, HeldOther
  <2>8. WritesOnly(w, k, time)
    BY <2>4, KeyParts DEF WritesOnly
  <2>9. StringsTimed(m) => StringsTimed(n)
    BY <2>5, <2>6, <2>8, TimedKept
  <2> QED
    BY <1>1, <1>2, <1>3, <1>4, <1>5, <1>7, <1>8, <2>2, <2>3, <2>5, <2>7, <2>9 DEF Delivers
<1> QED
  BY <1>9, <1>10

(* type and get read the metadata only.                                    *)
LEMMA TypeDelivers ==
  ASSUME NEW a \in Commands, a.op = "type", NEW m, NEW time \in Nat, NEW old,
         Consistent(store, old)
  PROVE  Delivers(a, m, DecisionOf(a, time, FALSE), time)
<1>1. PICK k \in Keys : k = a.key
  BY CommandFields
<1>2. PICK d : d = DecisionOf(a, time, FALSE)
  OBVIOUS
<1>3. PICK held : held = HeldIn(store, k)
  OBVIOUS
<1>4. PICK out : out = RT!OutcomeOf(a, held, time)
  OBVIOUS
<1>5. /\ out.next = held
      /\ out.reply = IF held = RT!Nothing THEN Status("KeyNotFound") ELSE TypeIs(held.type)
  BY <1>4, TypeOutcome
<1>6. d = KeyType(k)
  BY <1>1, <1>2 DEF DecisionOf
<1>7. ~RT!Synced(a, held, out)
  BY <1>5 DEF RT!Synced
<1>8. d.write = NoWrite
  BY <1>6 DEF KeyType, Say, Decision
<1>9. d.reply = out.reply
  <2>1. CASE MetaKey(k) \notin DOMAIN store
    BY <1>3, <1>5, <1>6, <2>1, HeldOther DEF KeyType, Say, Decision
  <2>2. CASE MetaKey(k) \in DOMAIN store
    <3>1. held.type = store[MetaKey(k)].type /\ held # RT!Nothing
      BY <1>3, <2>2, HeldType
    <3> QED
      BY <1>5, <1>6, <2>2, <3>1 DEF KeyType, Say, Decision
  <2> QED
    BY <2>1, <2>2
<1>10. out.reply # NoReply
  BY <1>5, RepliesDiffer
<1> QED
  BY <1>1, <1>2, <1>3, <1>4, <1>5, <1>7, <1>8, <1>9, <1>10 DEF Delivers

LEMMA GetDelivers ==
  ASSUME NEW a \in Commands, a.op = "get", NEW m, NEW time \in Nat, NEW old,
         Consistent(store, old), StringsTimed(store)
  PROVE  Delivers(a, m, DecisionOf(a, time, FALSE), time)
<1>1. PICK k \in Keys : k = a.key
  BY CommandFields
<1>2. PICK d : d = DecisionOf(a, time, FALSE)
  OBVIOUS
<1>3. PICK held : held = HeldIn(store, k)
  OBVIOUS
<1>4. PICK out : out = RT!OutcomeOf(a, held, time)
  OBVIOUS
<1>5. out.next = held
  BY <1>4, GetOutcome
<1>6. d = Get(k, time)
  BY <1>1, <1>2 DEF DecisionOf
<1>7. ~RT!Synced(a, held, out)
  BY <1>5 DEF RT!Synced
<1>8. d.write = NoWrite
  BY <1>6 DEF Get, Say, Decision
<1>9. d.reply = out.reply /\ d.reply # NoReply
  <2>1. CASE MetaKey(k) \notin DOMAIN store
    <3>1. d.reply = Status("KeyNotFound")
      BY <1>6, <2>1 DEF Get, Say, Decision
    <3>2. held = RT!Nothing
      BY <1>3, <2>1, HeldOther
    <3> QED
      BY <1>4, <3>1, <3>2, GetOutcome, RepliesDiffer
  <2>2. CASE MetaKey(k) \in DOMAIN store /\ store[MetaKey(k)].type # "String"
    <3>1. held.type # "String" /\ held # RT!Nothing
      BY <1>3, <2>2, HeldType
    <3>2. d.reply = Status("WrongType")
      BY <1>6, <2>2 DEF Get, Say, Decision
    <3> QED
      BY <1>4, <3>1, <3>2, GetOutcome, RepliesDiffer
  <2>3. CASE MetaKey(k) \in DOMAIN store /\ store[MetaKey(k)].type = "String"
    <3>1. PICK val : val = store[MetaKey(k)]
      OBVIOUS
    <3>2. val.expire \in Nat /\ val.type = "String"
      BY <2>3, <3>1 DEF StringsTimed
    <3>3. held = RT!String(val.val, val.expire)
      BY <1>3, <2>3, <3>1, HeldOther
    <3>4. /\ held # RT!Nothing /\ held.type = "String" /\ held.val = val.val
          /\ held.expire = val.expire
      BY <3>3, HeldKinds DEF CollectionTypes
    <3>5. PICK gone \in BOOLEAN : gone <=> val.expire > 0 /\ val.expire <= time
      OBVIOUS
    <3>6. d.reply = IF gone THEN Status("None") ELSE Value(val.val)
      BY <1>6, <2>3, <3>1, <3>5 DEF Get, Say, Decision
    <3>7. gone <=> held.expire # 0 /\ held.expire <= time
      BY <3>2, <3>4, <3>5
    <3>8. out.reply = IF gone THEN Status("None") ELSE Value(val.val)
      BY <1>4, <3>4, <3>7, GetOutcome
    <3>9. d.reply # NoReply
      BY <3>6, RepliesDiffer
    <3> QED
      BY <3>6, <3>8, <3>9
  <2> QED
    BY <2>1, <2>2, <2>3
<1> QED
  BY <1>1, <1>2, <1>3, <1>4, <1>5, <1>7, <1>8, <1>9 DEF Delivers

-----------------------------------------------------------------------------
(* What the promise says of a command on a collection.                     *)
LEMMA CollectionOutcomes ==
  ASSUME NEW a, a.op \notin {"set", "get", "del", "type"}, NEW held, NEW time, NEW type,
         type = TypeOf(a.op), NEW items, items = RT!Items(held, a.op),
         NEW got, got = RT!ItemsOutcome(a, items),
         NEW out, out = RT!OutcomeOf(a, held, time)
  PROVE  /\ held # RT!Nothing /\ held.type # type =>
              out.next = held /\ out.reply = Status("WrongType")
         /\ ~(held # RT!Nothing /\ held.type # type) => out.reply = got.reply
         /\ ~(held # RT!Nothing /\ held.type # type) =>
              out.next = IF held = RT!Nothing /\ a.op \notin RT!Growing THEN held
                         ELSE RT!Collection(type, got.next)
<1>1. out = RT!CollectionOutcome(a, held)
  BY DEF RT!OutcomeOf
<1>2. RT!TypeOf(a.op) = type
  BY SameNames
<1>3. CASE held # RT!Nothing /\ held.type # type
  BY <1>1, <1>2, <1>3, SameNames DEF RT!CollectionOutcome, RT!Outcome
<1>4. CASE ~(held # RT!Nothing /\ held.type # type)
  BY <1>1, <1>2, <1>4 DEF RT!CollectionOutcome, RT!Outcome
<1> QED
  BY <1>3, <1>4

(* A key that holds nothing has the items of an empty collection.          *)
LEMMA FoundItems ==
  ASSUME NEW m, NEW k \in Keys, NEW old \in Nat, NEW op, NEW type \in CollectionTypes,
         type = TypeOf(op), Consistent(store, old), Consistent(m, old), Covers(m, store),
         ~WrongType(k, type), NEW meta, meta = FindMetadata(k, type, old + 1),
         NEW held, held = HeldIn(store, k)
  PROVE  /\ ItemsIn(m, k, meta) = RT!Items(held, op)
         /\ held # RT!Nothing => held = RT!Collection(type, ItemsIn(m, k, meta))
         /\ EntriesIn(m, k, meta) # {} => held # RT!Nothing
<1>1. /\ meta \in MetadataType /\ meta.type = type /\ Describes(m, k, meta)
  BY FoundWorksOn DEF WorksOn
<1>2. Covers(store, store)
  BY DEF Covers
<1>3. /\ Describes(store, k, meta)
      /\ \/ MetaKey(k) \in DOMAIN store /\ store[MetaKey(k)] = meta
         \/ EntriesIn(store, k, meta) = {}
  BY <1>2, FoundWorksOn DEF WorksOn
<1>4. ItemsIn(m, k, meta) = ItemsIn(store, k, meta)
  BY <1>1, ItemsCovered
<1>5. CASE MetaKey(k) \in DOMAIN store
  <2>1. HasMeta(store, k) /\ store[MetaKey(k)].type = type
    BY <1>5 DEF HasMeta, WrongType, CollectionTypes
  <2>2. store[MetaKey(k)].expire = 0
    BY <2>1, StoredMetadata DEF MetadataType
  <2>3. meta = store[MetaKey(k)]
    BY <1>5, <2>2 DEF FindMetadata
  <2>4. held = RT!Collection(type, ItemsIn(store, k, meta))
    BY <1>1, <1>5, <2>3, HeldCollection
  <2>5. held # RT!Nothing /\ held.items = ItemsIn(store, k, meta)
    BY <2>4, HeldKinds
  <2> QED
    BY <1>4, <2>4, <2>5 DEF RT!Items
<1>6. CASE MetaKey(k) \notin DOMAIN store
  <2>1. held = RT!Nothing
    BY <1>6, HeldOther
  <2>2. ItemsIn(store, k, meta) = IF type = "Set" THEN {} ELSE <<>>
    BY <1>1, <1>3, <1>6, ItemsEmpty
  <2>3. RT!Items(held, op) = IF type = "Set" THEN {} ELSE <<>>
    BY <2>1, SameNames DEF RT!Items
  <2>4. EntriesIn(m, k, meta) = {}
    BY <1>1, <1>4, <2>2, ItemsEmpty
  <2> QED
    BY <1>4, <2>1, <2>2, <2>3, <2>4
<1> QED
  BY <1>5, <1>6

(* A hash is written even if nothing changes.                              *)
LEMMA HsetWrites ==
  ASSUME NEW a, a.op = "hset", NEW meta
  PROVE  CollectionDecision(a, meta, FALSE).write # NoWrite
<1>1. PICK w : w = CollectionDecision(a, meta, FALSE).write
  OBVIOUS
<1>2. w.kind = "batch"
  BY <1>1 DEF CollectionDecision, Hset, Decision, Batch, Write
<1> QED
  BY <1>1, <1>2, OtherKinds

(* Commands on collections deliver.                                        *)
LEMMA CollectionDelivers ==
  ASSUME NEW a \in Commands, a.op \notin {"set", "get", "del", "type"}, NEW m,
         NEW old \in Nat, NEW time, Consistent(store, old), Consistent(m, old),
         Covers(m, store)
  PROVE  Delivers(a, m, DecisionOf(a, old + 1, FALSE), time)
<1>1. PICK k \in Keys : k = a.key
  BY CommandFields
<1>2. PICK d : d = DecisionOf(a, old + 1, FALSE)
  OBVIOUS
<1>3. PICK held : held = HeldIn(store, k)
  OBVIOUS
<1>4. PICK out : out = RT!OutcomeOf(a, held, time)
  OBVIOUS
<1>5. PICK type : type = TypeOf(a.op)
  OBVIOUS
<1>6. type \in CollectionTypes /\ a.op \in AllOps
  BY <1>5, CommandFields DEF AllOps, TypeOf, CollectionTypes
<1>t. PICK t \in Nat : t = old + 1
  OBVIOUS
<1>7. CASE WrongType(k, type)
  <2>1. d = Say(Status("WrongType"))
    BY <1>1, <1>2, <1>5, <1>7 DEF DecisionOf
  <2>2. d.write = NoWrite /\ d.reply = Status("WrongType")
    BY <2>1 DEF Say, Decision
  <2>3. held # RT!Nothing /\ held.type # type
    BY <1>3, <1>7, HeldType DEF WrongType
  <2>4. out.next = held /\ out.reply = Status("WrongType")
    BY <1>4, <1>5, <2>3, CollectionOutcomes
  <2>5. d.reply # NoReply
    BY <2>2, RepliesDiffer
  <2>6. ~RT!Synced(a, held, out)
    BY <2>4, SameNames DEF RT!Synced
  <2> QED
    BY <1>1, <1>2, <1>3, <1>4, <2>2, <2>4, <2>5, <2>6 DEF Delivers
<1>8. CASE ~WrongType(k, type)
  <2>1. PICK meta : meta = FindMetadata(k, type, old + 1)
    OBVIOUS
  <2>2. WorksOn(m, k, meta, type, t)
    BY <1>t, <1>6, <1>8, <2>1, FoundWorksOn
  <2>3. d = CollectionDecision(a, meta, FALSE)
    BY <1>1, <1>2, <1>5, <1>8, <2>1 DEF DecisionOf
  <2>4. Serves(a, m, k, meta, d)
    BY <1>1, <1>5, <2>2, <2>3, CollectionServes
  <2>5. PICK items : items = ItemsIn(m, k, meta)
    OBVIOUS
  <2>6. PICK got : got = RT!ItemsOutcome(a, items)
    OBVIOUS
  <2>7. /\ items = RT!Items(held, a.op)
        /\ held # RT!Nothing => held = RT!Collection(type, items)
        /\ EntriesIn(m, k, meta) # {} => held # RT!Nothing
    BY <1>3, <1>5, <1>6, <1>8, <2>1, <2>5, FoundItems
  <2>8. ~(held # RT!Nothing /\ held.type # type)
    BY <1>6, <2>7, HeldKinds
  <2>9. /\ out.reply = got.reply
        /\ out.next = IF held = RT!Nothing /\ a.op \notin RT!Growing THEN held
                      ELSE RT!Collection(type, got.next)
    BY <1>4, <1>5, <2>6, <2>7, <2>8, CollectionOutcomes
  <2>10. d.reply = out.reply /\ d.reply # NoReply /\ d.reply # Status("WrongType")
    BY <2>4, <2>5, <2>6, <2>9 DEF Serves
  <2>11. CASE d.write = NoWrite
    <3>1. got.next = items /\ (a.op \in RT!Growing => EntriesIn(m, k, meta) # {})
      BY <2>4, <2>5, <2>6, <2>11 DEF Serves
    <3>2. out.next = held
      BY <2>7, <2>9, <3>1
    <3>3. a.op # "hset"
      BY <2>3, <2>11, HsetWrites
    <3>4. ~RT!Synced(a, held, out)
      BY <3>2, <3>3 DEF RT!Synced
    <3> QED
      BY <1>1, <1>2, <1>3, <1>4, <2>10, <2>11, <3>2, <3>4 DEF Delivers
  <2>12. CASE d.write # NoWrite
    <3>1. PICK w : w = d.write
      OBVIOUS
    <3>2. PICK n : n = Applied(m, w)
      OBVIOUS
    <3>3. /\ MetaKey(k) \in DOMAIN n /\ n[MetaKey(k)].type = meta.type
          /\ ItemsIn(n, k, n[MetaKey(k)]) = got.next
          /\ a.op \notin RT!Growing => EntriesIn(m, k, meta) # {}
          /\ w.kind = IF a.op \in {"lpop", "rpop"} THEN "put" ELSE "batch"
          /\ a.op = "hset" \/ got.next # items
      BY <2>4, <2>5, <2>6, <2>12, <3>1, <3>2 DEF Serves
    <3>4. n[MetaKey(k)].type = type
      BY <2>2, <3>3 DEF WorksOn
    <3>5. out.next = RT!Collection(type, got.next)
      BY <2>7, <2>9, <3>3
    <3>6. HeldIn(n, k) = out.next
      BY <1>6, <3>3, <3>4, <3>5, HeldCollection
    <3>7. out.next # RT!Nothing
      BY <1>6, <3>5, HeldKinds
    <3>8. out.next # held \/ a.op = "hset"
      <4>1. CASE held = RT!Nothing
        BY <3>7, <4>1
      <4>2. CASE held # RT!Nothing
        BY <1>6, <2>7, <3>3, <3>5, <4>2, HeldKinds
      <4> QED
        BY <4>1, <4>2
    <3>9. w.kind = "batch" <=> RT!Synced(a, held, out)
      <4>1. RT!Status("WrongType") = Status("WrongType")
        BY SameNames
      <4> QED
        BY <2>10, <3>3, <3>8, <4>1 DEF RT!Synced
    <3>10. w.kind # "delete"
      BY <3>3
    <3>11. WritesOnly(w, k, t)
      BY <1>1, <1>5, <2>2, <2>3, <2>12, <3>1, CollectionKeepsOrder DEF KeepsOrder
    <3>12. n[MetaKey(k)].type # "String"
      BY <1>6, <3>4 DEF CollectionTypes
    <3>13. StringsTimed(m) => StringsTimed(n)
      BY <3>2, <3>11, <3>12, TimedKept
    <3> QED
      BY <1>1, <1>2, <1>3, <1>4, <2>10, <2>12, <3>1, <3>2, <3>6, <3>7, <3>9, <3>10, <3>13
      DEF Delivers
  <2> QED
    BY <2>11, <2>12
<1> QED
  BY <1>7, <1>8

(* The answer of a command that only reads does not depend on the version  *)
(* it would give a new collection.                                         *)
LEMMA ReadersAnyTime ==
  ASSUME NEW a \in Commands, a.op \in {"hget", "sismember", "zscore"}, NEW old \in Nat,
         Consistent(store, old)
  PROVE  DecisionOf(a, old, FALSE) = DecisionOf(a, old + 1, FALSE)
<1>1. PICK k \in Keys : k = a.key
  BY CommandFields
<1>2. PICK type \in CollectionTypes : type = TypeOf(a.op)
  BY DEF TypeOf, CollectionTypes
<1>3. CASE WrongType(k, type)
  BY <1>1, <1>2, <1>3 DEF DecisionOf
<1>4. CASE ~WrongType(k, type)
  <2>1. PICK meta : meta = FindMetadata(k, type, old)
    OBVIOUS
  <2>2. PICK next : next = FindMetadata(k, type, old + 1)
    OBVIOUS
  <2>3. /\ DecisionOf(a, old, FALSE) = CollectionDecision(a, meta, FALSE)
        /\ DecisionOf(a, old + 1, FALSE) = CollectionDecision(a, next, FALSE)
    BY <1>1, <1>2, <1>4, <2>1, <2>2 DEF DecisionOf
  <2>4. CASE MetaKey(k) \in DOMAIN store
    <3>1. HasMeta(store, k)
      BY <1>4, <2>4 DEF HasMeta, WrongType, CollectionTypes
    <3>2. store[MetaKey(k)].expire = 0
      BY <3>1, StoredMetadata DEF MetadataType
    <3>3. meta = next
      BY <2>1, <2>2, <2>4, <3>2 DEF FindMetadata
    <3> QED
      BY <2>3, <3>3
  <2>5. CASE MetaKey(k) \notin DOMAIN store
    <3>1. meta.size = 0 /\ next.size = 0
      BY <2>1, <2>2, <2>5 DEF FindMetadata, FreshMetadata, Metadate
    <3>2. CASE a.op = "hget"
      BY <2>3, <3>1, <3>2 DEF CollectionDecision, Hget
    <3>3. CASE a.op = "sismember"
      <4>1. (meta.size # 0) = FALSE /\ (next.size # 0) = FALSE
        BY <3>1
      <4>2. SIsMember(k, meta, a.field, FALSE) = Say(Flag(FALSE))
        BY <4>1 DEF SIsMember
      <4>3. SIsMember(k, next, a.field, FALSE) = Say(Flag(FALSE))
        BY <4>1 DEF SIsMember
      <4> QED
        BY <1>1, <2>3, <3>3, <4>2, <4>3 DEF CollectionDecision
    <3>4. CASE a.op = "zscore"
      BY <2>3, <3>1, <3>4 DEF CollectionDecision, Zscore
    <3> QED
      BY <3>2, <3>3, <3>4
  <2> QED
    BY <2>4, <2>5
<1> QED
  BY <1>3, <1>4

(* So every command delivers, at the time it reads.                        *)
LEMMA DecisionDelivers ==
  ASSUME NEW a \in Commands, NEW m, NEW old \in Nat, NEW time \in Nat,
         time = IF MayWrite(a) THEN old + 1 ELSE old,
         Consistent(store, old), Consistent(m, old), Covers(m, store), StringsTimed(store)
  PROVE  Delivers(a, m, DecisionOf(a, time, FALSE), time)
<1>1. a.op \in AllOps
  BY CommandFields
<1>2. CASE a.op = "set"
  BY <1>2, SetDelivers
<1>3. CASE a.op = "del"
  BY <1>3, DelDelivers
<1>4. CASE a.op = "type"
  BY <1>4, TypeDelivers
<1>5. CASE a.op = "get"
  BY <1>5, GetDelivers
<1>6. CASE a.op \in {"hget", "sismember", "zscore"}
  <2>1. time = old
    BY <1>6 DEF MayWrite
  <2>2. DecisionOf(a, old, FALSE) = DecisionOf(a, old + 1, FALSE)
    BY <1>6, ReadersAnyTime
  <2>3. Delivers(a, m, DecisionOf(a, old + 1, FALSE), time)
    BY <1>6, CollectionDelivers
  <2> QED
    BY <2>1, <2>2, <2>3
<1>7. CASE a.op \notin {"set", "del", "type", "get", "hget", "sismember", "zscore"}
  <2>1. time = old + 1
    BY <1>7 DEF MayWrite
  <2>2. Delivers(a, m, DecisionOf(a, old + 1, FALSE), time)
    BY <1>7, CollectionDelivers
  <2> QED
    BY <2>1, <2>2
<1> QED
  BY <1>2, <1>3, <1>4, <1>5, <1>6, <1>7

-----------------------------------------------------------------------------
(* A command that is about to write has an answer and a write that deliver *)
(* for the store and for the last image of it, and touches its key only.   *)
Prepared(c) ==
  /\ cmd[c] \in Commands /\ write[c] # NoWrite
  /\ Delivers(cmd[c], store, Decision(write[c], answer[c]), now)
  /\ Delivers(cmd[c], Last(images), Decision(write[c], answer[c]), now)
  /\ WritesOnly(write[c], cmd[c].key, now)

RefinementInv ==
  /\ StringsTimed(store) /\ \A n \in DOMAIN images : StringsTimed(images[n])
  /\ DOMAIN answer = Clients
  /\ \A c \in Clients : pc[c] = "write" => Prepared(c)
  /\ \A c \in Clients : pc[c] = "done" => answer[c] # NoReply

(* The other three variables of the promise.                               *)
Kept == [k \in Keys |-> HeldIn(Last(images), k)]
Recoverable == [k \in Keys |-> {HeldIn(images[n], k) : n \in DOMAIN images}]

(* How the mapped variables change when the code's do.                     *)
LEMMA HeldNowChanges ==
  ASSUME NEW k \in Keys, NEW v, HeldIn(store', k) = v,
         \A j \in Keys : j # k => HeldIn(store', j) = HeldIn(store, j)
  PROVE  HeldNow' = [HeldNow EXCEPT ![k] = v]
BY DEF HeldNow

LEMMA AskedChanges ==
  ASSUME NEW c \in Clients, NEW v,
         \A e \in Clients : e # c => pc'[e] = pc[e] /\ cmd'[e] = cmd[e],
         v = IF pc'[c] \in {"read", "write"} THEN cmd'[c] ELSE NoCall
  PROVE  Asked' = [Asked EXCEPT ![c] = v]
BY DEF Asked

LEMMA AnsweredChanges ==
  ASSUME NEW c \in Clients, NEW v,
         \A e \in Clients : e # c => pc'[e] = pc[e] /\ answer'[e] = answer[e],
         v = IF pc'[c] = "done" THEN answer'[c] ELSE NoReply
  PROVE  Answered' = [Answered EXCEPT ![c] = v]
BY DEF Answered

LEMMA EngineSame ==
  ASSUME store' = store, images' = images
  PROVE  HeldNow' = HeldNow /\ Kept' = Kept /\ Recoverable' = Recoverable
BY DEF HeldNow, Kept, Recoverable

(* Steps of the promise, in these terms.                                   *)
LEMMA CallStep ==
  ASSUME NEW c \in Clients, NEW a \in Commands, Asked[c] = NoCall, Answered[c] = NoReply,
         Asked' = [Asked EXCEPT ![c] = a], Answered' = Answered, now' = now,
         HeldNow' = HeldNow, Kept' = Kept, Recoverable' = Recoverable
  PROVE  RT!Call(c, a)
BY DEF RT!Call, RT!NoCall, RT!NoReply, RT!Status, NoCall, NoReply, Status, Kept, Recoverable

DoesAs(c, a, k, out) ==
  /\ a = Asked[c] /\ a # NoCall /\ k = a.key
  /\ out = RT!OutcomeOf(a, HeldNow[k], now') /\ now' >= now
  /\ HeldNow' = [HeldNow EXCEPT ![k] = out.next]
  /\ Kept' = IF a.op = "del" \/ out.next = HeldNow[k] THEN Kept
             ELSE [Kept EXCEPT ![k] = out.next]
  /\ Recoverable' = IF RT!Synced(a, HeldNow[k], out) THEN [j \in Keys |-> {Kept'[j]}]
                    ELSE [Recoverable EXCEPT ![k] = @ \cup {Kept'[k]}]
  /\ Asked' = [Asked EXCEPT ![c] = NoCall]
  /\ Answered' = [Answered EXCEPT ![c] = out.reply]

LEMMA DoStep ==
  ASSUME NEW c \in Clients, NEW a, NEW k \in Keys, NEW out, DoesAs(c, a, k, out)
  PROVE  RT!Do(c)
BY DEF DoesAs, RT!Do, RT!NoCall, NoCall, Kept, Recoverable

LEMMA FailStep ==
  ASSUME NEW c \in Clients, Failures # {}, Asked[c] # NoCall, now' >= now,
         HeldNow' = HeldNow, Kept' = Kept, Recoverable' = Recoverable,
         Asked' = [Asked EXCEPT ![c] = NoCall],
         Answered' = [Answered EXCEPT ![c] = Status("Error")]
  PROVE  RT!Fail(c)
BY DEF RT!Fail, RT!NoCall, NoCall, RT!Status, Status, Kept, Recoverable

LEMMA ReturnStep ==
  ASSUME NEW c \in Clients, Answered[c] # NoReply, Answered' = [Answered EXCEPT ![c] = NoReply],
         Asked' = Asked, now' = now,
         HeldNow' = HeldNow, Kept' = Kept, Recoverable' = Recoverable
  PROVE  RT!Return(c)
BY DEF RT!Return, RT!NoReply, RT!Status, NoReply, Status, Kept, Recoverable

LEMMA TickStep ==
  ASSUME now' > now, HeldNow' = HeldNow, Kept' = Kept, Recoverable' = Recoverable,
         Asked' = Asked, Answered' = Answered
  PROVE  RT!Tick
BY DEF RT!Tick, Kept, Recoverable

-----------------------------------------------------------------------------
(* A handler takes a command: the client has called.                       *)
LEMMA HandleRefines ==
  ASSUME RedisInv, RefinementInv, NEW c \in Clients, NEW a \in Commands, Handle(c, a)
  PROVE  RefinementInv' /\ RT!RedisTypesNext
<1>1. /\ store' = store /\ images' = images /\ now' = now /\ write' = write
      /\ answer' = answer /\ lock = NoClient /\ pc[c] = "idle"
      /\ pc' = [pc EXCEPT ![c] = "read"] /\ cmd' = [cmd EXCEPT ![c] = a]
  BY DEF Handle, Goto, Lock, engineVars
<1>2. pc \in [Clients -> {"idle", "read", "write", "done"}] /\ DOMAIN cmd = Clients
  BY DEF RedisInv, RedisTypeOK
<1>3. \A e \in Clients : e # c => pc[e] = "idle" /\ pc'[e] = pc[e] /\ cmd'[e] = cmd[e]
  BY <1>1, <1>2, OthersIdle
<1>4. pc'[c] = "read" /\ cmd'[c] = a
  BY <1>1, <1>2
<1>5. RefinementInv'
  <2>1. \A e \in Clients : pc'[e] # "write" /\ pc'[e] # "done"
    BY <1>3, <1>4
  <2> QED
    BY <1>1, <2>1 DEF RefinementInv
<1>6. HeldNow' = HeldNow /\ Kept' = Kept /\ Recoverable' = Recoverable
  BY <1>1, EngineSame
<1>7. Asked' = [Asked EXCEPT ![c] = a]
  BY <1>3, <1>4, AskedChanges
<1>8. Answered' = Answered
  BY <1>1, <1>3, <1>4 DEF Answered
<1>9. Asked[c] = NoCall /\ Answered[c] = NoReply
  BY <1>1 DEF Asked, Answered
<1>10. RT!Call(c, a)
  BY <1>1, <1>6, <1>7, <1>8, <1>9, CallStep
<1> QED
  BY <1>5, <1>10, SameCommands DEF RT!RedisTypesNext

(* The answer goes out.                                                    *)
LEMMA ReplyRefines ==
  ASSUME RedisInv, RefinementInv, NEW c \in Clients, Reply(c)
  PROVE  RefinementInv' /\ RT!RedisTypesNext
<1>1. /\ store' = store /\ images' = images /\ now' = now /\ write' = write
      /\ answer' = [answer EXCEPT ![c] = NoReply] /\ pc[c] = "done"
      /\ pc' = [pc EXCEPT ![c] = "idle"] /\ cmd' = [cmd EXCEPT ![c] = NoCall]
  BY DEF Reply, Goto, engineVars
<1>2. /\ pc \in [Clients -> {"idle", "read", "write", "done"}] /\ DOMAIN cmd = Clients
      /\ DOMAIN answer = Clients
  BY DEF RedisInv, RedisTypeOK, RefinementInv
<1>3. lock = c
  BY <1>1 DEF RedisInv, OneCommand
<1>4. \A e \in Clients : e # c => /\ pc[e] = "idle" /\ pc'[e] = pc[e] /\ cmd'[e] = cmd[e]
                                  /\ answer'[e] = answer[e]
  BY <1>1, <1>2, <1>3, OthersIdle
<1>5. pc'[c] = "idle"
  BY <1>1, <1>2
<1>6. RefinementInv'
  <2>1. \A e \in Clients : pc'[e] # "write" /\ pc'[e] # "done"
    BY <1>4, <1>5
  <2>2. DOMAIN answer' = Clients
    BY <1>1, <1>2
  <2> QED
    BY <1>1, <2>1, <2>2 DEF RefinementInv
<1>7. HeldNow' = HeldNow /\ Kept' = Kept /\ Recoverable' = Recoverable
  BY <1>1, EngineSame
<1>8. Answered' = [Answered EXCEPT ![c] = NoReply]
  BY <1>4, <1>5, AnsweredChanges
<1>9. Asked' = Asked
  BY <1>1, <1>4, <1>5 DEF Asked
<1>10. Answered[c] # NoReply
  BY <1>1 DEF Answered, RefinementInv
<1>11. RT!Return(c)
  BY <1>1, <1>7, <1>8, <1>9, <1>10, ReturnStep
<1> QED
  BY <1>6, <1>11 DEF RT!RedisTypesNext

(* A command reads.  If it writes nothing or has failed it is done, and    *)
(* otherwise only the clock has moved so far.                              *)
LEMMA NoCallIsNoCommand == NoCall \notin Commands
<1>1. NoCall.op \notin AllOps
  BY DEF NoCall, AllOps
<1> QED
  BY <1>1, CommandFields

LEMMA ReadRefines ==
  ASSUME RedisInv, RefinementInv, NEW c \in Clients,
         NEW out \in {"ok", "meta"}, out # "ok" => Failures # {}, Read(c, out)
  PROVE  RefinementInv' /\ RT!RedisTypesNext
<1>1. PICK a : a = cmd[c]
  OBVIOUS
<1>2. PICK time : time = IF MayWrite(a) THEN now + 1 ELSE now
  OBVIOUS
<1>3. PICK d : d = IF out = "meta" THEN Say(Status("Error")) ELSE DecisionOf(a, time, FALSE)
  OBVIOUS
<1>4. /\ store' = store /\ images' = images /\ cmd' = cmd /\ now' = time /\ pc[c] = "read"
      /\ pc' = [pc EXCEPT ![c] = IF d.write = NoWrite THEN "done" ELSE "write"]
      /\ write' = [write EXCEPT ![c] = d.write]
      /\ answer' = [answer EXCEPT ![c] = d.reply]
  <2>1. out # "lookup"
    OBVIOUS
  <2>2. (out = "lookup") = FALSE
    BY <2>1
  <2> QED
    BY <1>1, <1>2, <1>3, <2>2 DEF Read, Goto, engineVars
<1>5. /\ pc \in [Clients -> {"idle", "read", "write", "done"}] /\ DOMAIN cmd = Clients
      /\ DOMAIN answer = Clients /\ DOMAIN write = Clients
  BY DEF RedisInv, RedisTypeOK, RefinementInv
<1>6. lock = c /\ a \in Commands
  BY <1>1, <1>4 DEF RedisInv, OneCommand
<1>7. PICK k \in Keys : k = a.key
  BY <1>6, CommandFields
<1>8. PICK old \in Nat : old = now
  BY Counters
<1>9. time \in Nat /\ old <= time
  BY <1>2, <1>8
<1>10. PICK last : last = Last(images)
  OBVIOUS
<1>11. /\ Consistent(store, old) /\ Consistent(last, old) /\ Covers(last, store)
       /\ Covers(store, store) /\ StringsTimed(store)
  <2>1. Covers(store, store)
    BY DEF Covers
  <2> QED
    BY <1>8, <1>10, <2>1, LastImage DEF RedisInv, ImagesConsistent, RefinementInv
<1>12. \A e \in Clients : e # c => /\ pc[e] = "idle" /\ pc'[e] = pc[e] /\ cmd'[e] = cmd[e]
                                   /\ answer'[e] = answer[e]
  BY <1>4, <1>5, <1>6, OthersIdle
<1>13. /\ pc'[c] = (IF d.write = NoWrite THEN "done" ELSE "write")
       /\ write'[c] = d.write /\ answer'[c] = d.reply /\ cmd'[c] = a
  BY <1>1, <1>4, <1>5
<1>14. Asked[c] = a /\ a # NoCall
  BY <1>1, <1>4, <1>6, NoCallIsNoCommand DEF Asked
<1>15. HeldNow' = HeldNow /\ Kept' = Kept /\ Recoverable' = Recoverable
  BY <1>4, EngineSame
<1>16. CASE out = "meta"
  <2>1. d.write = NoWrite /\ d.reply = Status("Error") /\ d.reply # NoReply
    <3>1. d.write = NoWrite /\ d.reply = Status("Error")
      BY <1>3, <1>16 DEF Say, Decision
    <3> QED
      BY <3>1, RepliesDiffer
  <2>2. RefinementInv'
    <3>1. \A e \in Clients : pc'[e] # "write" /\ (pc'[e] = "done" => answer'[e] # NoReply)
      BY <1>12, <1>13, <2>1
    <3>2. DOMAIN answer' = Clients
      BY <1>4, <1>5
    <3> QED
      BY <1>4, <3>1, <3>2 DEF RefinementInv
  <2>3. Asked' = [Asked EXCEPT ![c] = NoCall]
    BY <1>12, <1>13, <2>1, AskedChanges
  <2>4. Answered' = [Answered EXCEPT ![c] = Status("Error")]
    BY <1>12, <1>13, <2>1, AnsweredChanges
  <2>5. now' >= now
    BY <1>4, <1>8, <1>9
  <2>6. RT!Fail(c)
    BY <1>14, <1>15, <1>16, <2>3, <2>4, <2>5, FailStep
  <2> QED
    BY <2>2, <2>6 DEF RT!RedisTypesNext
<1>17. CASE out = "ok"
  <2>1. d = DecisionOf(a, time, FALSE)
    BY <1>3, <1>17
  <2>2. Delivers(a, store, d, time) /\ Delivers(a, last, d, time)
    BY <1>2, <1>6, <1>8, <1>9, <1>11, <2>1, DecisionDelivers
  <2>3. PICK held : held = HeldIn(store, k)
    OBVIOUS
  <2>4. PICK res : res = RT!OutcomeOf(a, held, time)
    OBVIOUS
  <2>5. d.reply = res.reply /\ d.reply # NoReply
    BY <1>7, <2>2, <2>3, <2>4 DEF Delivers
  <2>6. CASE d.write = NoWrite
    <3>1. res.next = held /\ ~RT!Synced(a, held, res)
      BY <1>7, <2>2, <2>3, <2>4, <2>6 DEF Delivers
    <3>2. RefinementInv'
      <4>1. \A e \in Clients : pc'[e] # "write" /\ (pc'[e] = "done" => answer'[e] # NoReply)
        BY <1>12, <1>13, <2>5, <2>6
      <4>2. DOMAIN answer' = Clients
        BY <1>4, <1>5
      <4> QED
        BY <1>4, <4>1, <4>2 DEF RefinementInv
    <3>3. Asked' = [Asked EXCEPT ![c] = NoCall]
      BY <1>12, <1>13, <2>6, AskedChanges
    <3>4. Answered' = [Answered EXCEPT ![c] = res.reply]
      BY <1>12, <1>13, <2>5, <2>6, AnsweredChanges
    <3>5. now' >= now
      BY <1>4, <1>8, <1>9
    <3>6. HeldNow[k] = held
      BY <2>3 DEF HeldNow
    <3>7. HeldNow' = [HeldNow EXCEPT ![k] = res.next]
      BY <1>15, <3>1, <3>6 DEF HeldNow
    <3>8. Recoverable' = [Recoverable EXCEPT ![k] = @ \cup {Kept'[k]}]
      <4>1. Kept[k] = HeldIn(images[Len(images)], k) /\ Len(images) \in DOMAIN images
        BY LastImage DEF Kept, RedisInv, ImagesConsistent
      <4>2. Kept[k] \in Recoverable[k]
        BY <4>1 DEF Recoverable
      <4>3. Recoverable[k] \cup {Kept'[k]} = Recoverable[k]
        BY <1>15, <4>2
      <4> QED
        BY <1>15, <4>3 DEF Recoverable
    <3>9. res = RT!OutcomeOf(a, HeldNow[k], now')
      BY <1>4, <2>4, <3>6
    <3>10. Kept' = IF a.op = "del" \/ res.next = HeldNow[k] THEN Kept
                   ELSE [Kept EXCEPT ![k] = res.next]
      BY <1>15, <3>1, <3>6
    <3>11. Recoverable' = IF RT!Synced(a, HeldNow[k], res) THEN [j \in Keys |-> {Kept'[j]}]
                          ELSE [Recoverable EXCEPT ![k] = @ \cup {Kept'[k]}]
      BY <3>1, <3>6, <3>8
    <3>12. DoesAs(c, a, k, res)
      BY <1>7, <1>14, <3>3, <3>4, <3>5, <3>7, <3>9, <3>10, <3>11 DEF DoesAs
    <3>13. RT!Do(c)
      BY <3>12, DoStep
    <3> QED
      BY <3>2, <3>13 DEF RT!RedisTypesNext
  <2>7. CASE d.write # NoWrite
    <3>1. MayWrite(a)
      BY <1>6, <2>1, <2>7, ReadersWriteNothing
    <3>2. time = old + 1 /\ now' > now
      BY <1>2, <1>4, <1>8, <3>1
    <3>3. WritesOnly(d.write, k, time)
      BY <1>6, <1>7, <1>11, <2>1, <2>7, <3>1, <3>2, DecisionKeepsOrder DEF KeepsOrder
    <3>4. Decision(d.write, d.reply).write = d.write /\ Decision(d.write, d.reply).reply = d.reply
      BY DEF Decision
    <3>5. /\ Delivers(a, store, Decision(d.write, d.reply), time)
          /\ Delivers(a, last, Decision(d.write, d.reply), time)
      BY <2>2, <3>4 DEF Delivers
    <3>6. Prepared(c)'
      BY <1>4, <1>6, <1>7, <1>10, <1>13, <2>7, <3>3, <3>5 DEF Prepared, Delivers
    <3>7. RefinementInv'
      <4>1. \A e \in Clients : pc'[e] # "done" /\ (pc'[e] = "write" => Prepared(e)')
        BY <1>12, <1>13, <2>7, <3>6
      <4>2. DOMAIN answer' = Clients
        BY <1>4, <1>5
      <4> QED
        BY <1>4, <4>1, <4>2 DEF RefinementInv
    <3>8. Asked' = Asked
      BY <1>1, <1>4, <1>12, <1>13, <2>7 DEF Asked
    <3>9. Answered' = Answered
      BY <1>4, <1>12, <1>13, <2>7 DEF Answered
    <3>10. RT!Tick
      BY <1>15, <3>2, <3>8, <3>9, TickStep
    <3> QED
      BY <3>7, <3>10 DEF RT!RedisTypesNext
  <2> QED
    BY <2>6, <2>7
<1> QED
  BY <1>16, <1>17

-----------------------------------------------------------------------------
(* A command writes: what the promise says of it has happened, to the      *)
(* store and to what a restart may find.  A write that fails has no effect.*)
LEMMA FailedCommitRefines ==
  ASSUME RedisInv, RefinementInv, NEW c \in Clients, Failures # {}, Commit(c, "write")
  PROVE  RefinementInv' /\ RT!RedisTypesNext
<1>1. /\ store' = store /\ images' = images /\ now' = now /\ cmd' = cmd /\ pc[c] = "write"
      /\ pc' = [pc EXCEPT ![c] = "done"] /\ answer' = [answer EXCEPT ![c] = Status("Error")]
  BY DEF Commit, Goto
<1>2. /\ pc \in [Clients -> {"idle", "read", "write", "done"}] /\ DOMAIN cmd = Clients
      /\ DOMAIN answer = Clients
  BY DEF RedisInv, RedisTypeOK, RefinementInv
<1>3. lock = c /\ cmd[c] \in Commands
  BY <1>1 DEF RedisInv, OneCommand, RefinementInv, Prepared
<1>4. \A e \in Clients : e # c => /\ pc[e] = "idle" /\ pc'[e] = pc[e] /\ cmd'[e] = cmd[e]
                                  /\ answer'[e] = answer[e]
  BY <1>1, <1>2, <1>3, OthersIdle
<1>5. pc'[c] = "done" /\ answer'[c] = Status("Error") /\ answer'[c] # NoReply
  <2>1. pc'[c] = "done" /\ answer'[c] = Status("Error")
    BY <1>1, <1>2
  <2> QED
    BY <2>1, RepliesDiffer
<1>6. RefinementInv'
  <2>1. \A e \in Clients : pc'[e] # "write" /\ (pc'[e] = "done" => answer'[e] # NoReply)
    BY <1>4, <1>5
  <2>2. DOMAIN answer' = Clients
    BY <1>1, <1>2
  <2> QED
    BY <1>1, <2>1, <2>2 DEF RefinementInv
<1>7. HeldNow' = HeldNow /\ Kept' = Kept /\ Recoverable' = Recoverable
  BY <1>1, EngineSame
<1>8. Asked' = [Asked EXCEPT ![c] = NoCall]
  BY <1>4, <1>5, AskedChanges
<1>9. Answered' = [Answered EXCEPT ![c] = Status("Error")]
  BY <1>4, <1>5, AnsweredChanges
<1>10. Asked[c] # NoCall
  BY <1>1, <1>3, NoCallIsNoCommand DEF Asked
<1>11. now' >= now
  BY <1>1, Counters
<1>12. RT!Fail(c)
  BY <1>7, <1>8, <1>9, <1>10, <1>11, FailStep
<1> QED
  BY <1>6, <1>12 DEF RT!RedisTypesNext

LEMMA CommitRefines ==
  ASSUME TombstonesHarmless, RedisInv, RefinementInv, NEW c \in Clients, Commit(c, "ok")
  PROVE  RefinementInv' /\ RT!RedisTypesNext
<1>1. PICK w : w = write[c]
  OBVIOUS
<1>2. PICK last : last = Last(images)
  OBVIOUS
<1>3. PICK r : r = Replayed(last, w)
  OBVIOUS
<1>4. PICK a : a = cmd[c]
  OBVIOUS
<1>5. /\ pc[c] = "write" /\ pc' = [pc EXCEPT ![c] = "done"]
      /\ store' = Applied(store, w)
      /\ images' = (IF w.kind = "batch" THEN <<r>> ELSE Append(images, r))
      /\ answer' = answer /\ cmd' = cmd /\ now' = now
  BY <1>1, <1>2, <1>3 DEF Commit, Goto
<1>6. /\ pc \in [Clients -> {"idle", "read", "write", "done"}] /\ DOMAIN cmd = Clients
      /\ DOMAIN answer = Clients
  BY DEF RedisInv, RedisTypeOK, RefinementInv
<1>7. /\ lock = c /\ a \in Commands /\ w # NoWrite
      /\ Delivers(a, store, Decision(w, answer[c]), now)
      /\ Delivers(a, last, Decision(w, answer[c]), now)
      /\ WritesOnly(w, a.key, now)
  BY <1>1, <1>2, <1>4, <1>5 DEF RedisInv, OneCommand, RefinementInv, Prepared
<1>8. PICK k \in Keys : k = a.key
  BY <1>7, CommandFields
<1>9. PICK held : held = HeldIn(store, k)
  OBVIOUS
<1>10. PICK res : res = RT!OutcomeOf(a, held, now)
  OBVIOUS
<1>11. Decision(w, answer[c]).write = w /\ Decision(w, answer[c]).reply = answer[c]
  BY DEF Decision
<1>12. /\ answer[c] = res.reply /\ answer[c] # NoReply
       /\ HeldIn(Applied(store, w), k) = res.next
       /\ w.kind = "delete" <=> a.op = "del"
       /\ w.kind = "batch" <=> RT!Synced(a, held, res)
       /\ a.op # "del" => res.next # RT!Nothing
       /\ StringsTimed(store) => StringsTimed(Applied(store, w))
  BY <1>7, <1>8, <1>9, <1>10, <1>11 DEF Delivers
<1>13. /\ HeldIn(Applied(last, w), k) = res.next
       /\ StringsTimed(last) => StringsTimed(Applied(last, w))
  BY <1>7, <1>8, <1>9, <1>10, <1>11 DEF Delivers
<1>14. /\ images \in Seq(Range(images)) /\ images # <<>>
       /\ Consistent(store, now) /\ Consistent(last, now) /\ Covers(last, store)
       /\ StringsTimed(store) /\ StringsTimed(last)
       /\ \A n \in DOMAIN images : StringsTimed(images[n])
       /\ last = images[Len(images)] /\ Len(images) \in DOMAIN images
  BY <1>2, LastImage DEF RedisInv, ImagesConsistent, RefinementInv
<1>15. \A e \in Clients : e # c => /\ pc[e] = "idle" /\ pc'[e] = pc[e] /\ cmd'[e] = cmd[e]
                                   /\ answer'[e] = answer[e]
  BY <1>5, <1>6, <1>7, OthersIdle
<1>16. pc'[c] = "done" /\ answer'[c] = res.reply
  BY <1>5, <1>6, <1>12
<1>17. /\ w.kind = "delete" => r = last
       /\ w.kind # "delete" => r = Applied(last, w)
  BY <1>3, PlainReplay
<1>18. /\ images' # <<>> /\ Last(images') = r
       /\ \A n \in DOMAIN images' : images'[n] = r \/ (n \in DOMAIN images /\ images'[n] = images[n])
  <2>1. CASE w.kind = "batch"
    <3>1. DOMAIN <<r>> = {1} /\ <<r>>[1] = r /\ <<r>> # <<>> /\ Last(<<r>>) = r
      BY DEF Last
    <3> QED
      BY <1>5, <2>1, <3>1
  <2>2. CASE w.kind # "batch"
    BY <1>5, <1>14, <2>2, AppendImage
  <2> QED
    BY <2>1, <2>2
<1>19. RefinementInv'
  <2>1. \A e \in Clients : pc'[e] # "write" /\ (pc'[e] = "done" => answer'[e] # NoReply)
    BY <1>12, <1>15, <1>16
  <2>2. StringsTimed(r)
    BY <1>13, <1>14, <1>17
  <2>3. \A n \in DOMAIN images' : StringsTimed(images'[n])
    BY <1>14, <1>18, <2>2
  <2> QED
    BY <1>5, <1>6, <1>12, <1>14, <2>1, <2>3 DEF RefinementInv
<1>20. ASSUME NEW j \in Keys, j # k
       PROVE  HeldIn(store', j) = HeldIn(store, j) /\ HeldIn(r, j) = HeldIn(last, j)
  <2>1. HeldIn(Applied(store, w), j) = HeldIn(store, j)
    BY <1>7, <1>8, <1>14, <1>20, OthersHeld
  <2>2. HeldIn(Applied(last, w), j) = HeldIn(last, j)
    BY <1>7, <1>8, <1>14, <1>20, OthersHeld
  <2> QED
    BY <1>5, <1>17, <2>1, <2>2
<1>21. HeldNow' = [HeldNow EXCEPT ![k] = res.next] /\ HeldNow[k] = held
  <2>1. HeldIn(store', k) = res.next
    BY <1>5, <1>12
  <2>2. HeldNow' = [HeldNow EXCEPT ![k] = res.next]
    BY <1>20, <2>1, HeldNowChanges
  <2> QED
    BY <1>9, <2>2 DEF HeldNow
<1>22. \A j \in Keys : Kept'[j] = HeldIn(r, j) /\ Kept[j] = HeldIn(last, j)
  BY <1>2, <1>18 DEF Kept
<1>23. Kept' = IF a.op = "del" \/ res.next = HeldNow[k] THEN Kept
               ELSE [Kept EXCEPT ![k] = res.next]
  <2>1. CASE a.op = "del"
    <3>1. Kept' = Kept
      BY <1>2, <1>12, <1>17, <1>18, <2>1 DEF Kept
    <3> QED
      BY <2>1, <3>1
  <2>2. CASE a.op # "del"
    <3>1. HeldIn(r, k) = res.next
      BY <1>12, <1>13, <1>17, <2>2
    <3>2. Kept' = [Kept EXCEPT ![k] = res.next]
      BY <1>2, <1>18, <1>20, <3>1 DEF Kept
    <3>3. ASSUME res.next = HeldNow[k]
          PROVE  Kept' = Kept
      <4>1. held # RT!Nothing
        BY <1>12, <1>21, <2>2, <3>3
      <4>2. MetaKey(k) \in DOMAIN store
        BY <1>9, <4>1, HeldOther
      <4>3. HeldIn(last, k) = held
        BY <1>9, <1>14, <4>2, HeldCovered
      <4>4. Kept[k] = res.next
        BY <1>21, <1>22, <3>3, <4>3
      <4> QED
        BY <3>2, <4>4 DEF Kept
    <3> QED
      BY <2>2, <3>2, <3>3
  <2> QED
    BY <2>1, <2>2
<1>24. Recoverable' = IF RT!Synced(a, HeldNow[k], res) THEN [j \in Keys |-> {Kept'[j]}]
                      ELSE [Recoverable EXCEPT ![k] = @ \cup {Kept'[k]}]
  <2>1. CASE w.kind = "batch"
    <3>1. DOMAIN images' = {1} /\ images'[1] = r
      BY <1>5, <2>1
    <3>2. \A j \in Keys : Recoverable'[j] = {HeldIn(r, j)}
      BY <3>1 DEF Recoverable
    <3>3. Recoverable' = [j \in Keys |-> {Kept'[j]}]
      BY <1>22, <3>2 DEF Recoverable
    <3> QED
      BY <1>12, <1>21, <2>1, <3>3
  <2>2. CASE w.kind # "batch"
    <3>1. ASSUME NEW j \in Keys
          PROVE  Recoverable'[j] = Recoverable[j] \cup {HeldIn(r, j)}
      <4>1. PICK L \in Nat : DOMAIN images = 1..L /\ DOMAIN images' = 1..L + 1 /\ images'[L + 1] = r
                             /\ \A n \in 1..L : images'[n] = images[n]
        <5>1. images' = Append(images, r)
          BY <1>5, <2>2
        <5>2. PICK S : S = Range(images) \cup {r}
          OBVIOUS
        <5>3. images \in Seq(S) /\ r \in S
          BY <1>14, <5>2
        <5>4. PICK L \in Nat : L = Len(images)
          BY <5>3
        <5> QED
          BY <5>1, <5>3, <5>4
      <4>2. Recoverable[j] = {HeldIn(images[n], j) : n \in 1..L}
        BY <4>1 DEF Recoverable
      <4>3. Recoverable'[j] = {HeldIn(images'[n], j) : n \in 1..L + 1}
        BY <4>1 DEF Recoverable
      <4>4. \A n : n \in 1..L + 1 <=> n \in 1..L \/ n = L + 1
        OBVIOUS
      <4> QED
        BY <4>1, <4>2, <4>3, <4>4
    <3>2. ASSUME NEW j \in Keys, j # k
          PROVE  Recoverable'[j] = Recoverable[j]
      <4>1. HeldIn(r, j) = HeldIn(images[Len(images)], j)
        BY <1>14, <1>20, <3>2
      <4>2. HeldIn(r, j) \in Recoverable[j]
        BY <1>14, <4>1 DEF Recoverable
      <4> QED
        BY <3>1, <4>2
    <3>3. Recoverable'[k] = Recoverable[k] \cup {Kept'[k]}
      BY <1>22, <3>1
    <3>4. Recoverable' = [Recoverable EXCEPT ![k] = @ \cup {Kept'[k]}]
      BY <3>2, <3>3 DEF Recoverable
    <3> QED
      BY <1>12, <1>21, <2>2, <3>4
  <2> QED
    BY <2>1, <2>2
<1>25. Asked' = [Asked EXCEPT ![c] = NoCall]
  BY <1>15, <1>16, AskedChanges
<1>26. Answered' = [Answered EXCEPT ![c] = res.reply]
  BY <1>15, <1>16, AnsweredChanges
<1>27. Asked[c] = a /\ a # NoCall
  BY <1>4, <1>5, <1>7, NoCallIsNoCommand DEF Asked
<1>28. now' >= now
  BY <1>5, Counters
<1>29. res = RT!OutcomeOf(a, HeldNow[k], now')
  BY <1>5, <1>10, <1>21
<1>30. HeldNow' = [HeldNow EXCEPT ![k] = res.next]
  BY <1>21
<1>31. DoesAs(c, a, k, res)
  BY <1>8, <1>23, <1>24, <1>25, <1>26, <1>27, <1>28, <1>29, <1>30 DEF DoesAs
<1>32. RT!Do(c)
  BY <1>31, DoStep
<1> QED
  BY <1>19, <1>32 DEF RT!RedisTypesNext

-----------------------------------------------------------------------------
(* A restart finds every key as one of the images has it.                  *)
LEMMA RestartStep ==
  ASSUME \A k \in Keys : /\ HeldNow'[k] \in Recoverable[k] /\ Kept'[k] = HeldNow'[k]
                         /\ HeldNow'[k] \in Recoverable'[k]
                         /\ Recoverable'[k] \subseteq Recoverable[k],
         Asked' = [c \in Clients |-> NoCall], Answered' = [c \in Clients |-> NoReply],
         now' = now
  PROVE  RT!Restart
BY DEF RT!Restart, RT!NoCall, NoCall, RT!NoReply, NoReply, RT!Status, Status, Kept, Recoverable

LEMMA RestartRefines ==
  ASSUME RedisInv, RefinementInv, ServerRestart
  PROVE  RefinementInv' /\ RT!RedisTypesNext
<1>1. PICK n \in DOMAIN images : store' = images[n] /\ images' = SubSeq(images, 1, n)
  BY DEF ServerRestart
<1>2. /\ pc' = [c \in Clients |-> "idle"] /\ answer' = [c \in Clients |-> NoReply]
      /\ now' = now
  BY DEF ServerRestart
<1>3. images \in Seq(Range(images)) /\ \A i \in DOMAIN images : StringsTimed(images[i])
  BY DEF RedisInv, ImagesConsistent, RefinementInv
<1>4. PICK S : S = Range(images)
  OBVIOUS
<1>5. images \in Seq(S)
  BY <1>3, <1>4
<1>6. images' # <<>> /\ images' \in Seq(Range(images')) /\ Last(images') = images[n]
  BY <1>1, <1>5, FirstImages
<1>7. \A i \in DOMAIN images' : i \in DOMAIN images /\ images'[i] = images[i]
  BY <1>1, <1>5, FirstImages
<1>8. RefinementInv'
  <2>1. \A i \in DOMAIN images' : StringsTimed(images'[i])
    BY <1>3, <1>7
  <2>2. StringsTimed(store')
    BY <1>1, <1>3
  <2>3. \A c \in Clients : pc'[c] = "idle"
    BY <1>2
  <2>4. DOMAIN answer' = Clients
    BY <1>2
  <2> QED
    BY <2>1, <2>2, <2>3, <2>4 DEF RefinementInv
<1>9. PICK i \in DOMAIN images' : images'[i] = images[n]
  BY <1>6, LastImage
<1>10. ASSUME NEW k \in Keys
       PROVE  /\ HeldNow'[k] \in Recoverable[k] /\ Kept'[k] = HeldNow'[k]
              /\ HeldNow'[k] \in Recoverable'[k] /\ Recoverable'[k] \subseteq Recoverable[k]
  <2>1. HeldNow'[k] = HeldIn(images[n], k)
    BY <1>1 DEF HeldNow
  <2>2. Kept'[k] = HeldIn(images[n], k)
    BY <1>6 DEF Kept
  <2>3. Recoverable[k] = {HeldIn(images[m], k) : m \in DOMAIN images}
    BY DEF Recoverable
  <2>4. Recoverable'[k] = {HeldIn(images'[m], k) : m \in DOMAIN images'}
    BY DEF Recoverable
  <2>5. HeldNow'[k] \in Recoverable[k]
    BY <2>1, <2>3
  <2>6. HeldNow'[k] \in Recoverable'[k]
    BY <1>9, <2>1, <2>4
  <2>7. Recoverable'[k] \subseteq Recoverable[k]
    BY <1>7, <2>3, <2>4
  <2> QED
    BY <2>1, <2>2, <2>5, <2>6, <2>7
<1>11. Asked' = [c \in Clients |-> NoCall]
  BY <1>2 DEF Asked
<1>12. Answered' = [c \in Clients |-> NoReply]
  BY <1>2 DEF Answered
<1>13. RT!Restart
  BY <1>2, <1>10, <1>11, <1>12, RestartStep
<1> QED
  BY <1>8, <1>13 DEF RT!RedisTypesNext

(* An empty store is one in which no key holds anything.                   *)
LEMMA RedisInitRefines == RedisInit => RefinementInv /\ RT!RedisTypesInit
<1> SUFFICES ASSUME RedisInit PROVE RefinementInv /\ RT!RedisTypesInit
  OBVIOUS
<1>1. /\ store = <<>> /\ images = <<store>> /\ now = 0
      /\ pc = [c \in Clients |-> "idle"] /\ answer = [c \in Clients |-> NoReply]
  BY DEF RedisInit
<1>2. DOMAIN store = {}
  BY <1>1, EmptyDomain
<1>3. /\ DOMAIN images = {1} /\ images[1] = store /\ Last(images) = store
  BY <1>1 DEF Last
<1>4. RefinementInv
  <2>1. StringsTimed(store)
    BY <1>2 DEF StringsTimed
  <2>2. \A c \in Clients : pc[c] = "idle"
    BY <1>1
  <2>3. DOMAIN answer = Clients
    BY <1>1
  <2> QED
    BY <1>3, <2>1, <2>2, <2>3 DEF RefinementInv
<1>5. \A k \in Keys : HeldIn(store, k) = RT!Nothing
  BY <1>2, HeldOther
<1>6. HeldNow = [k \in Keys |-> RT!Nothing]
  BY <1>5 DEF HeldNow
<1>7. Kept = HeldNow
  BY <1>3 DEF HeldNow, Kept
<1>8. Recoverable = [k \in Keys |-> {RT!Nothing}]
  <2>1. \A k \in Keys : {HeldIn(images[n], k) : n \in DOMAIN images} = {RT!Nothing}
    BY <1>3, <1>5
  <2> QED
    BY <2>1 DEF Recoverable
<1>9. Asked = [c \in Clients |-> RT!NoCall] /\ Answered = [c \in Clients |-> RT!NoReply]
  <2>1. Asked = [c \in Clients |-> NoCall] /\ Answered = [c \in Clients |-> NoReply]
    BY <1>1 DEF Asked, Answered
  <2> QED
    BY <2>1, SameNames
<1> QED
  BY <1>1, <1>4, <1>6, <1>7, <1>8, <1>9 DEF RT!RedisTypesInit, Kept, Recoverable

LEMMA RedisStutterRefines ==
  ASSUME RefinementInv, UNCHANGED redisVars
  PROVE  RefinementInv' /\ UNCHANGED RT!redisTypesVars
<1>1. /\ store' = store /\ images' = images /\ pc' = pc /\ cmd' = cmd
      /\ write' = write /\ answer' = answer /\ now' = now
  BY DEF redisVars, engineVars, clientVars
<1>2. \A c \in Clients : Prepared(c)' <=> Prepared(c)
  BY <1>1 DEF Prepared, Delivers
<1>3. RefinementInv'
  BY <1>1, <1>2 DEF RefinementInv
<1>4. HeldNow' = HeldNow /\ Kept' = Kept /\ Recoverable' = Recoverable
  BY <1>1, EngineSame
<1>5. Asked' = Asked /\ Answered' = Answered
  BY <1>1 DEF Asked, Answered
<1> QED
  BY <1>1, <1>3, <1>4, <1>5 DEF RT!redisTypesVars, Kept, Recoverable

(* Every step of the server is a step of the promise or changes nothing    *)
(* that it speaks of.                                                      *)
LEMMA RedisNextRefines ==
  ASSUME Failures \subseteq {"meta", "write"}, TombstonesHarmless, RedisInv, RefinementInv, [RedisNext]_redisVars
  PROVE  RefinementInv' /\ [RT!RedisTypesNext]_(RT!redisTypesVars)
<1>1. ASSUME NEW c \in Clients, NEW a \in Commands, Handle(c, a)
      PROVE  RefinementInv' /\ RT!RedisTypesNext
  BY <1>1, HandleRefines
<1>2. ASSUME NEW c \in Clients,
             NEW out \in {"ok"} \cup (Failures \cap {"meta", "lookup"}), Read(c, out)
      PROVE  RefinementInv' /\ RT!RedisTypesNext
  <2>1. out \in {"ok", "meta"} /\ (out # "ok" => Failures # {})
    OBVIOUS
  <2> QED
    BY <1>2, <2>1, ReadRefines
<1>3. ASSUME NEW c \in Clients,
             NEW out \in {"ok"} \cup (Failures \cap {"write", "sync"}), Commit(c, out)
      PROVE  RefinementInv' /\ RT!RedisTypesNext
  <2>1. out = "ok" \/ (out = "write" /\ Failures # {})
    OBVIOUS
  <2>2. CASE out = "ok"
    BY <1>3, <2>2, CommitRefines
  <2>3. CASE out = "write" /\ Failures # {}
    BY <1>3, <2>3, FailedCommitRefines
  <2> QED
    BY <2>1, <2>2, <2>3
<1>4. ASSUME NEW c \in Clients, Reply(c)
      PROVE  RefinementInv' /\ RT!RedisTypesNext
  BY <1>4, ReplyRefines
<1>5. CASE ServerRestart
  BY <1>5, RestartRefines
<1>6. CASE UNCHANGED redisVars
  BY <1>6, RedisStutterRefines
<1> QED
  BY <1>1, <1>2, <1>3, <1>4, <1>5, <1>6 DEF RedisNext

(* The commands of the layer, over many keys of the engine, behind one     *)
(* mutex and through restarts, act as single steps on whole strings,       *)
(* hashes, sets, lists and sorted sets, answer as those types do, and have *)
(* no effect when they fail, as long as neither the lookup of an entry nor *)
(* a sync fails and no deleted key stands for another key in a replay.     *)
THEOREM RedisImplementsTypes ==
  ASSUME Failures \subseteq {"meta", "write"}, TombstonesHarmless
  PROVE  RedisSpec => ImplementsRedisTypes
<1>1. RedisInit => RefinementInv /\ RT!RedisTypesInit
  BY RedisInitRefines
<1>2. RedisInv /\ RefinementInv /\ [RedisNext]_redisVars
        => RefinementInv' /\ [RT!RedisTypesNext]_(RT!redisTypesVars)
  BY RedisNextRefines
<1>3. RedisSpec => []RedisInv
  BY RedisInvariant
<1> QED
  BY <1>1, <1>2, <1>3, PTL DEF RedisSpec, ImplementsRedisTypes, RT!RedisTypesSpec

==============================================================================
