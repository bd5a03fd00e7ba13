----------------------------- MODULE RedisProofs -----------------------------
(***************************************************************************)
(* Proofs about the Redis layer, for every set of clients, keys, fields,   *)
(* values and scores, through restarts and through failures of metadata    *)
(* reads and of writes.                                                    *)
(***************************************************************************)
EXTENDS Redis, FiniteSetTheorems, SequenceTheorems, TLAPS

(* The key of an entry begins with the key it belongs to and its version.  *)
LEMMA KeyParts ==
  ASSUME NEW k, NEW v, NEW f, NEW s
  PROVE  /\ MetaKey(k)[1] = k /\ Len(MetaKey(k)) = 1
         /\ HashInternalKey(k, v, f)[1] = k /\ HashInternalKey(k, v, f)[2] = v
         /\ Len(HashInternalKey(k, v, f)) = 3
         /\ SetInternalKey(k, v, f)[1] = k /\ SetInternalKey(k, v, f)[2] = v
         /\ Len(SetInternalKey(k, v, f)) = 4
         /\ ListInternalKey(k, v, f)[1] = k /\ ListInternalKey(k, v, f)[2] = v
         /\ Len(ListInternalKey(k, v, f)) = 3
         /\ ZSetMemberKey(k, v, f)[1] = k /\ ZSetMemberKey(k, v, f)[2] = v
         /\ Len(ZSetMemberKey(k, v, f)) = 3
         /\ ZSetScoreKey(k, v, s, f)[1] = k /\ ZSetScoreKey(k, v, s, f)[2] = v
         /\ Len(ZSetScoreKey(k, v, s, f)) = 5
BY DEF MetaKey, HashInternalKey, SetInternalKey, ListInternalKey, ZSetMemberKey, ZSetScoreKey

(* Different entries have different keys.                                  *)
LEMMA KeysDiffer ==
  ASSUME NEW k, NEW v, NEW f, NEW g
  PROVE  /\ ListInternalKey(k, v, f) = ListInternalKey(k, v, g) => f = g
         /\ ZSetMemberKey(k, v, f) = ZSetMemberKey(k, v, g) => f = g
         /\ \A s, r : ZSetScoreKey(k, v, s, f) = ZSetScoreKey(k, v, r, g) => s = r /\ f = g
BY DEF ListInternalKey, ZSetMemberKey, ZSetScoreKey

(* The entries a collection counts are entries of its key and version.     *)
LEMMA EntryKeyParts ==
  ASSUME NEW k, NEW meta \in MetadataType, NEW x \in EntryKeys(k, meta)
  PROVE  x[1] = k /\ x[2] = meta.version /\ Len(x) > 1
<1>1. meta.type \in CollectionTypes
  BY DEF MetadataType
<1>2. \/ \E f : x = HashInternalKey(k, meta.version, f)
      \/ \E f : x = SetInternalKey(k, meta.version, f)
      \/ \E f : x = ZSetMemberKey(k, meta.version, f)
      \/ \E f : x = ListInternalKey(k, meta.version, f)
  BY <1>1 DEF EntryKeys, CollectionTypes
<1>3. CASE \E f : x = HashInternalKey(k, meta.version, f)
  BY <1>3, KeyParts
<1>4. CASE \E f : x = SetInternalKey(k, meta.version, f)
  BY <1>4, KeyParts
<1>5. CASE \E f : x = ZSetMemberKey(k, meta.version, f)
  BY <1>5, KeyParts
<1>6. CASE \E f : x = ListInternalKey(k, meta.version, f)
  BY <1>6, KeyParts
<1> QED
  BY <1>2, <1>3, <1>4, <1>5, <1>6

(* What a map holds after a write of the engine.                           *)
LEMMA AppliedFacts ==
  ASSUME NEW m, NEW w
  PROVE  /\ DOMAIN Applied(m, w) = DOMAIN w.puts \cup (DOMAIN m \ w.dels)
         /\ \A x \in DOMAIN w.puts : Applied(m, w)[x] = w.puts[x]
         /\ \A x \in DOMAIN m \ w.dels : x \notin DOMAIN w.puts => Applied(m, w)[x] = m[x]
BY DEF Applied

(* There is nothing in the empty map.                                      *)
LEMMA EmptyDomain == DOMAIN <<>> = {}
OBVIOUS

-----------------------------------------------------------------------------
(* A write that touches the metadata and the entries of one key only, with *)
(* versions the clock has come to.                                         *)
WritesOnly(w, k, time) ==
  /\ \A x \in DOMAIN w.puts \cup w.dels : x[1] = k
  /\ \A x \in DOMAIN w.puts : Len(x) > 1 => x[2] \in 0..time

(* It leaves every other collection as it was.                             *)
LEMMA OthersUntouched ==
  ASSUME NEW m, NEW w, NEW k, NEW time, WritesOnly(w, k, time),
         NEW j, j # k, HasMeta(Applied(m, w), j)
  PROVE  /\ HasMeta(m, j)
         /\ Applied(m, w)[MetaKey(j)] = m[MetaKey(j)]
         /\ Describes(m, j, m[MetaKey(j)]) => Describes(Applied(m, w), j, m[MetaKey(j)])
<1> DEFINE n == Applied(m, w)
<1>1. ASSUME NEW x, x[1] = j
      PROVE  /\ x \in DOMAIN n <=> x \in DOMAIN m
             /\ x \in DOMAIN m => n[x] = m[x]
  <2>1. x \notin DOMAIN w.puts /\ x \notin w.dels
    BY <1>1 DEF WritesOnly
  <2> HIDE DEF n
  <2>2. /\ DOMAIN n = DOMAIN w.puts \cup (DOMAIN m \ w.dels)
        /\ \A y \in DOMAIN m \ w.dels : y \notin DOMAIN w.puts => n[y] = m[y]
    BY AppliedFacts DEF n
  <2> QED
    BY <2>1, <2>2
<1>2. MetaKey(j) \in DOMAIN m /\ n[MetaKey(j)] = m[MetaKey(j)]
  BY <1>1, KeyParts DEF HasMeta
<1>3. ASSUME Describes(m, j, m[MetaKey(j)])
      PROVE  Describes(n, j, m[MetaKey(j)])
  <2>1. PICK meta \in MetadataType : meta = m[MetaKey(j)]
    BY <1>3 DEF Describes
  <2>2. EntriesIn(n, j, meta) = EntriesIn(m, j, meta)
    BY <1>1, EntryKeyParts DEF EntriesIn
  <2>3. RanksEntries(n, j, meta)
    BY <1>1, <1>3, <2>1, KeyParts DEF Describes, RanksEntries
  <2> QED
    BY <1>3, <2>1, <2>2, <2>3 DEF Describes, CountsEntries
<1> QED
  BY <1>2, <1>3 DEF HasMeta

(* So it keeps a map consistent if it keeps its own collection so.         *)
LEMMA UpdateConsistent ==
  ASSUME NEW m, NEW w, NEW k, NEW old \in Nat, NEW time \in Nat, old <= time,
         Consistent(m, old), WritesOnly(w, k, time),
         HasMeta(Applied(m, w), k) =>
           /\ Describes(Applied(m, w), k, Applied(m, w)[MetaKey(k)])
           /\ Applied(m, w)[MetaKey(k)].version \in 0..time
  PROVE  Consistent(Applied(m, w), time)
<1> DEFINE n == Applied(m, w)
<1>1. ASSUME NEW j \in Keys, HasMeta(n, j)
      PROVE  Describes(n, j, n[MetaKey(j)]) /\ n[MetaKey(j)].version \in 0..time
  <2>1. CASE j = k
    BY <1>1, <2>1
  <2>2. CASE j # k
    <3>1. /\ HasMeta(m, j) /\ n[MetaKey(j)] = m[MetaKey(j)]
          /\ Describes(m, j, m[MetaKey(j)]) => Describes(n, j, m[MetaKey(j)])
      BY <1>1, <2>2, OthersUntouched
    <3>2. Describes(m, j, m[MetaKey(j)]) /\ m[MetaKey(j)].version \in 0..old
      BY <3>1 DEF Consistent
    <3>3. m[MetaKey(j)].version \in 0..time
      BY <3>2
    <3> QED
      BY <3>1, <3>2, <3>3
  <2> QED
    BY <2>1, <2>2
<1>2. ASSUME NEW x \in DOMAIN n, Len(x) > 1
      PROVE  x[2] \in 0..time
  <2>1. CASE x \in DOMAIN w.puts
    BY <1>2, <2>1 DEF WritesOnly
  <2>2. CASE x \notin DOMAIN w.puts
    <3> HIDE DEF n
    <3>0. DOMAIN n = DOMAIN w.puts \cup (DOMAIN m \ w.dels)
      BY AppliedFacts DEF n
    <3>1. x \in DOMAIN m
      BY <1>2, <2>2, <3>0
    <3>2. x[2] \in 0..old
      BY <1>2, <3>1 DEF Consistent
    <3> QED
      BY <3>2
  <2> QED
    BY <2>1, <2>2
<1> QED
  BY <1>1, <1>2 DEF Consistent

-----------------------------------------------------------------------------
(* The log keeps covering the store when a write reaches both, and when a  *)
(* del reaches the store only.                                             *)
LEMMA CoversKept ==
  ASSUME NEW m, NEW part, NEW w, Covers(m, part)
  PROVE  Covers(Applied(m, w), Applied(part, w))
<1>1. PICK n : n = Applied(m, w)
  OBVIOUS
<1>2. PICK p : p = Applied(part, w)
  OBVIOUS
<1>3. /\ DOMAIN n = DOMAIN w.puts \cup (DOMAIN m \ w.dels)
      /\ DOMAIN p = DOMAIN w.puts \cup (DOMAIN part \ w.dels)
      /\ \A x \in DOMAIN w.puts : n[x] = w.puts[x] /\ p[x] = w.puts[x]
      /\ \A x \in DOMAIN m \ w.dels : x \notin DOMAIN w.puts => n[x] = m[x]
      /\ \A x \in DOMAIN part \ w.dels : x \notin DOMAIN w.puts => p[x] = part[x]
  <2>1. /\ DOMAIN n = DOMAIN w.puts \cup (DOMAIN m \ w.dels)
        /\ \A x \in DOMAIN w.puts : n[x] = w.puts[x]
        /\ \A x \in DOMAIN m \ w.dels : x \notin DOMAIN w.puts => n[x] = m[x]
    BY <1>1 DEF Applied
  <2>2. /\ DOMAIN p = DOMAIN w.puts \cup (DOMAIN part \ w.dels)
        /\ \A x \in DOMAIN w.puts : p[x] = w.puts[x]
        /\ \A x \in DOMAIN part \ w.dels : x \notin DOMAIN w.puts => p[x] = part[x]
    BY <1>2 DEF Applied
  <2> QED
    BY <2>1, <2>2
<1>4. Covers(n, p)
  BY <1>3 DEF Covers
<1> QED
  BY <1>1, <1>2, <1>4

LEMMA CoversDeleted ==
  ASSUME NEW m, NEW part, NEW k \in Keys, Covers(m, part)
  PROVE  Covers(m, Applied(part, Delete(MetaKey(k))))
<1>4a. PICK w : w = Delete(MetaKey(k))
  OBVIOUS
<1>1. PICK p : p = Applied(part, w)
  OBVIOUS
<1>2. w.dels = {MetaKey(k)} /\ DOMAIN w.puts = {}
  BY <1>4a, EmptyDomain DEF Delete, Write
<1>3. /\ DOMAIN p = DOMAIN part \ {MetaKey(k)}
      /\ \A x \in DOMAIN p : p[x] = part[x]
  BY <1>1, <1>2 DEF Applied
<1>4. Covers(m, p)
  BY <1>3 DEF Covers
<1> QED
  BY <1>4a, <1>1, <1>4

(* It has the same entries.                                                *)
LEMMA EntriesSame ==
  ASSUME NEW m, NEW part, Covers(m, part), NEW x, Len(x) > 1
  PROVE  /\ x \in DOMAIN m <=> x \in DOMAIN part
         /\ x \in DOMAIN part => m[x] = part[x]
<1>1. \A k \in Keys : x # MetaKey(k)
  <2>1. SUFFICES ASSUME NEW k \in Keys, x = MetaKey(k) PROVE FALSE
    OBVIOUS
  <2>2. Len(MetaKey(k)) = 1
    BY KeyParts
  <2> QED
    BY <2>1, <2>2
<1> QED
  BY <1>1 DEF Covers

-----------------------------------------------------------------------------
(* The metadata a command works on describes the entries in the store and  *)
(* in the log, whether it is the stored one or a new one.                  *)
LEMMA MetaDescribes ==
  ASSUME NEW m, NEW k \in Keys, NEW old \in Nat, NEW type \in CollectionTypes,
         Consistent(m, old), Covers(m, store), ~WrongType(k, type)
  PROVE  LET meta == FindMetadata(k, type, old + 1)
         IN  /\ meta \in MetadataType /\ Describes(m, k, meta)
             /\ meta.type = type /\ meta.version \in 0..old + 1
             /\ \/ MetaKey(k) \in DOMAIN m /\ m[MetaKey(k)] = meta
                \/ EntriesIn(m, k, meta) = {}
<1>1. PICK meta : meta = FindMetadata(k, type, old + 1)
  OBVIOUS
<1>2. CASE MetaKey(k) \in DOMAIN store
  <2>1. HasMeta(m, k) /\ m[MetaKey(k)] = store[MetaKey(k)] /\ m[MetaKey(k)].type = type
    BY <1>2 DEF HasMeta, Covers, WrongType, CollectionTypes
  <2>2. /\ Describes(m, k, m[MetaKey(k)]) /\ m[MetaKey(k)] \in MetadataType
        /\ m[MetaKey(k)].version \in 0..old
    BY <2>1 DEF Consistent, Describes
  <2>3. m[MetaKey(k)].expire = 0
    BY <2>2 DEF MetadataType
  <2>4. meta = m[MetaKey(k)]
    BY <1>1, <1>2, <2>1, <2>3 DEF FindMetadata
  <2>5. meta.version \in 0..old + 1
    BY <2>2, <2>4
  <2> QED
    BY <1>1, <2>1, <2>2, <2>4, <2>5 DEF HasMeta
<1>3. CASE MetaKey(k) \notin DOMAIN store
  <2>1. meta = Metadate(type, old + 1, 0, 0, 0)
    BY <1>1, <1>3 DEF FindMetadata, FreshMetadata, INITIAL_LIST_MARK
  <2>2. /\ meta \in MetadataType /\ meta.type = type /\ meta.version = old + 1
        /\ meta.size = 0 /\ meta.head = 0 /\ meta.tail = 0
    BY <2>1 DEF MetadataType, Metadate
  <2>3. ASSUME NEW x \in DOMAIN m, Len(x) > 1
        PROVE  x[2] # old + 1
    <3>1. x[2] \in 0..old
      BY <2>3 DEF Consistent
    <3> QED
      BY <3>1
  <2>4. EntriesIn(m, k, meta) = {}
    BY <2>2, <2>3, EntryKeyParts DEF EntriesIn
  <2>5. IsFiniteSet(EntriesIn(m, k, meta)) /\ Cardinality(EntriesIn(m, k, meta)) = 0
    BY <2>4, FS_EmptySet
  <2>6. \A f, s : /\ ZSetScoreKey(k, meta.version, s, f) \notin DOMAIN m
                  /\ ZSetMemberKey(k, meta.version, f) \notin DOMAIN m
    BY <2>2, <2>3, KeyParts
  <2>7. RanksEntries(m, k, meta)
    BY <2>6 DEF RanksEntries
  <2>8. Describes(m, k, meta)
    BY <2>2, <2>5, <2>7 DEF Describes, CountsEntries
  <2> QED
    BY <1>1, <2>2, <2>4, <2>8
<1> QED
  BY <1>2, <1>3

(* A change of the size leaves the rest of the metadata.                   *)
LEMMA ResizedFacts ==
  ASSUME NEW meta \in MetadataType, NEW d \in Int, meta.size + d \in Nat
  PROVE  /\ Resized(meta, d) \in MetadataType
         /\ Resized(meta, d).type = meta.type
         /\ Resized(meta, d).version = meta.version
         /\ Resized(meta, d).size = meta.size + d
         /\ Resized(meta, d).head = meta.head
         /\ Resized(meta, d).tail = meta.tail
BY DEF Resized, MetadataType

(* One more entry and a size one larger agree.                             *)
LEMMA GrownDescribes ==
  ASSUME NEW m, NEW n, NEW k, NEW meta, NEW next, NEW x,
         Describes(m, k, meta), next \in MetadataType, next.type = meta.type,
         next.size = meta.size + 1,
         meta.type = "List" => next.tail - next.head = meta.tail - meta.head + 1,
         x \notin EntriesIn(m, k, meta),
         EntriesIn(n, k, next) = EntriesIn(m, k, meta) \cup {x},
         RanksEntries(n, k, next)
  PROVE  Describes(n, k, next)
<1>1. PICK E : E = EntriesIn(m, k, meta)
  OBVIOUS
<1>2. IsFiniteSet(E) /\ Cardinality(E) = meta.size
  BY <1>1 DEF Describes, CountsEntries
<1>3. IsFiniteSet(E \cup {x}) /\ Cardinality(E \cup {x}) = Cardinality(E) + 1
  BY <1>1, <1>2, FS_AddElement
<1>4. next.size = Cardinality(E \cup {x})
  BY <1>2, <1>3
<1>5. next.type = "List" => next.size = next.tail - next.head
  BY DEF Describes, CountsEntries
<1> QED
  BY <1>1, <1>3, <1>4, <1>5 DEF Describes, CountsEntries

(* So do one entry fewer and a size one smaller.                           *)
LEMMA CountedPositive ==
  ASSUME NEW m, NEW k, NEW meta, NEW x, Describes(m, k, meta), x \in EntriesIn(m, k, meta)
  PROVE  meta.size \in Nat /\ meta.size # 0
<1>1. PICK E : E = EntriesIn(m, k, meta)
  OBVIOUS
<1>2. IsFiniteSet(E) /\ Cardinality(E) = meta.size /\ meta.size \in Nat
  BY <1>1 DEF Describes, CountsEntries, MetadataType
<1>3. E # {}
  BY <1>1
<1> QED
  BY <1>2, <1>3, FS_EmptySet

LEMMA ShrunkDescribes ==
  ASSUME NEW m, NEW n, NEW k, NEW meta, NEW next, NEW x,
         Describes(m, k, meta), next \in MetadataType, next.type = meta.type,
         next.size = meta.size - 1,
         meta.type = "List" => next.tail - next.head = meta.tail - meta.head - 1,
         x \in EntriesIn(m, k, meta),
         EntriesIn(n, k, next) = EntriesIn(m, k, meta) \ {x},
         RanksEntries(n, k, next)
  PROVE  Describes(n, k, next)
<1>1. PICK E : E = EntriesIn(m, k, meta)
  OBVIOUS
<1>2. IsFiniteSet(E) /\ Cardinality(E) = meta.size
  BY <1>1 DEF Describes, CountsEntries
<1>3. IsFiniteSet(E \ {x}) /\ Cardinality(E \ {x}) = Cardinality(E) - 1
  BY <1>1, <1>2, FS_RemoveElement
<1>4. next.size = Cardinality(E \ {x})
  BY <1>2, <1>3
<1>5. next.type = "List" => next.size = next.tail - next.head
  BY DEF Describes, CountsEntries
<1> QED
  BY <1>1, <1>3, <1>4, <1>5 DEF Describes, CountsEntries

-----------------------------------------------------------------------------
(* What a command that writes to a collection has found: the metadata of a *)
(* map, or a new one that no entry belongs to yet.                         *)
WorksOn(m, k, meta, type, time) ==
  /\ Covers(m, store)
  /\ meta \in MetadataType /\ meta.type = type /\ meta.version \in 0..time
  /\ Describes(m, k, meta)
  /\ \/ MetaKey(k) \in DOMAIN m /\ m[MetaKey(k)] = meta
     \/ EntriesIn(m, k, meta) = {}

(* What it has to show for its write.                                      *)
KeepsOrder(m, w, k, time) ==
  /\ WritesOnly(w, k, time)
  /\ HasMeta(Applied(m, w), k) =>
       /\ Describes(Applied(m, w), k, Applied(m, w)[MetaKey(k)])
       /\ Applied(m, w)[MetaKey(k)].version \in 0..time

(* A hash takes a field.                                                   *)
LEMMA HsetKeepsOrder ==
  ASSUME NEW m, NEW k \in Keys, NEW time \in Nat, NEW meta,
         WorksOn(m, k, meta, "Hash", time), NEW field \in Fields, NEW val
  PROVE  KeepsOrder(m, Hset(k, meta, field, val, FALSE).write, k, time)
<1>1. PICK w : w = Hset(k, meta, field, val, FALSE).write
  OBVIOUS
<1>2. PICK hk : hk = HashInternalKey(k, meta.version, field)
  OBVIOUS
<1>3. PICK n : n = Applied(m, w)
  OBVIOUS
<1>4. /\ Len(hk) = 3 /\ hk[1] = k /\ hk[2] = meta.version /\ hk # MetaKey(k)
      /\ meta \in MetadataType /\ meta.version \in 0..time /\ meta.type = "Hash"
      /\ Describes(m, k, meta) /\ MetaKey(k)[1] = k /\ Len(MetaKey(k)) = 1
  BY <1>2, KeyParts DEF WorksOn, HashInternalKey, MetaKey
<1>5. hk \in DOMAIN m <=> hk \in DOMAIN store
  <2>1. Covers(m, store) /\ Len(hk) > 1
    BY <1>4 DEF WorksOn
  <2> QED
    BY <2>1, EntriesSame
<1>6. hk \in EntryKeys(k, meta)
  BY <1>2, <1>4 DEF EntryKeys
<1>7. CASE hk \in DOMAIN store
  <2>1. w.puts = With(<<>>, hk, val) /\ w.dels = {}
    BY <1>1, <1>2, <1>7 DEF Hset, Lookup, Decision, Batch, Write
  <2>a. DOMAIN w.puts = {hk} /\ w.puts[hk] = val
    BY <2>1, EmptyDomain DEF With
  <2>2. DOMAIN n = {hk} \cup DOMAIN m /\ \A z \in DOMAIN m : z # hk => n[z] = m[z]
    BY <1>3, <2>1, <2>a DEF Applied
  <2>3. WritesOnly(w, k, time)
    BY <1>4, <2>1, <2>a DEF WritesOnly
  <2>4. DOMAIN n = DOMAIN m
    BY <1>5, <1>7, <2>1, <2>2
  <2>5. MetaKey(k) \in DOMAIN m /\ m[MetaKey(k)] = meta
    BY <1>5, <1>6, <1>7 DEF WorksOn, EntriesIn
  <2>6. n[MetaKey(k)] = meta
    BY <1>4, <2>1, <2>2, <2>5
  <2>7. EntriesIn(n, k, meta) = EntriesIn(m, k, meta)
    BY <2>4 DEF EntriesIn
  <2>8. Describes(n, k, meta)
    BY <1>4, <2>7 DEF Describes, CountsEntries, RanksEntries
  <2> QED
    BY <1>1, <1>3, <1>4, <2>3, <2>6, <2>8 DEF KeepsOrder
<1>8. CASE hk \notin DOMAIN store
  <2>1. PICK next : next = Resized(meta, 1)
    OBVIOUS
  <2>2. /\ next \in MetadataType /\ next.type = "Hash" /\ next.version = meta.version
        /\ next.size = meta.size + 1
    <3>1. meta.size + 1 \in Nat
      BY <1>4 DEF MetadataType
    <3> QED
      BY <1>4, <2>1, <3>1, ResizedFacts
  <2>3. w.puts = With(With(<<>>, MetaKey(k), next), hk, val) /\ w.dels = {}
    BY <1>1, <1>2, <1>8, <2>1 DEF Hset, Lookup, Decision, Batch, Write
  <2>a. DOMAIN w.puts = {MetaKey(k), hk} /\ w.puts[MetaKey(k)] = next
    BY <1>4, <2>3, EmptyDomain DEF With
  <2>4. DOMAIN n = {MetaKey(k), hk} \cup DOMAIN m /\ n[MetaKey(k)] = next
    BY <1>3, <2>3, <2>a DEF Applied
  <2>5. WritesOnly(w, k, time)
    BY <1>4, <2>3, <2>a DEF WritesOnly
  <2>6. EntryKeys(k, next) = EntryKeys(k, meta)
    BY <1>4, <2>2 DEF EntryKeys
  <2>7. MetaKey(k) \notin EntryKeys(k, meta)
    BY <1>4, EntryKeyParts
  <2>8. EntriesIn(n, k, next) = EntriesIn(m, k, meta) \cup {hk}
    BY <1>6, <2>3, <2>4, <2>6, <2>7 DEF EntriesIn
  <2>9. hk \notin EntriesIn(m, k, meta) /\ RanksEntries(n, k, next)
    BY <1>5, <1>8, <2>2 DEF EntriesIn, RanksEntries
  <2>10. Describes(n, k, next)
    BY <1>4, <2>2, <2>8, <2>9, GrownDescribes
  <2> QED
    BY <1>1, <1>3, <1>4, <2>2, <2>4, <2>5, <2>10 DEF KeepsOrder
<1> QED
  BY <1>7, <1>8

(* It gives one up.                                                        *)
LEMMA HdelKeepsOrder ==
  ASSUME NEW m, NEW k \in Keys, NEW time \in Nat, NEW meta,
         WorksOn(m, k, meta, "Hash", time), NEW field \in Fields,
         Hdel(k, meta, field, FALSE).write # NoWrite
  PROVE  KeepsOrder(m, Hdel(k, meta, field, FALSE).write, k, time)
<1>1. PICK w : w = Hdel(k, meta, field, FALSE).write
  OBVIOUS
<1>2. PICK hk : hk = HashInternalKey(k, meta.version, field)
  OBVIOUS
<1>3. PICK n : n = Applied(m, w)
  OBVIOUS
<1>4. /\ Len(hk) = 3 /\ hk[1] = k /\ hk[2] = meta.version /\ hk # MetaKey(k)
      /\ meta \in MetadataType /\ meta.version \in 0..time /\ meta.type = "Hash"
      /\ Describes(m, k, meta) /\ MetaKey(k)[1] = k /\ Len(MetaKey(k)) = 1
  BY <1>2, KeyParts DEF WorksOn, HashInternalKey, MetaKey
<1>5. hk \in DOMAIN m <=> hk \in DOMAIN store
  <2>1. Covers(m, store) /\ Len(hk) > 1
    BY <1>4 DEF WorksOn
  <2> QED
    BY <2>1, EntriesSame
<1>6. hk \in EntryKeys(k, meta)
  BY <1>2, <1>4 DEF EntryKeys
<1>7. hk \in DOMAIN store
  BY <1>2 DEF Hdel, Lookup, Say, Decision
<1>8. hk \in EntriesIn(m, k, meta) /\ meta.size \in Nat /\ meta.size # 0
  <2>1. hk \in EntriesIn(m, k, meta)
    BY <1>5, <1>6, <1>7 DEF EntriesIn
  <2> QED
    BY <1>4, <2>1, CountedPositive
<1>9. PICK next : next = Resized(meta, -1)
  OBVIOUS
<1>10. /\ next \in MetadataType /\ next.type = "Hash" /\ next.version = meta.version
       /\ next.size = meta.size - 1
  <2>1. meta.size + (-1) \in Nat /\ meta.size + (-1) = meta.size - 1 /\ -1 \in Int
    BY <1>8
  <2> QED
    BY <1>4, <1>9, <2>1, ResizedFacts
<1>11. w.puts = With(<<>>, MetaKey(k), next) /\ w.dels = {hk}
  BY <1>1, <1>2, <1>7, <1>8, <1>9 DEF Hdel, Lookup, Decision, Batch, Write
<1>12. DOMAIN w.puts = {MetaKey(k)} /\ w.puts[MetaKey(k)] = next
  BY <1>11, EmptyDomain DEF With
<1>13. DOMAIN n = {MetaKey(k)} \cup (DOMAIN m \ {hk}) /\ n[MetaKey(k)] = next
  BY <1>3, <1>11, <1>12 DEF Applied
<1>14. WritesOnly(w, k, time)
  BY <1>4, <1>11, <1>12 DEF WritesOnly
<1>15. EntryKeys(k, next) = EntryKeys(k, meta)
  BY <1>4, <1>10 DEF EntryKeys
<1>16. MetaKey(k) \notin EntryKeys(k, meta)
  BY <1>4, EntryKeyParts
<1>17. EntriesIn(n, k, next) = EntriesIn(m, k, meta) \ {hk}
  BY <1>13, <1>15, <1>16 DEF EntriesIn
<1>18. RanksEntries(n, k, next)
  BY <1>10 DEF RanksEntries
<1>19. Describes(n, k, next)
  BY <1>4, <1>8, <1>10, <1>17, <1>18, ShrunkDescribes
<1> QED
  BY <1>1, <1>3, <1>4, <1>10, <1>13, <1>14, <1>19 DEF KeepsOrder

(* A set takes a member.                                                   *)
LEMMA SaddKeepsOrder ==
  ASSUME NEW m, NEW k \in Keys, NEW time \in Nat, NEW meta,
         WorksOn(m, k, meta, "Set", time), NEW field \in Fields,
         Sadd(k, meta, field, FALSE).write # NoWrite
  PROVE  KeepsOrder(m, Sadd(k, meta, field, FALSE).write, k, time)
<1>1. PICK w : w = Sadd(k, meta, field, FALSE).write
  OBVIOUS
<1>2. PICK sk : sk = SetInternalKey(k, meta.version, field)
  OBVIOUS
<1>3. PICK n : n = Applied(m, w)
  OBVIOUS
<1>4. /\ Len(sk) = 4 /\ sk[1] = k /\ sk[2] = meta.version /\ sk # MetaKey(k)
      /\ meta \in MetadataType /\ meta.version \in 0..time /\ meta.type = "Set"
      /\ Describes(m, k, meta) /\ MetaKey(k)[1] = k /\ Len(MetaKey(k)) = 1
  BY <1>2, KeyParts DEF WorksOn, SetInternalKey, MetaKey
<1>5. sk \in DOMAIN m <=> sk \in DOMAIN store
  <2>1. Covers(m, store) /\ Len(sk) > 1
    BY <1>4 DEF WorksOn
  <2> QED
    BY <2>1, EntriesSame
<1>6. sk \in EntryKeys(k, meta)
  BY <1>2, <1>4 DEF EntryKeys
<1>7. sk \notin DOMAIN store
  BY <1>2 DEF Sadd, Lookup, Say, Decision
<1>8. PICK next : next = Resized(meta, 1)
  OBVIOUS
<1>9. /\ next \in MetadataType /\ next.type = "Set" /\ next.version = meta.version
      /\ next.size = meta.size + 1
  <2>1. meta.size + 1 \in Nat
    BY <1>4 DEF MetadataType
  <2> QED
    BY <1>4, <1>8, <2>1, ResizedFacts
<1>10. w.puts = With(With(<<>>, MetaKey(k), next), sk, EmptyVal) /\ w.dels = {}
  BY <1>1, <1>2, <1>7, <1>8 DEF Sadd, Lookup, Decision, Batch, Write
<1>11. DOMAIN w.puts = {MetaKey(k), sk} /\ w.puts[MetaKey(k)] = next
  BY <1>4, <1>10, EmptyDomain DEF With
<1>12. DOMAIN n = {MetaKey(k), sk} \cup DOMAIN m /\ n[MetaKey(k)] = next
  BY <1>3, <1>10, <1>11 DEF Applied
<1>13. WritesOnly(w, k, time)
  BY <1>4, <1>10, <1>11 DEF WritesOnly
<1>14. EntryKeys(k, next) = EntryKeys(k, meta)
  BY <1>4, <1>9 DEF EntryKeys
<1>15. MetaKey(k) \notin EntryKeys(k, meta)
  BY <1>4, EntryKeyParts
<1>16. EntriesIn(n, k, next) = EntriesIn(m, k, meta) \cup {sk}
  BY <1>6, <1>12, <1>14, <1>15 DEF EntriesIn
<1>17. sk \notin EntriesIn(m, k, meta) /\ RanksEntries(n, k, next)
  BY <1>5, <1>7, <1>9 DEF EntriesIn, RanksEntries
<1>18. Describes(n, k, next)
  BY <1>4, <1>9, <1>16, <1>17, GrownDescribes
<1> QED
  BY <1>1, <1>3, <1>4, <1>9, <1>12, <1>13, <1>18 DEF KeepsOrder

(* It gives one up.                                                        *)
LEMMA SremKeepsOrder ==
  ASSUME NEW m, NEW k \in Keys, NEW time \in Nat, NEW meta,
         WorksOn(m, k, meta, "Set", time), NEW field \in Fields,
         Srem(k, meta, field, FALSE).write # NoWrite
  PROVE  KeepsOrder(m, Srem(k, meta, field, FALSE).write, k, time)
<1>1. PICK w : w = Srem(k, meta, field, FALSE).write
  OBVIOUS
<1>2. PICK sk : sk = SetInternalKey(k, meta.version, field)
  OBVIOUS
<1>3. PICK n : n = Applied(m, w)
  OBVIOUS
<1>4. /\ Len(sk) = 4 /\ sk[1] = k /\ sk[2] = meta.version /\ sk # MetaKey(k)
      /\ meta \in MetadataType /\ meta.version \in 0..time /\ meta.type = "Set"
      /\ Describes(m, k, meta) /\ MetaKey(k)[1] = k /\ Len(MetaKey(k)) = 1
  BY <1>2, KeyParts DEF WorksOn, SetInternalKey, MetaKey
<1>5. sk \in DOMAIN m <=> sk \in DOMAIN store
  <2>1. Covers(m, store) /\ Len(sk) > 1
    BY <1>4 DEF WorksOn
  <2> QED
    BY <2>1, EntriesSame
<1>6. sk \in EntryKeys(k, meta)
  BY <1>2, <1>4 DEF EntryKeys
<1>7. sk \in DOMAIN store
  BY <1>2 DEF Srem, Lookup, Say, Decision
<1>8. sk \in EntriesIn(m, k, meta) /\ meta.size \in Nat /\ meta.size # 0
  <2>1. sk \in EntriesIn(m, k, meta)
    BY <1>5, <1>6, <1>7 DEF EntriesIn
  <2> QED
    BY <1>4, <2>1, CountedPositive
<1>9. PICK next : next = Resized(meta, -1)
  OBVIOUS
<1>10. /\ next \in MetadataType /\ next.type = "Set" /\ next.version = meta.version
       /\ next.size = meta.size - 1
  <2>1. meta.size + (-1) \in Nat /\ meta.size + (-1) = meta.size - 1 /\ -1 \in Int
    BY <1>8
  <2> QED
    BY <1>4, <1>9, <2>1, ResizedFacts
<1>11. w.puts = With(<<>>, MetaKey(k), next) /\ w.dels = {sk}
  BY <1>1, <1>2, <1>7, <1>8, <1>9 DEF Srem, Lookup, Decision, Batch, Write
<1>12. DOMAIN w.puts = {MetaKey(k)} /\ w.puts[MetaKey(k)] = next
  BY <1>11, EmptyDomain DEF With
<1>13. DOMAIN n = {MetaKey(k)} \cup (DOMAIN m \ {sk}) /\ n[MetaKey(k)] = next
  BY <1>3, <1>11, <1>12 DEF Applied
<1>14. WritesOnly(w, k, time)
  BY <1>4, <1>11, <1>12 DEF WritesOnly
<1>15. EntryKeys(k, next) = EntryKeys(k, meta)
  BY <1>4, <1>10 DEF EntryKeys
<1>16. MetaKey(k) \notin EntryKeys(k, meta)
  BY <1>4, EntryKeyParts
<1>17. EntriesIn(n, k, next) = EntriesIn(m, k, meta) \ {sk}
  BY <1>13, <1>15, <1>16 DEF EntriesIn
<1>18. RanksEntries(n, k, next)
  BY <1>10 DEF RanksEntries
<1>19. Describes(n, k, next)
  BY <1>4, <1>8, <1>10, <1>17, <1>18, ShrunkDescribes
<1> QED
  BY <1>1, <1>3, <1>4, <1>10, <1>13, <1>14, <1>19 DEF KeepsOrder

-----------------------------------------------------------------------------
(* The elements of a list lie from head up to but not including tail, and  *)
(* their number is its size, so a push or a pop moves one end by one.      *)
LEMMA ListBounds ==
  ASSUME NEW m, NEW k, NEW meta, Describes(m, k, meta), meta.type = "List"
  PROVE  /\ meta.head \in Int /\ meta.tail \in Int /\ meta.size \in Nat
         /\ meta.size = meta.tail - meta.head /\ meta.head <= meta.tail
<1>1. meta.head \in Int /\ meta.tail \in Int /\ meta.size \in Nat
  BY DEF Describes, MetadataType
<1>2. meta.size = meta.tail - meta.head
  BY DEF Describes, CountsEntries
<1> QED
  BY <1>1, <1>2

LEMMA ListKeys ==
  ASSUME NEW k, NEW meta, meta.type = "List"
  PROVE  EntryKeys(k, meta)
           = {ListInternalKey(k, meta.version, j) : j \in meta.head..meta.tail - 1}
BY DEF EntryKeys

(* A list takes an element at either end.                                  *)
LEMMA PushKeepsOrder ==
  ASSUME NEW m, NEW k \in Keys, NEW time \in Nat, NEW meta,
         WorksOn(m, k, meta, "List", time), NEW element, NEW isLeft \in BOOLEAN
  PROVE  KeepsOrder(m, PushInner(k, meta, element, isLeft).write, k, time)
<1>1. PICK w : w = PushInner(k, meta, element, isLeft).write
  OBVIOUS
<1>2. PICK i : i = IF isLeft THEN meta.head - 1 ELSE meta.tail
  OBVIOUS
<1>3. PICK lk : lk = ListInternalKey(k, meta.version, i)
  OBVIOUS
<1>4. PICK n : n = Applied(m, w)
  OBVIOUS
<1>5. /\ Len(lk) = 3 /\ lk[1] = k /\ lk[2] = meta.version /\ lk # MetaKey(k)
      /\ meta \in MetadataType /\ meta.version \in 0..time /\ meta.type = "List"
      /\ Describes(m, k, meta) /\ MetaKey(k)[1] = k /\ Len(MetaKey(k)) = 1
  BY <1>3, KeyParts DEF WorksOn, ListInternalKey, MetaKey
<1>6. /\ meta.head \in Int /\ meta.tail \in Int /\ meta.size \in Nat
      /\ meta.size = meta.tail - meta.head /\ meta.head <= meta.tail
  BY <1>5, ListBounds
<1>7. PICK next : next = [Resized(meta, 1) EXCEPT !.head = IF isLeft THEN @ - 1 ELSE @,
                                                  !.tail = IF isLeft THEN @ ELSE @ + 1]
  OBVIOUS
<1>8. /\ next \in MetadataType /\ next.type = "List" /\ next.version = meta.version
      /\ next.size = meta.size + 1
      /\ next.head = IF isLeft THEN meta.head - 1 ELSE meta.head
      /\ next.tail = IF isLeft THEN meta.tail ELSE meta.tail + 1
  <2>1. PICK r : r = Resized(meta, 1)
    OBVIOUS
  <2>2. meta.size + 1 \in Nat
    BY <1>6
  <2>3. /\ r \in MetadataType /\ r.type = "List" /\ r.version = meta.version
        /\ r.size = meta.size + 1 /\ r.head = meta.head /\ r.tail = meta.tail
    BY <1>5, <2>1, <2>2, ResizedFacts
  <2>4. next = [r EXCEPT !.head = IF isLeft THEN meta.head - 1 ELSE meta.head,
                         !.tail = IF isLeft THEN meta.tail ELSE meta.tail + 1]
    BY <1>7, <2>1, <2>3
  <2>5. PICK h \in Int : h = IF isLeft THEN meta.head - 1 ELSE meta.head
    BY <1>6
  <2>6. PICK t \in Int : t = IF isLeft THEN meta.tail ELSE meta.tail + 1
    BY <1>6
  <2>7. next = [r EXCEPT !.head = h, !.tail = t]
    BY <2>4, <2>5, <2>6
  <2>8. /\ next \in MetadataType /\ next.type = r.type /\ next.version = r.version
        /\ next.size = r.size /\ next.head = h /\ next.tail = t
    BY <2>3, <2>7 DEF MetadataType
  <2> QED
    BY <2>3, <2>5, <2>6, <2>8
<1>9. w.puts = With(With(<<>>, MetaKey(k), next), lk, element) /\ w.dels = {}
  BY <1>1, <1>2, <1>3, <1>7 DEF PushInner, Decision, Batch, Write
<1>10. DOMAIN w.puts = {MetaKey(k), lk} /\ w.puts[MetaKey(k)] = next
  BY <1>5, <1>9, EmptyDomain DEF With
<1>11. DOMAIN n = {MetaKey(k), lk} \cup DOMAIN m /\ n[MetaKey(k)] = next
  BY <1>4, <1>9, <1>10 DEF Applied
<1>12. WritesOnly(w, k, time)
  BY <1>5, <1>9, <1>10 DEF WritesOnly
<1>13. /\ next.head..next.tail - 1 = (meta.head..meta.tail - 1) \cup {i}
       /\ i \notin meta.head..meta.tail - 1
  <2>1. CASE isLeft
    BY <1>2, <1>6, <1>8, <2>1
  <2>2. CASE ~isLeft
    BY <1>2, <1>6, <1>8, <2>2
  <2> QED
    BY <2>1, <2>2
<1>14. EntryKeys(k, next) = EntryKeys(k, meta) \cup {lk}
  <2>1. EntryKeys(k, meta)
          = {ListInternalKey(k, meta.version, j) : j \in meta.head..meta.tail - 1}
    BY <1>5, ListKeys
  <2>2. EntryKeys(k, next)
          = {ListInternalKey(k, meta.version, j) : j \in next.head..next.tail - 1}
    BY <1>8, ListKeys
  <2> QED
    BY <1>3, <1>13, <2>1, <2>2
<1>15. lk \notin EntryKeys(k, meta)
  BY <1>3, <1>5, <1>13, ListKeys, KeysDiffer
<1>16. MetaKey(k) \notin EntryKeys(k, meta)
  BY <1>5, EntryKeyParts
<1>17. EntriesIn(n, k, next) = EntriesIn(m, k, meta) \cup {lk}
  BY <1>11, <1>14, <1>16 DEF EntriesIn
<1>18. lk \notin EntriesIn(m, k, meta) /\ RanksEntries(n, k, next)
  BY <1>8, <1>15 DEF EntriesIn, RanksEntries
<1>19. next.tail - next.head = meta.tail - meta.head + 1
  BY <1>6, <1>8
<1>20. Describes(n, k, next)
  BY <1>5, <1>8, <1>17, <1>18, <1>19, GrownDescribes
<1> QED
  BY <1>1, <1>4, <1>5, <1>8, <1>11, <1>12, <1>20 DEF KeepsOrder

(* It gives one up, which stays behind outside of the bounds.              *)
LEMMA PopKeepsOrder ==
  ASSUME NEW m, NEW k \in Keys, NEW time \in Nat, NEW meta,
         WorksOn(m, k, meta, "List", time), NEW isLeft \in BOOLEAN,
         PopInner(k, meta, isLeft, FALSE).write # NoWrite
  PROVE  KeepsOrder(m, PopInner(k, meta, isLeft, FALSE).write, k, time)
<1>1. PICK w : w = PopInner(k, meta, isLeft, FALSE).write
  OBVIOUS
<1>2. PICK i : i = IF isLeft THEN meta.head ELSE meta.tail - 1
  OBVIOUS
<1>3. PICK lk : lk = ListInternalKey(k, meta.version, i)
  OBVIOUS
<1>4. PICK n : n = Applied(m, w)
  OBVIOUS
<1>5. /\ Len(lk) = 3 /\ lk[1] = k /\ lk[2] = meta.version /\ lk # MetaKey(k)
      /\ meta \in MetadataType /\ meta.version \in 0..time /\ meta.type = "List"
      /\ Describes(m, k, meta) /\ MetaKey(k)[1] = k /\ Len(MetaKey(k)) = 1
  BY <1>3, KeyParts DEF WorksOn, ListInternalKey, MetaKey
<1>6. /\ meta.head \in Int /\ meta.tail \in Int /\ meta.size \in Nat
      /\ meta.size = meta.tail - meta.head /\ meta.head <= meta.tail
  BY <1>5, ListBounds
<1>7. meta.size # 0 /\ lk \in DOMAIN store
  BY <1>2, <1>3 DEF PopInner, Lookup, Say, Decision
<1>8. lk \in DOMAIN m
  <2>1. Covers(m, store) /\ Len(lk) > 1
    BY <1>5 DEF WorksOn
  <2> QED
    BY <1>7, <2>1, EntriesSame
<1>9. PICK next : next = [Resized(meta, -1) EXCEPT !.head = IF isLeft THEN @ + 1 ELSE @,
                                                   !.tail = IF isLeft THEN @ ELSE @ - 1]
  OBVIOUS
<1>10. /\ next \in MetadataType /\ next.type = "List" /\ next.version = meta.version
       /\ next.size = meta.size - 1
       /\ next.head = IF isLeft THEN meta.head + 1 ELSE meta.head
       /\ next.tail = IF isLeft THEN meta.tail ELSE meta.tail - 1
  <2>1. PICK r : r = Resized(meta, -1)
    OBVIOUS
  <2>2. meta.size + (-1) \in Nat /\ meta.size + (-1) = meta.size - 1 /\ -1 \in Int
    BY <1>6, <1>7
  <2>3. /\ r \in MetadataType /\ r.type = "List" /\ r.version = meta.version
        /\ r.size = meta.size - 1 /\ r.head = meta.head /\ r.tail = meta.tail
    BY <1>5, <2>1, <2>2, ResizedFacts
  <2>4. next = [r EXCEPT !.head = IF isLeft THEN meta.head + 1 ELSE meta.head,
                         !.tail = IF isLeft THEN meta.tail ELSE meta.tail - 1]
    BY <1>9, <2>1, <2>3
  <2>5. PICK h \in Int : h = IF isLeft THEN meta.head + 1 ELSE meta.head
    BY <1>6
  <2>6. PICK t \in Int : t = IF isLeft THEN meta.tail ELSE meta.tail - 1
    BY <1>6
  <2>7. next = [r EXCEPT !.head = h, !.tail = t]
    BY <2>4, <2>5, <2>6
  <2>8. /\ next \in MetadataType /\ next.type = r.type /\ next.version = r.version
        /\ next.size = r.size /\ next.head = h /\ next.tail = t
    BY <2>3, <2>7 DEF MetadataType
  <2> QED
    BY <2>3, <2>5, <2>6, <2>8
<1>11. w.puts = With(<<>>, MetaKey(k), next) /\ w.dels = {}
  BY <1>1, <1>2, <1>3, <1>7, <1>9 DEF PopInner, Lookup, Decision, Put, Write
<1>12. DOMAIN w.puts = {MetaKey(k)} /\ w.puts[MetaKey(k)] = next
  BY <1>11, EmptyDomain DEF With
<1>13. DOMAIN n = {MetaKey(k)} \cup DOMAIN m /\ n[MetaKey(k)] = next
  BY <1>4, <1>11, <1>12 DEF Applied
<1>14. WritesOnly(w, k, time)
  BY <1>5, <1>11, <1>12 DEF WritesOnly
<1>15. /\ next.head..next.tail - 1 = (meta.head..meta.tail - 1) \ {i}
       /\ i \in meta.head..meta.tail - 1
  <2>1. CASE isLeft
    BY <1>2, <1>6, <1>7, <1>10, <2>1
  <2>2. CASE ~isLeft
    BY <1>2, <1>6, <1>7, <1>10, <2>2
  <2> QED
    BY <2>1, <2>2
<1>16. EntryKeys(k, next) = EntryKeys(k, meta) \ {lk} /\ lk \in EntryKeys(k, meta)
  <2>1. EntryKeys(k, meta)
          = {ListInternalKey(k, meta.version, j) : j \in meta.head..meta.tail - 1}
    BY <1>5, ListKeys
  <2>2. EntryKeys(k, next)
          = {ListInternalKey(k, meta.version, j) : j \in next.head..next.tail - 1}
    BY <1>10, ListKeys
  <2> QED
    BY <1>3, <1>15, <2>1, <2>2, KeysDiffer
<1>17. MetaKey(k) \notin EntryKeys(k, meta)
  BY <1>5, EntryKeyParts
<1>18. EntriesIn(n, k, next) = EntriesIn(m, k, meta) \ {lk}
  BY <1>13, <1>16, <1>17 DEF EntriesIn
<1>19. lk \in EntriesIn(m, k, meta) /\ RanksEntries(n, k, next)
  BY <1>8, <1>10, <1>16 DEF EntriesIn, RanksEntries
<1>20. next.tail - next.head = meta.tail - meta.head - 1
  BY <1>6, <1>10
<1>21. Describes(n, k, next)
  BY <1>5, <1>10, <1>18, <1>19, <1>20, ShrunkDescribes
<1> QED
  BY <1>1, <1>4, <1>5, <1>10, <1>13, <1>14, <1>21 DEF KeepsOrder

-----------------------------------------------------------------------------
(* The members of a sorted set are counted by their entries by member; the *)
(* entries by score and the metadata have other keys.                      *)
LEMMA RankedKeys ==
  ASSUME NEW k, NEW meta, meta.type = "ZSet", NEW x \in EntryKeys(k, meta)
  PROVE  /\ \E f \in Fields : x = ZSetMemberKey(k, meta.version, f)
         /\ \A s, f : x # ZSetScoreKey(k, meta.version, s, f)
         /\ x # MetaKey(k)
<1>1. PICK f \in Fields : x = ZSetMemberKey(k, meta.version, f)
  BY DEF EntryKeys
<1> QED
  BY <1>1 DEF ZSetMemberKey, ZSetScoreKey, MetaKey

(* After the entries of one member have been given one score, and no other *)
(* entry by score is left to it, the two kinds of entries agree.           *)
LEMMA RankedAgain ==
  ASSUME NEW m, NEW n, NEW k, NEW meta, NEW next, NEW field \in Fields, NEW score,
         RanksEntries(m, k, meta), meta.type = "ZSet", next.version = meta.version,
         NEW zk, zk = ZSetMemberKey(k, meta.version, field),
         NEW zs, zs = ZSetScoreKey(k, meta.version, score, field),
         zk \in DOMAIN n, n[zk] = score, zs \in DOMAIN n,
         \A s \in Scores : s # score => ZSetScoreKey(k, meta.version, s, field) \notin DOMAIN n,
         \A s \in Scores, f \in Fields :
           f # field =>
             /\ ZSetScoreKey(k, meta.version, s, f) \in DOMAIN n
                  <=> ZSetScoreKey(k, meta.version, s, f) \in DOMAIN m
             /\ ZSetMemberKey(k, meta.version, f) \in DOMAIN n
                  <=> ZSetMemberKey(k, meta.version, f) \in DOMAIN m
             /\ ZSetMemberKey(k, meta.version, f) \in DOMAIN m =>
                  n[ZSetMemberKey(k, meta.version, f)] = m[ZSetMemberKey(k, meta.version, f)]
  PROVE  RanksEntries(n, k, next)
<1> SUFFICES ASSUME NEW f \in Fields, NEW s \in Scores
             PROVE  ZSetScoreKey(k, meta.version, s, f) \in DOMAIN n
                      <=> /\ ZSetMemberKey(k, meta.version, f) \in DOMAIN n
                          /\ n[ZSetMemberKey(k, meta.version, f)] = s
  BY DEF RanksEntries
<1>1. CASE f = field
  BY <1>1
<1>2. CASE f # field
  <2>1. ZSetScoreKey(k, meta.version, s, f) \in DOMAIN m
          <=> /\ ZSetMemberKey(k, meta.version, f) \in DOMAIN m
              /\ m[ZSetMemberKey(k, meta.version, f)] = s
    BY DEF RanksEntries
  <2> QED
    BY <1>2, <2>1
<1> QED
  BY <1>1, <1>2

(* A sorted set takes a member, or a member another score.                 *)
LEMMA ZaddKeepsOrder ==
  ASSUME NEW m, NEW k \in Keys, NEW time \in Nat, NEW meta,
         WorksOn(m, k, meta, "ZSet", time), NEW field \in Fields, NEW score \in Scores,
         Zadd(k, meta, field, score, FALSE).write # NoWrite
  PROVE  KeepsOrder(m, Zadd(k, meta, field, score, FALSE).write, k, time)
<1>1. PICK w : w = Zadd(k, meta, field, score, FALSE).write
  OBVIOUS
<1>2. PICK zk : zk = ZSetMemberKey(k, meta.version, field)
  OBVIOUS
<1>3. PICK zs : zs = ZSetScoreKey(k, meta.version, score, field)
  OBVIOUS
<1>4. PICK n : n = Applied(m, w)
  OBVIOUS
<1>5. /\ Len(zk) = 3 /\ zk[1] = k /\ zk[2] = meta.version /\ zk # MetaKey(k)
      /\ Len(zs) = 5 /\ zs[1] = k /\ zs[2] = meta.version /\ zs # MetaKey(k) /\ zs # zk
      /\ meta \in MetadataType /\ meta.version \in 0..time /\ meta.type = "ZSet"
      /\ Describes(m, k, meta) /\ MetaKey(k)[1] = k /\ Len(MetaKey(k)) = 1
  BY <1>2, <1>3, KeyParts DEF WorksOn, ZSetMemberKey, ZSetScoreKey, MetaKey
<1>6. (zk \in DOMAIN m <=> zk \in DOMAIN store) /\ (zk \in DOMAIN m => m[zk] = store[zk])
  <2>1. Covers(m, store) /\ Len(zk) > 1
    BY <1>5 DEF WorksOn
  <2> QED
    BY <2>1, EntriesSame
<1>7. zk \in EntryKeys(k, meta)
  BY <1>2, <1>5 DEF EntryKeys
<1>8. RanksEntries(m, k, meta)
  BY <1>5 DEF Describes
<1>9. \A s \in Scores : ZSetScoreKey(k, meta.version, s, field) \in DOMAIN m
                          <=> zk \in DOMAIN m /\ m[zk] = s
  BY <1>2, <1>5, <1>8 DEF RanksEntries
<1>10. \A s, f : f # field => /\ ZSetScoreKey(k, meta.version, s, f) # zs
                              /\ ZSetMemberKey(k, meta.version, f) # zk
  BY <1>2, <1>3 DEF ZSetMemberKey, ZSetScoreKey
<1>11. \A s, f : /\ ZSetScoreKey(k, meta.version, s, f) # zk
                 /\ ZSetScoreKey(k, meta.version, s, f) # MetaKey(k)
                 /\ ZSetMemberKey(k, meta.version, f) # zs
                 /\ ZSetMemberKey(k, meta.version, f) # MetaKey(k)
  BY <1>2, <1>3 DEF ZSetMemberKey, ZSetScoreKey, MetaKey
<1>12. \A s : s # score => ZSetScoreKey(k, meta.version, s, field) # zs
  BY <1>3, KeysDiffer
<1>13. CASE zk \notin DOMAIN store
  <2>1. PICK next : next = Resized(meta, 1)
    OBVIOUS
  <2>2. /\ next \in MetadataType /\ next.type = "ZSet" /\ next.version = meta.version
        /\ next.size = meta.size + 1
    <3>1. meta.size + 1 \in Nat
      BY <1>5 DEF MetadataType
    <3> QED
      BY <1>5, <2>1, <3>1, ResizedFacts
  <2>3. /\ w.puts = With(With(With(<<>>, zk, score), zs, EmptyVal), MetaKey(k), next)
        /\ w.dels = {}
    BY <1>1, <1>2, <1>3, <1>13, <2>1 DEF Zadd, Lookup, Decision, Batch, Write
  <2>4. /\ DOMAIN w.puts = {zk, zs, MetaKey(k)}
        /\ w.puts[MetaKey(k)] = next /\ w.puts[zk] = score
    BY <1>5, <2>3, EmptyDomain DEF With
  <2>5. /\ DOMAIN n = {zk, zs, MetaKey(k)} \cup DOMAIN m
        /\ n[MetaKey(k)] = next /\ n[zk] = score
        /\ \A x \in DOMAIN m : x \notin {zk, zs, MetaKey(k)} => n[x] = m[x]
    BY <1>4, <2>3, <2>4 DEF Applied
  <2>6. WritesOnly(w, k, time)
    BY <1>5, <2>3, <2>4 DEF WritesOnly
  <2>7. EntryKeys(k, next) = EntryKeys(k, meta)
    BY <1>5, <2>2 DEF EntryKeys
  <2>8. MetaKey(k) \notin EntryKeys(k, meta) /\ zs \notin EntryKeys(k, meta)
    BY <1>3, <1>5, RankedKeys
  <2>9. EntriesIn(n, k, next) = EntriesIn(m, k, meta) \cup {zk}
    BY <1>7, <2>5, <2>7, <2>8 DEF EntriesIn
  <2>10. zk \notin EntriesIn(m, k, meta)
    BY <1>6, <1>13 DEF EntriesIn
  <2>11. \A s \in Scores : s # score => ZSetScoreKey(k, meta.version, s, field) \notin DOMAIN n
    BY <1>6, <1>9, <1>11, <1>12, <1>13, <2>5
  <2>12. \A s \in Scores, f \in Fields :
           f # field =>
             /\ ZSetScoreKey(k, meta.version, s, f) \in DOMAIN n
                  <=> ZSetScoreKey(k, meta.version, s, f) \in DOMAIN m
             /\ ZSetMemberKey(k, meta.version, f) \in DOMAIN n
                  <=> ZSetMemberKey(k, meta.version, f) \in DOMAIN m
             /\ ZSetMemberKey(k, meta.version, f) \in DOMAIN m =>
                  n[ZSetMemberKey(k, meta.version, f)] = m[ZSetMemberKey(k, meta.version, f)]
    BY <1>10, <1>11, <2>5
  <2>13. RanksEntries(n, k, next)
    BY <1>2, <1>3, <1>5, <1>8, <2>2, <2>5, <2>11, <2>12, RankedAgain
  <2>14. Describes(n, k, next)
    BY <1>5, <2>2, <2>9, <2>10, <2>13, GrownDescribes
  <2> QED
    BY <1>1, <1>4, <1>5, <2>2, <2>5, <2>6, <2>14 DEF KeepsOrder
<1>14. CASE zk \in DOMAIN store
  <2>1. PICK old : old = ZSetScoreKey(k, meta.version, store[zk], field)
    OBVIOUS
  <2>2. store[zk] # score
    BY <1>2, <1>14 DEF Zadd, Lookup, Say, Decision
  <2>3. w.puts = With(With(<<>>, zk, score), zs, EmptyVal) /\ w.dels = {old}
    BY <1>1, <1>2, <1>3, <1>14, <2>1, <2>2 DEF Zadd, Lookup, Decision, Batch, Write
  <2>4. DOMAIN w.puts = {zk, zs} /\ w.puts[zk] = score
    BY <1>5, <2>3, EmptyDomain DEF With
  <2>5. /\ DOMAIN n = {zk, zs} \cup (DOMAIN m \ {old}) /\ n[zk] = score
        /\ \A x \in DOMAIN m \ {old} : x \notin {zk, zs} => n[x] = m[x]
    BY <1>4, <2>3, <2>4 DEF Applied
  <2>6. old[1] = k /\ old # MetaKey(k)
    BY <2>1 DEF ZSetScoreKey, MetaKey
  <2>7. WritesOnly(w, k, time)
    BY <1>5, <2>3, <2>4, <2>6 DEF WritesOnly
  <2>8. MetaKey(k) \in DOMAIN m /\ m[MetaKey(k)] = meta
    BY <1>6, <1>7, <1>14 DEF WorksOn, EntriesIn
  <2>9. n[MetaKey(k)] = meta
    BY <1>5, <2>5, <2>6, <2>8
  <2>10. old \notin EntryKeys(k, meta) /\ zs \notin EntryKeys(k, meta)
    BY <1>3, <1>5, <2>1, RankedKeys
  <2>11. EntriesIn(n, k, meta) = EntriesIn(m, k, meta)
    BY <1>6, <1>14, <2>5, <2>10 DEF EntriesIn
  <2>12. \A s \in Scores : s # score => ZSetScoreKey(k, meta.version, s, field) \notin DOMAIN n
    BY <1>6, <1>9, <1>11, <1>12, <1>14, <2>1, <2>5
  <2>13. \A s, f : f # field => /\ ZSetScoreKey(k, meta.version, s, f) # old
                                /\ ZSetMemberKey(k, meta.version, f) # old
    BY <2>1, KeysDiffer DEF ZSetMemberKey, ZSetScoreKey
  <2>14. \A s \in Scores, f \in Fields :
           f # field =>
             /\ ZSetScoreKey(k, meta.version, s, f) \in DOMAIN n
                  <=> ZSetScoreKey(k, meta.version, s, f) \in DOMAIN m
             /\ ZSetMemberKey(k, meta.version, f) \in DOMAIN n
                  <=> ZSetMemberKey(k, meta.version, f) \in DOMAIN m
             /\ ZSetMemberKey(k, meta.version, f) \in DOMAIN m =>
                  n[ZSetMemberKey(k, meta.version, f)] = m[ZSetMemberKey(k, meta.version, f)]
    BY <1>10, <1>11, <2>5, <2>13
  <2>15. RanksEntries(n, k, meta)
    BY <1>2, <1>3, <1>5, <1>8, <2>5, <2>12, <2>14, RankedAgain
  <2>16. Describes(n, k, meta)
    BY <1>5, <2>11, <2>15 DEF Describes, CountsEntries
  <2> QED
    BY <1>1, <1>4, <1>5, <2>7, <2>9, <2>16 DEF KeepsOrder
<1> QED
  BY <1>13, <1>14

(* A string takes the place of whatever the key held.                      *)
LEMMA SetKeepsOrder ==
  ASSUME NEW m, NEW k \in Keys, NEW time \in Nat, NEW val, NEW ttl,
         Set(k, val, ttl, time).write # NoWrite
  PROVE  KeepsOrder(m, Set(k, val, ttl, time).write, k, time)
<1>1. PICK w : w = Set(k, val, ttl, time).write
  OBVIOUS
<1>2. PICK v : v = StringValue(val, IF ttl = 0 THEN 0 ELSE time + ttl)
  OBVIOUS
<1>3. w.puts = With(<<>>, MetaKey(k), v) /\ w.dels = {}
  BY <1>1, <1>2 DEF Set, Say, Decision, Put, Write
<1>4. DOMAIN w.puts = {MetaKey(k)} /\ w.puts[MetaKey(k)] = v
  BY <1>3, EmptyDomain DEF With
<1>5. Applied(m, w)[MetaKey(k)] = v
  BY <1>4 DEF Applied
<1>6. ~HasMeta(Applied(m, w), k)
  BY <1>2, <1>5 DEF HasMeta, StringValue
<1>7. WritesOnly(w, k, time)
  BY <1>3, <1>4, KeyParts DEF WritesOnly
<1> QED
  BY <1>1, <1>6, <1>7 DEF KeepsOrder

(* A del leaves no metadata.                                               *)
LEMMA DeleteKeepsOrder ==
  ASSUME NEW m, NEW k \in Keys, NEW time \in Nat
  PROVE  KeepsOrder(m, Delete(MetaKey(k)), k, time)
<1>1. PICK w : w = Delete(MetaKey(k))
  OBVIOUS
<1>2. w.dels = {MetaKey(k)} /\ DOMAIN w.puts = {}
  BY <1>1, EmptyDomain DEF Delete, Write
<1>3. MetaKey(k) \notin DOMAIN Applied(m, w)
  BY <1>2 DEF Applied
<1>4. WritesOnly(w, k, time)
  BY <1>2, KeyParts DEF WritesOnly
<1> QED
  BY <1>1, <1>3, <1>4 DEF KeepsOrder, HasMeta

-----------------------------------------------------------------------------
(* The arguments of a command.                                             *)
LEMMA CommandFields ==
  ASSUME NEW a \in Commands
  PROVE  /\ a.op \in AllOps /\ a.key \in Keys
         /\ a.op \in {"hset", "hdel", "sadd", "srem", "zadd"} => a.field \in Fields
         /\ a.op = "zadd" => a.score \in Scores
<1>1. Ops \subseteq AllOps
  BY CommandsAssumption
<1>2. CASE a \in [op : Ops \cap {"set"}, key : Keys, val : Vals \cup {EmptyVal}, ttl : TTLs]
  BY <1>1, <1>2
<1>3. CASE a \in [op : Ops \cap {"get", "del", "type", "lpop", "rpop"}, key : Keys]
  BY <1>1, <1>3
<1>4. CASE a \in [op : Ops \cap {"hset"}, key : Keys, field : Fields, val : Vals]
  BY <1>1, <1>4
<1>5. CASE a \in [op : Ops \cap {"hget", "hdel", "sadd", "sismember", "srem", "zscore"},
                  key : Keys, field : Fields]
  BY <1>1, <1>5
<1>6. CASE a \in [op : Ops \cap {"lpush", "rpush"}, key : Keys, val : Vals]
  BY <1>1, <1>6
<1>7. CASE a \in [op : Ops \cap {"zadd"}, key : Keys, field : Fields, score : Scores]
  BY <1>1, <1>7
<1> QED
  BY <1>2, <1>3, <1>4, <1>5, <1>6, <1>7 DEF Commands

(* A command that writes to a collection works on metadata that fit.       *)
LEMMA FoundWorksOn ==
  ASSUME NEW m, NEW k \in Keys, NEW old \in Nat, NEW type \in CollectionTypes,
         Consistent(m, old), Covers(m, store), ~WrongType(k, type)
  PROVE  WorksOn(m, k, FindMetadata(k, type, old + 1), type, old + 1)
BY MetaDescribes DEF WorksOn

(* Only the delete of a del is one.                                        *)
LEMMA WriteKinds ==
  ASSUME NEW puts, NEW dels, NEW x, NEW v
  PROVE  Batch(puts, dels).kind = "batch" /\ Put(x, v).kind = "put"
BY DEF Batch, Put, Write

LEMMA OtherKinds == ASSUME NEW x PROVE Delete(x).kind = "delete" /\ NoWrite.kind = "none"
BY DEF Delete, NoWrite, Write

LEMMA SayWritesNothing == ASSUME NEW r PROVE Say(r).write = NoWrite
BY DEF Say, Decision

(* Whatever a command decides to write, on reads that have not failed,     *)
(* keeps its collection in order.                                          *)
LEMMA CollectionKeepsOrder ==
  ASSUME NEW a \in Commands, NEW m, NEW k \in Keys, NEW time \in Nat, NEW meta, NEW w,
         k = a.key, w = CollectionDecision(a, meta, FALSE).write, w # NoWrite,
         a.op \notin {"set", "get", "del", "type"},
         WorksOn(m, k, meta, TypeOf(a.op), time)
  PROVE  KeepsOrder(m, w, k, time) /\ w.kind \in {"put", "batch"}
<1>1. /\ a.op \in AllOps /\ a.key \in Keys
      /\ a.op \in {"hset", "hdel", "sadd", "srem", "zadd"} => a.field \in Fields
      /\ a.op = "zadd" => a.score \in Scores
  BY CommandFields
<1>2. CASE a.op = "hset"
  <2>1. w = Hset(k, meta, a.field, a.val, FALSE).write
    BY <1>2 DEF CollectionDecision
  <2>2. WorksOn(m, k, meta, "Hash", time)
    BY <1>2 DEF TypeOf
  <2>3. w.kind = "batch"
    BY <2>1, WriteKinds DEF Hset, Decision
  <2> QED
    BY <1>1, <1>2, <2>1, <2>2, <2>3, HsetKeepsOrder
<1>3. CASE a.op = "hdel"
  <2>1. w = Hdel(k, meta, a.field, FALSE).write
    BY <1>3 DEF CollectionDecision
  <2>2. WorksOn(m, k, meta, "Hash", time)
    BY <1>3 DEF TypeOf
  <2>3. w.kind = "batch"
    BY <2>1, WriteKinds, SayWritesNothing DEF Hdel, Decision
  <2> QED
    BY <1>1, <1>3, <2>1, <2>2, <2>3, HdelKeepsOrder
<1>4. CASE a.op = "sadd"
  <2>1. w = Sadd(k, meta, a.field, FALSE).write
    BY <1>4 DEF CollectionDecision
  <2>2. WorksOn(m, k, meta, "Set", time)
    BY <1>4 DEF TypeOf
  <2>3. w.kind = "batch"
    BY <2>1, WriteKinds, SayWritesNothing DEF Sadd, Decision
  <2> QED
    BY <1>1, <1>4, <2>1, <2>2, <2>3, SaddKeepsOrder
<1>5. CASE a.op = "srem"
  <2>1. w = Srem(k, meta, a.field, FALSE).write
    BY <1>5 DEF CollectionDecision
  <2>2. WorksOn(m, k, meta, "Set", time)
    BY <1>5 DEF TypeOf
  <2>3. w.kind = "batch"
    BY <2>1, WriteKinds, SayWritesNothing DEF Srem, Decision
  <2> QED
    BY <1>1, <1>5, <2>1, <2>2, <2>3, SremKeepsOrder
<1>6. CASE a.op \in {"lpush", "rpush"}
  <2>0. PICK left \in BOOLEAN : left = (a.op = "lpush")
    OBVIOUS
  <2>1. w = PushInner(k, meta, a.val, left).write
    BY <1>6, <2>0 DEF CollectionDecision
  <2>2. WorksOn(m, k, meta, "List", time)
    BY <1>6 DEF TypeOf
  <2>3. w.kind = "batch"
    BY <2>1, WriteKinds DEF PushInner, Decision
  <2> QED
    BY <2>1, <2>2, <2>3, PushKeepsOrder
<1>7. CASE a.op \in {"lpop", "rpop"}
  <2>0. PICK left \in BOOLEAN : left = (a.op = "lpop")
    OBVIOUS
  <2>1. w = PopInner(k, meta, left, FALSE).write
    BY <1>7, <2>0 DEF CollectionDecision
  <2>2. WorksOn(m, k, meta, "List", time)
    BY <1>7 DEF TypeOf
  <2>3. w.kind = "put"
    BY <2>1, WriteKinds, SayWritesNothing DEF PopInner, Decision
  <2> QED
    BY <2>1, <2>2, <2>3, PopKeepsOrder
<1>8. CASE a.op = "zadd"
  <2>1. w = Zadd(k, meta, a.field, a.score, FALSE).write
    BY <1>8 DEF CollectionDecision
  <2>2. WorksOn(m, k, meta, "ZSet", time)
    BY <1>8 DEF TypeOf
  <2>3. w.kind = "batch"
    <3>1. PICK zk, found : zk = ZSetMemberKey(k, meta.version, a.field) /\ found = Lookup(zk, FALSE)
      OBVIOUS
    <3>2. CASE found = "KeyNotFound"
      BY <2>1, <3>1, <3>2, WriteKinds DEF Zadd, Decision
    <3>3. CASE found = "Ok"
      <4>1. store[zk] # a.score
        BY <2>1, <3>1, <3>3, SayWritesNothing DEF Zadd
      <4>2. \E puts, dels : w = Batch(puts, dels)
        BY <2>1, <3>1, <3>3, <4>1 DEF Zadd, Decision
      <4> QED
        BY <4>2, WriteKinds
    <3> QED
      BY <3>1, <3>2, <3>3 DEF Lookup
  <2> QED
    BY <1>1, <1>8, <2>1, <2>2, <2>3, ZaddKeepsOrder
<1>9. CASE a.op = "hget"
  BY <1>9 DEF CollectionDecision, Hget, Say, Decision
<1>10. CASE a.op = "sismember"
  BY <1>10 DEF CollectionDecision, SIsMember, Say, Decision
<1>11. CASE a.op = "zscore"
  BY <1>11 DEF CollectionDecision, Zscore, Say, Decision
<1> QED
  BY <1>1, <1>2, <1>3, <1>4, <1>5, <1>6, <1>7, <1>8, <1>9, <1>10, <1>11 DEF AllOps

(* Commands that only read decide to write nothing.                        *)
LEMMA ReadersWriteNothing ==
  ASSUME NEW a \in Commands, NEW time, NEW failed, ~MayWrite(a)
  PROVE  DecisionOf(a, time, failed).write = NoWrite
<1>1. a.op \in {"get", "type", "hget", "sismember", "zscore"}
  BY DEF MayWrite
<1>2. CASE a.op = "get"
  BY <1>2 DEF DecisionOf, Get, Say, Decision
<1>3. CASE a.op = "type"
  BY <1>3 DEF DecisionOf, KeyType, Say, Decision
<1>4. ASSUME NEW meta, a.op \in {"hget", "sismember", "zscore"}
      PROVE  CollectionDecision(a, meta, failed).write = NoWrite
  <2>1. CASE a.op = "hget"
    BY <2>1 DEF CollectionDecision, Hget, Say, Decision
  <2>2. CASE a.op = "sismember"
    BY <2>2 DEF CollectionDecision, SIsMember, Say, Decision
  <2>3. CASE a.op = "zscore"
    BY <2>3 DEF CollectionDecision, Zscore, Say, Decision
  <2> QED
    BY <1>4, <2>1, <2>2, <2>3
<1>5. CASE a.op \in {"hget", "sismember", "zscore"}
  BY <1>4, <1>5 DEF DecisionOf, Say, Decision
<1> QED
  BY <1>1, <1>2, <1>3, <1>5

LEMMA DecisionKeepsOrder ==
  ASSUME NEW a \in Commands, NEW m, NEW old \in Nat, NEW w,
         Consistent(m, old), Covers(m, store), MayWrite(a),
         w = DecisionOf(a, old + 1, FALSE).write, w # NoWrite
  PROVE  /\ KeepsOrder(m, w, a.key, old + 1)
         /\ w.kind \in {"put", "batch"} \/ w = Delete(MetaKey(a.key))
<1>1. a.key \in Keys /\ a.op \in AllOps
  BY CommandFields
<1>t. PICK time \in Nat : time = old + 1
  OBVIOUS
<1>2. CASE a.op = "set"
  <2>1. w = Set(a.key, a.val, a.ttl, time).write
    BY <1>2, <1>t DEF DecisionOf
  <2>2. w.kind = "put"
    BY <2>1, WriteKinds, SayWritesNothing DEF Set, Decision
  <2> QED
    BY <1>1, <1>t, <2>1, <2>2, SetKeepsOrder
<1>3. CASE a.op = "del"
  <2>1. w = Delete(MetaKey(a.key))
    BY <1>3 DEF DecisionOf, Del, Say, Decision
  <2> QED
    BY <1>1, <1>t, <2>1, DeleteKeepsOrder
<1>4. CASE a.op \notin {"set", "get", "del", "type"}
  <2>1. PICK type : type = TypeOf(a.op)
    OBVIOUS
  <2>2. type \in CollectionTypes
    BY <1>1, <1>4, <2>1 DEF AllOps, TypeOf, CollectionTypes
  <2>3. ~WrongType(a.key, type)
    BY <1>4, <2>1 DEF DecisionOf, Say, Decision
  <2>4. PICK meta : meta = FindMetadata(a.key, type, old + 1)
    OBVIOUS
  <2>5. w = CollectionDecision(a, meta, FALSE).write
    BY <1>4, <2>1, <2>3, <2>4 DEF DecisionOf
  <2>6. WorksOn(m, a.key, meta, type, time)
    BY <1>1, <1>t, <2>2, <2>3, <2>4, FoundWorksOn
  <2>7. KeepsOrder(m, w, a.key, time) /\ w.kind \in {"put", "batch"}
    BY <1>1, <1>4, <2>1, <2>5, <2>6, CollectionKeepsOrder
  <2> QED
    BY <1>t, <2>7
<1> QED
  BY <1>2, <1>3, <1>4 DEF MayWrite

-----------------------------------------------------------------------------
(* A map stays consistent while the clock moves on.                        *)
LEMMA ConsistentLater ==
  ASSUME NEW m, NEW old \in Nat, NEW time \in Nat, old <= time, Consistent(m, old)
  PROVE  Consistent(m, time)
<1>1. ASSUME NEW k \in Keys, HasMeta(m, k)
      PROVE  Describes(m, k, m[MetaKey(k)]) /\ m[MetaKey(k)].version \in 0..time
  <2>1. Describes(m, k, m[MetaKey(k)]) /\ m[MetaKey(k)].version \in 0..old
    BY <1>1 DEF Consistent
  <2> QED
    BY <2>1
<1>2. ASSUME NEW x \in DOMAIN m, Len(x) > 1
      PROVE  x[2] \in 0..time
  <2>1. x[2] \in 0..old
    BY <1>2 DEF Consistent
  <2> QED
    BY <2>1
<1> QED
  BY <1>1, <1>2 DEF Consistent

(* A replay passes over a plain delete whose bytes are no key of a client. *)
LEMMA PlainReplay ==
  ASSUME TombstonesHarmless, NEW map, NEW w
  PROVE  Replayed(map, w) = (IF w.kind = "delete" THEN map ELSE Applied(map, w))
<1>1. Struck(w) = {}
  BY DEF Struck, Acting, TombstonesHarmless
<1>2. Lacking(map, Struck(w)) = map
  BY <1>1 DEF Lacking
<1> QED
  BY <1>2 DEF Replayed

(* It is the same as long as no batch takes a number.                      *)
LEMMA SameReplay ==
  ASSUME seqNo' = seqNo, waiting' = waiting, NEW map, NEW w
  PROVE  Replayed(map, w)' = Replayed(map, w)
BY DEF Replayed, Struck, Acting, Lacking

(* What a command decides to write keeps the store and the log in order.   *)
LEMMA DecisionConsistent ==
  ASSUME TombstonesHarmless, NEW a \in Commands, NEW last, NEW old \in Nat, NEW time \in Nat, NEW w,
         Consistent(store, old), Consistent(last, old), Covers(last, store),
         MayWrite(a), time = old + 1, w = DecisionOf(a, time, FALSE).write, w # NoWrite
  PROVE  /\ Consistent(Applied(store, w), time)
         /\ Consistent(Replayed(last, w), time)
         /\ Covers(Replayed(last, w), Applied(store, w))
         /\ w.kind \in {"put", "delete", "batch"}
<1>1. a.key \in Keys
  BY CommandFields
<1>2. PICK k \in Keys : k = a.key
  BY <1>1
<1>3. Covers(store, store)
  BY DEF Covers
<1>4. old <= time
  OBVIOUS
<1>5. /\ KeepsOrder(store, w, k, time)
      /\ w.kind \in {"put", "batch"} \/ w = Delete(MetaKey(k))
  BY <1>2, <1>3, DecisionKeepsOrder
<1>6. KeepsOrder(last, w, k, time)
  BY <1>2, DecisionKeepsOrder
<1>7. Consistent(Applied(store, w), time)
  BY <1>4, <1>5, UpdateConsistent DEF KeepsOrder
<1>8. Consistent(Applied(last, w), time)
  BY <1>4, <1>6, UpdateConsistent DEF KeepsOrder
<1>9. Consistent(last, time)
  BY <1>4, ConsistentLater
<1>10. CASE w.kind \in {"put", "batch"}
  <2>1. Replayed(last, w) = Applied(last, w)
    BY <1>10, PlainReplay
  <2> QED
    BY <1>7, <1>8, <1>10, <2>1, CoversKept
<1>11. CASE w = Delete(MetaKey(k))
  <2>1. w.kind = "delete"
    BY <1>11, OtherKinds
  <2>2. Replayed(last, w) = last
    BY <2>1, PlainReplay
  <2> QED
    BY <1>7, <1>9, <1>11, <2>1, <2>2, CoversDeleted
<1> QED
  BY <1>5, <1>10, <1>11

-----------------------------------------------------------------------------
(* The last of the images is one of them.                                  *)
LEMMA LastImage ==
  ASSUME NEW s, s \in Seq(Range(s)), s # <<>>
  PROVE  Len(s) \in DOMAIN s /\ Last(s) = s[Len(s)] /\ Len(s) \in Nat /\ DOMAIN s = 1..Len(s)
BY DEF Last

(* One more image, or only the first ones.                                 *)
LEMMA AppendImage ==
  ASSUME NEW s, s \in Seq(Range(s)), NEW r
  PROVE  /\ Append(s, r) \in Seq(Range(Append(s, r)))
         /\ Append(s, r) # <<>> /\ Last(Append(s, r)) = r
         /\ \A n \in DOMAIN Append(s, r) :
              Append(s, r)[n] = r \/ (n \in DOMAIN s /\ Append(s, r)[n] = s[n])
<1>t. PICK t : t = Append(s, r)
  OBVIOUS
<1>1. PICK S : S = Range(s) \cup {r}
  OBVIOUS
<1>2. s \in Seq(S)
  BY <1>1
<1>3. /\ t \in Seq(S) /\ Len(t) = Len(s) + 1 /\ t[Len(s) + 1] = r /\ Len(s) \in Nat
      /\ \A n \in 1..Len(s) : t[n] = s[n]
  BY <1>t, <1>1, <1>2
<1>4. t \in Seq(Range(t))
  BY <1>3, SeqOfRange
<1>5. DOMAIN t = 1..Len(s) + 1 /\ DOMAIN s = 1..Len(s)
  BY <1>2, <1>3
<1>6. t # <<>> /\ Last(t) = r
  BY <1>3, <1>5 DEF Last
<1>7. \A n \in DOMAIN t : t[n] = r \/ (n \in DOMAIN s /\ t[n] = s[n])
  BY <1>3, <1>5
<1> QED
  BY <1>t, <1>4, <1>6, <1>7

LEMMA FirstImages ==
  ASSUME NEW S, NEW s \in Seq(S), NEW n \in DOMAIN s, NEW t, t = SubSeq(s, 1, n)
  PROVE  /\ t \in Seq(Range(t)) /\ t # <<>> /\ Last(t) = s[n]
         /\ \A i \in DOMAIN t : i \in DOMAIN s /\ t[i] = s[i]
<1>1. Len(s) \in Nat /\ n \in 1..Len(s) /\ DOMAIN s = 1..Len(s)
  OBVIOUS
<1>2. /\ t \in Seq(S) /\ Len(t) = n
      /\ \A i \in 1..n : t[i] = s[i]
  BY <1>1
<1>3. t \in Seq(Range(t))
  BY <1>2, SeqOfRange
<1>4. DOMAIN t = 1..n
  BY <1>2
<1> QED
  BY <1>1, <1>2, <1>3, <1>4 DEF Last

-----------------------------------------------------------------------------
(* The shape of the stored metadata follows from the rest.                 *)
LEMMA StoredMetadata ==
  ASSUME NEW m, NEW time, Consistent(m, time)
  PROVE  \A k \in Keys : HasMeta(m, k) => m[MetaKey(k)] \in MetadataType
BY DEF Consistent, Describes

(* The mutex lets one command run.                                         *)
LEMMA OthersIdle ==
  ASSUME RedisInv, NEW c \in Clients, NEW d \in Clients, d # c, lock \in {c, NoClient}
  PROVE  pc[d] = "idle"
BY RedisAssumption DEF RedisInv, OneCommand

(* Of the numbers of the bounds.                                           *)
LEMMA Counters ==
  ASSUME RedisInv
  PROVE  /\ MaxWrites \in Nat /\ MaxRestarts \in Nat
         /\ now \in Nat /\ quota \in Nat /\ restarts \in Nat
         /\ now + quota <= MaxWrites
BY RedisAssumption DEF RedisInv, RedisTypeOK

(* A handler takes the mutex when no command runs.                         *)
LEMMA HandleKeepsInv ==
  ASSUME RedisInv, NEW c \in Clients, NEW a \in Commands, Handle(c, a)
  PROVE  RedisInv'
<1>1. /\ store' = store /\ images' = images /\ now' = now /\ write' = write
      /\ restarts' = restarts /\ lock = NoClient /\ lock' = c
      /\ pc' = [pc EXCEPT ![c] = "read"] /\ cmd' = [cmd EXCEPT ![c] = a]
      /\ MayWrite(a) => quota > 0
      /\ quota' = IF MayWrite(a) THEN quota - 1 ELSE quota
      /\ waiting' = waiting
  BY DEF Handle, Goto, Lock, engineVars
<1>2. /\ pc \in [Clients -> {"idle", "read", "write", "done"}]
      /\ cmd \in [Clients -> Commands \cup {NoCall}]
  BY DEF RedisInv, RedisTypeOK
<1>3. /\ quota' \in 0..MaxWrites /\ now + quota' <= MaxWrites
      /\ MayWrite(a) => now + quota' < MaxWrites
  BY <1>1, Counters
<1>4. RedisTypeOK'
  BY <1>1, <1>2, <1>3 DEF RedisInv, RedisTypeOK, HasMeta
<1>5. ImagesConsistent'
  BY <1>1 DEF RedisInv, ImagesConsistent
<1>6. OneCommand'
  <2> SUFFICES ASSUME NEW d \in Clients
               PROVE  /\ pc'[d] # "idle" => lock' = d
                      /\ pc'[d] = "read" => /\ cmd'[d] \in Commands
                                            /\ MayWrite(cmd[d])' => now' + quota' < MaxWrites
                      /\ pc'[d] = "write" => WriteConsistent(write[d])'
    BY DEF OneCommand
  <2>1. CASE d = c
    <3>1. pc'[d] = "read" /\ cmd'[d] = a
      BY <1>1, <1>2, <2>1
    <3>2. MayWrite(cmd[d])' => MayWrite(a)
      BY <3>1 DEF MayWrite
    <3> QED
      BY <1>1, <1>3, <2>1, <3>1, <3>2
  <2>2. CASE d # c
    <3>1. pc'[d] = "idle"
      BY <1>1, <1>2, <2>2, OthersIdle
    <3> QED
      BY <3>1
  <2> QED
    BY <2>1, <2>2
<1> QED
  BY <1>1, <1>3, <1>4, <1>5, <1>6 DEF RedisInv

(* A command that reads decides on a write that is right for the store and *)
(* the log as they are until it gives the mutex back.                      *)
LEMMA ReadKeepsInv ==
  ASSUME TombstonesHarmless, RedisInv, NEW c \in Clients, NEW out \in {"ok", "meta"}, Read(c, out)
  PROVE  RedisInv'
<1>1. PICK a : a = cmd[c]
  OBVIOUS
<1>2. PICK time : time = IF MayWrite(a) THEN now + 1 ELSE now
  OBVIOUS
<1>3. PICK d : d = IF out = "meta" THEN Say(Status("Error")) ELSE DecisionOf(a, time, FALSE)
  OBVIOUS
<1>4. PICK w : w = d.write
  OBVIOUS
<1>5. /\ store' = store /\ images' = images /\ lock' = lock /\ cmd' = cmd
      /\ quota' = quota /\ restarts' = restarts /\ now' = time /\ pc[c] = "read"
      /\ seqNo' = seqNo /\ waiting' = waiting
      /\ pc' = [pc EXCEPT ![c] = IF w = NoWrite THEN "done" ELSE "write"]
      /\ write' = [write EXCEPT ![c] = w]
  <2>1. out # "lookup"
    OBVIOUS
  <2>2. (out = "lookup") = FALSE
    BY <2>1
  <2> QED
    BY <1>1, <1>2, <1>3, <1>4, <2>2 DEF Read, Goto, engineVars
<1>6. /\ pc \in [Clients -> {"idle", "read", "write", "done"}]
      /\ cmd \in [Clients -> Commands \cup {NoCall}] /\ DOMAIN write = Clients
      /\ \A e \in Clients : write[e].kind \in {"none", "put", "delete", "batch"}
  BY DEF RedisInv, RedisTypeOK
<1>7. /\ lock = c /\ a \in Commands
      /\ MayWrite(a) => now + quota < MaxWrites
  BY <1>1, <1>5 DEF RedisInv, OneCommand
<1>8. /\ time \in Nat /\ now \in Nat /\ now <= time /\ time \in 0..MaxWrites
      /\ time + quota <= MaxWrites
  BY <1>2, <1>7, Counters
<1>9. PICK last : last = Last(images)
  OBVIOUS
<1>10. /\ Consistent(store, now) /\ Consistent(last, now) /\ Covers(last, store)
       /\ \A n \in DOMAIN images : Consistent(images[n], now)
  BY <1>9, LastImage DEF RedisInv, ImagesConsistent
<1>11. w = NoWrite \/ (/\ Consistent(Applied(store, w), time)
                       /\ Consistent(Replayed(last, w), time)
                       /\ Covers(Replayed(last, w), Applied(store, w))
                       /\ w.kind \in {"put", "delete", "batch"})
  <2>1. CASE out = "meta"
    BY <1>3, <1>4, <2>1, SayWritesNothing
  <2>2. CASE out # "meta" /\ ~MayWrite(a)
    BY <1>3, <1>4, <1>7, <2>2, ReadersWriteNothing
  <2>3. CASE out # "meta" /\ MayWrite(a)
    <3>1. time = now + 1 /\ w = DecisionOf(a, time, FALSE).write
      BY <1>2, <1>3, <1>4, <2>3
    <3> QED
      BY <1>7, <1>8, <1>10, <2>3, <3>1, DecisionConsistent
  <2> QED
    BY <2>1, <2>2, <2>3
<1>12. w.kind \in {"none", "put", "delete", "batch"}
  BY <1>11, OtherKinds
<1>13. Consistent(store, time) /\ \A n \in DOMAIN images : Consistent(images[n], time)
  BY <1>8, <1>10, ConsistentLater
<1>14. ImagesConsistent'
  <2>1. Consistent(store, now)'
    BY <1>5, <1>13 DEF Consistent
  <2> QED
    BY <1>5, <1>13 DEF RedisInv, ImagesConsistent
<1>15. RedisTypeOK'
  <2>1. pc' \in [Clients -> {"idle", "read", "write", "done"}]
    BY <1>5, <1>6
  <2>2. DOMAIN write' = Clients /\ \A e \in Clients : write'[e].kind \in {"none", "put", "delete", "batch"}
    BY <1>5, <1>6, <1>12
  <2> QED
    BY <1>5, <1>6, <1>8, <2>1, <2>2 DEF RedisInv, RedisTypeOK, HasMeta
<1>16. OneCommand'
  <2> SUFFICES ASSUME NEW e \in Clients
               PROVE  /\ pc'[e] # "idle" => lock' = e
                      /\ pc'[e] = "read" => /\ cmd'[e] \in Commands
                                            /\ MayWrite(cmd[e])' => now' + quota' < MaxWrites
                      /\ pc'[e] = "write" => WriteConsistent(write[e])'
    BY DEF OneCommand
  <2>1. CASE e = c
    <3>1. pc'[e] = (IF w = NoWrite THEN "done" ELSE "write") /\ write'[e] = w
      BY <1>5, <1>6, <2>1
    <3>2. ASSUME w # NoWrite
          PROVE  WriteConsistent(write[e])'
      <4>1. Replayed(last, w)' = Replayed(last, w)
        BY <1>5, SameReplay
      <4>2. Last(images)' = last
        BY <1>5, <1>9
      <4>3. Replayed(Last(images), write[e])' = Replayed(last, w)
        BY <3>1, <4>1, <4>2 DEF Replayed, Struck, Acting, Deleted, Lacking
      <4> QED
        BY <1>5, <1>11, <3>1, <3>2, <4>3 DEF WriteConsistent
    <3> QED
      BY <1>5, <1>7, <2>1, <3>1, <3>2
  <2>2. CASE e # c
    <3>1. pc'[e] = "idle"
      BY <1>5, <1>6, <1>7, <2>2, OthersIdle
    <3> QED
      BY <3>1
  <2> QED
    BY <2>1, <2>2
<1> QED
  BY <1>5, <1>8, <1>14, <1>15, <1>16 DEF RedisInv

(* A write reaches the store and the log together, or neither.             *)
LEMMA CommitKeepsInv ==
  ASSUME RedisInv, NEW c \in Clients, NEW out \in {"ok", "write"}, Commit(c, out)
  PROVE  RedisInv'
<1>1. PICK w : w = write[c]
  OBVIOUS
<1>2. PICK last : last = Last(images)
  OBVIOUS
<1>3. PICK r : r = Replayed(last, w)
  OBVIOUS
<1>4. /\ pc[c] = "write" /\ pc' = [pc EXCEPT ![c] = "done"]
      /\ store' = (IF out = "ok" THEN Applied(store, w) ELSE store)
      /\ out = "write" => images' = images
      /\ out = "ok" => images' = <<r>> \/ images' = Append(images, r)
      /\ write' = [write EXCEPT ![c] = NoWrite]
      /\ lock' = lock /\ cmd' = cmd /\ now' = now /\ quota' = quota /\ restarts' = restarts
  BY <1>1, <1>2, <1>3 DEF Commit, Goto
<1>4a. waiting' \subseteq Keys
  <2>1. waiting \subseteq Keys
    BY DEF RedisInv, RedisTypeOK
  <2>2. Deleted(w) \subseteq Keys
    BY DEF Deleted
  <2> QED
    BY <1>1, <2>1, <2>2 DEF Commit
<1>5. /\ pc \in [Clients -> {"idle", "read", "write", "done"}] /\ DOMAIN write = Clients
      /\ \A e \in Clients : write[e].kind \in {"none", "put", "delete", "batch"}
  BY DEF RedisInv, RedisTypeOK
<1>6. /\ lock = c
      /\ Consistent(Applied(store, w), now) /\ Consistent(r, now)
      /\ Covers(r, Applied(store, w))
  BY <1>1, <1>2, <1>3, <1>4 DEF RedisInv, OneCommand, WriteConsistent
<1>7. /\ images \in Seq(Range(images)) /\ images # <<>>
      /\ Consistent(store, now) /\ Covers(last, store)
      /\ \A n \in DOMAIN images : Consistent(images[n], now)
  BY <1>2 DEF RedisInv, ImagesConsistent
<1>8. ImagesConsistent'
  <2>1. CASE out = "write"
    BY <1>4, <1>7, <2>1 DEF RedisInv, ImagesConsistent
  <2>2. CASE out = "ok" /\ images' = <<r>>
    <3>1. <<r>> \in Seq({r}) /\ DOMAIN <<r>> = {1} /\ <<r>>[1] = r /\ <<r>> # <<>>
      OBVIOUS
    <3>2. <<r>> \in Seq(Range(<<r>>))
      BY <3>1, SeqOfRange
    <3>3. Last(<<r>>) = r
      BY DEF Last
    <3> QED
      BY <1>4, <1>6, <2>2, <3>1, <3>2, <3>3 DEF ImagesConsistent
  <2>3. CASE out = "ok" /\ images' = Append(images, r)
    <3>1. /\ images' \in Seq(Range(images')) /\ images' # <<>> /\ Last(images') = r
          /\ \A n \in DOMAIN images' :
               images'[n] = r \/ (n \in DOMAIN images /\ images'[n] = images[n])
      BY <1>7, <2>3, AppendImage
    <3>2. ASSUME NEW n \in DOMAIN images'
          PROVE  Consistent(images'[n], now)
      BY <1>6, <1>7, <3>1, <3>2
    <3> QED
      BY <1>4, <1>6, <2>3, <3>1, <3>2 DEF ImagesConsistent
  <2> QED
    BY <1>4, <2>1, <2>2, <2>3
<1>9. RedisTypeOK'
  <2>1. pc' \in [Clients -> {"idle", "read", "write", "done"}]
    BY <1>4, <1>5
  <2>2. /\ DOMAIN write' = Clients
        /\ \A e \in Clients : write'[e].kind \in {"none", "put", "delete", "batch"}
    BY <1>4, <1>5, OtherKinds
  <2>3. Consistent(store', now)
    BY <1>4, <1>6, <1>7
  <2>4. \A k \in Keys : HasMeta(store', k) => store'[MetaKey(k)] \in MetadataType
    BY <2>3, StoredMetadata
  <2> QED
    BY <1>4, <1>4a, <2>1, <2>2, <2>4 DEF RedisInv, RedisTypeOK, HasMeta
<1>10. OneCommand'
  <2> SUFFICES ASSUME NEW e \in Clients
               PROVE  /\ pc'[e] # "idle" => lock' = e
                      /\ pc'[e] # "read" /\ pc'[e] # "write"
    BY DEF OneCommand
  <2>1. CASE e = c
    BY <1>4, <1>5, <1>6, <2>1
  <2>2. CASE e # c
    BY <1>4, <1>5, <1>6, <2>2, OthersIdle
  <2> QED
    BY <2>1, <2>2
<1> QED
  BY <1>4, <1>8, <1>9, <1>10 DEF RedisInv

(* The answer gives the mutex back.                                        *)
LEMMA ReplyKeepsInv ==
  ASSUME RedisInv, NEW c \in Clients, Reply(c)
  PROVE  RedisInv'
<1>1. /\ store' = store /\ images' = images /\ now' = now /\ write' = write
      /\ quota' = quota /\ restarts' = restarts /\ lock' = NoClient /\ pc[c] = "done"
      /\ pc' = [pc EXCEPT ![c] = "idle"] /\ cmd' = [cmd EXCEPT ![c] = NoCall]
      /\ waiting' = waiting
  BY DEF Reply, Goto, engineVars
<1>2. /\ pc \in [Clients -> {"idle", "read", "write", "done"}]
      /\ cmd \in [Clients -> Commands \cup {NoCall}]
  BY DEF RedisInv, RedisTypeOK
<1>3. lock = c
  BY <1>1 DEF RedisInv, OneCommand
<1>4. RedisTypeOK'
  BY <1>1, <1>2 DEF RedisInv, RedisTypeOK, HasMeta
<1>5. ImagesConsistent'
  BY <1>1 DEF RedisInv, ImagesConsistent
<1>6. \A e \in Clients : pc'[e] = "idle"
  BY <1>1, <1>2, <1>3, OthersIdle
<1>7. OneCommand'
  BY <1>6 DEF OneCommand
<1> QED
  BY <1>1, <1>4, <1>5, <1>7 DEF RedisInv

(* A restart finds one of the images, and no command survives it.          *)
LEMMA ServerRestartKeepsInv ==
  ASSUME RedisInv, ServerRestart
  PROVE  RedisInv'
<1>1. PICK n \in DOMAIN images : store' = images[n] /\ images' = SubSeq(images, 1, n)
  BY DEF ServerRestart
<1>2. /\ restarts < MaxRestarts /\ restarts' = restarts + 1 /\ lock' = NoClient
      /\ pc' = [c \in Clients |-> "idle"] /\ cmd' = [c \in Clients |-> NoCall]
      /\ write' = [c \in Clients |-> NoWrite] /\ now' = now /\ quota' = quota
      /\ waiting' = {}
  BY DEF ServerRestart
<1>3. images \in Seq(Range(images)) /\ \A i \in DOMAIN images : Consistent(images[i], now)
  BY DEF RedisInv, ImagesConsistent
<1>4. /\ images' \in Seq(Range(images')) /\ images' # <<>> /\ Last(images') = images[n]
      /\ \A i \in DOMAIN images' : i \in DOMAIN images /\ images'[i] = images[i]
  <2> DEFINE S == Range(images)
  <2>1. images \in Seq(S)
    BY <1>3
  <2> HIDE DEF S
  <2>2. images' \in Seq(Range(images')) /\ images' # <<>>
    BY <1>1, <2>1, FirstImages
  <2>3. Last(images') = images[n]
    BY <1>1, <2>1, FirstImages
  <2>4. ASSUME NEW i \in DOMAIN images'
        PROVE  i \in DOMAIN images /\ images'[i] = images[i]
    BY <1>1, <2>1, FirstImages
  <2> QED
    BY <2>2, <2>3, <2>4
<1>5. ImagesConsistent'
  <2>1. Covers(images[n], images[n])
    BY DEF Covers
  <2>2. \A i \in DOMAIN images' : Consistent(images'[i], now)
    BY <1>3, <1>4
  <2> QED
    BY <1>1, <1>2, <1>3, <1>4, <2>1, <2>2 DEF ImagesConsistent
<1>6. RedisTypeOK'
  <2>1. \A k \in Keys : HasMeta(store', k) => store'[MetaKey(k)] \in MetadataType
    BY <1>1, <1>3, StoredMetadata
  <2>2. restarts' \in 0..MaxRestarts
    BY <1>2, Counters
  <2>3. DOMAIN write' = Clients /\ \A c \in Clients : write'[c].kind = "none"
    BY <1>2, OtherKinds
  <2> QED
    BY <1>2, <2>1, <2>2, <2>3 DEF RedisInv, RedisTypeOK, HasMeta
<1>7. OneCommand'
  BY <1>2 DEF OneCommand
<1> QED
  BY <1>2, <1>5, <1>6, <1>7 DEF RedisInv

LEMMA RedisInitInv == RedisInit => RedisInv
<1> SUFFICES ASSUME RedisInit PROVE RedisInv
  OBVIOUS
<1>1. /\ store = <<>> /\ images = <<store>> /\ lock = NoClient
      /\ pc = [c \in Clients |-> "idle"] /\ cmd = [c \in Clients |-> NoCall]
      /\ write = [c \in Clients |-> NoWrite] /\ now = 0 /\ quota = MaxWrites /\ restarts = 0
      /\ waiting = {}
  BY DEF RedisInit
<1>2. DOMAIN store = {}
  BY <1>1, EmptyDomain
<1>3. Consistent(store, 0) /\ Covers(store, store)
  BY <1>2 DEF Consistent, Covers, HasMeta
<1>4. ImagesConsistent
  <2>1. /\ <<store>> \in Seq({store}) /\ DOMAIN <<store>> = {1} /\ <<store>>[1] = store
        /\ <<store>> # <<>>
    OBVIOUS
  <2>2. <<store>> \in Seq(Range(<<store>>))
    BY <2>1, SeqOfRange
  <2>3. Last(<<store>>) = store
    BY DEF Last
  <2> QED
    BY <1>1, <1>3, <2>1, <2>2, <2>3 DEF ImagesConsistent
<1>5. RedisTypeOK
  BY <1>1, <1>2, OtherKinds, RedisAssumption DEF RedisTypeOK, HasMeta
<1>6. OneCommand
  BY <1>1 DEF OneCommand
<1> QED
  BY <1>1, <1>4, <1>5, <1>6, RedisAssumption DEF RedisInv

(* A step that changes nothing.                                            *)
LEMMA RedisStutterKeepsInv ==
  ASSUME RedisInv, UNCHANGED redisVars
  PROVE  RedisInv'
<1>1. /\ store' = store /\ images' = images /\ lock' = lock /\ pc' = pc /\ cmd' = cmd
      /\ write' = write /\ now' = now /\ quota' = quota /\ restarts' = restarts
      /\ seqNo' = seqNo /\ waiting' = waiting
  BY DEF redisVars, engineVars, clientVars
<1>2. RedisTypeOK' /\ ImagesConsistent'
  BY <1>1 DEF RedisInv, RedisTypeOK, ImagesConsistent, HasMeta
<1>3. \A c \in Clients : WriteConsistent(write[c])' <=> WriteConsistent(write[c])
  BY <1>1 DEF WriteConsistent, Replayed, Struck, Acting, Deleted, Lacking
<1>4. \A c \in Clients : MayWrite(cmd[c])' <=> MayWrite(cmd[c])
  BY <1>1 DEF MayWrite
<1>5. OneCommand'
  BY <1>1, <1>3, <1>4 DEF RedisInv, OneCommand
<1> QED
  BY <1>1, <1>2, <1>5 DEF RedisInv

-----------------------------------------------------------------------------
(* The invariant holds of every behaviour in which reads of metadata and   *)
(* writes may fail, but neither the lookup of an entry nor a sync, if no   *)
(* deleted key stands for another key in a replay.                         *)
THEOREM RedisInvariant ==
  ASSUME Failures \subseteq {"meta", "write"}, TombstonesHarmless
  PROVE  RedisSpec => []RedisInv
<1>1. RedisInit => RedisInv
  BY RedisInitInv
<1>2. RedisInv /\ [RedisNext]_redisVars => RedisInv'
  <2> SUFFICES ASSUME RedisInv, [RedisNext]_redisVars PROVE RedisInv'
    OBVIOUS
  <2>1. ASSUME NEW c \in Clients, NEW a \in Commands, Handle(c, a)
        PROVE  RedisInv'
    BY <2>1, HandleKeepsInv
  <2>2. ASSUME NEW c \in Clients,
               NEW out \in {"ok"} \cup (Failures \cap {"meta", "lookup"}), Read(c, out)
        PROVE  RedisInv'
    <3>1. out \in {"ok", "meta"}
      OBVIOUS
    <3> QED
      BY <2>2, <3>1, ReadKeepsInv
  <2>3. ASSUME NEW c \in Clients,
               NEW out \in {"ok"} \cup (Failures \cap {"write", "sync"}), Commit(c, out)
        PROVE  RedisInv'
    <3>1. out \in {"ok", "write"}
      OBVIOUS
    <3> QED
      BY <2>3, <3>1, CommitKeepsInv
  <2>4. ASSUME NEW c \in Clients, Reply(c)
        PROVE  RedisInv'
    BY <2>4, ReplyKeepsInv
  <2>5. CASE ServerRestart
    BY <2>5, ServerRestartKeepsInv
  <2>6. CASE UNCHANGED redisVars
    BY <2>6, RedisStutterKeepsInv
  <2> QED
    BY <2>1, <2>2, <2>3, <2>4, <2>5, <2>6 DEF RedisNext
<1> QED
  BY <1>1, <1>2, PTL DEF RedisSpec

(* The state keeps its shape; a size never falls below 0.                  *)
THEOREM RedisTypeCorrect ==
  ASSUME Failures \subseteq {"meta", "write"}, TombstonesHarmless
  PROVE  RedisSpec => []RedisTypeOK
<1>1. RedisInv => RedisTypeOK
  BY DEF RedisInv
<1> QED
  BY <1>1, RedisInvariant, PTL

(* The size of every collection is the number of its entries, through all  *)
(* commands, dels and restarts.                                            *)
THEOREM SizesAlwaysCount ==
  ASSUME Failures \subseteq {"meta", "write"}, TombstonesHarmless
  PROVE  RedisSpec => []SizeCounts
<1>1. RedisInv => SizeCounts
  BY DEF RedisInv, ImagesConsistent, Consistent, Describes, SizeCounts
<1> QED
  BY <1>1, RedisInvariant, PTL

(* The entries by member and by score of every sorted set agree.           *)
THEOREM ScoresAlwaysAgree ==
  ASSUME Failures \subseteq {"meta", "write"}, TombstonesHarmless
  PROVE  RedisSpec => []ScoresAgree
<1>1. RedisInv => ScoresAgree
  BY DEF RedisInv, ImagesConsistent, Consistent, Describes, ScoresAgree
<1> QED
  BY <1>1, RedisInvariant, PTL

==============================================================================
