--------------------------- MODULE IteratorProofs ---------------------------
(***************************************************************************)
(* Proofs about an iterator next to the running engine, for every set of   *)
(* threads, keys and values, every kind of index and every I/O failure.    *)
(***************************************************************************)
EXTENDS Iterator, EngineProofs

(* Every key has a place of its own in the order of the keys.              *)
LEMMA RankFacts ==
  /\ KeyOrder \in Seq(Keys) /\ Len(KeyOrder) \in Nat /\ DOMAIN KeyOrder = 1..Len(KeyOrder)
  /\ \A k \in Keys : Rank(k) \in 1..Len(KeyOrder) /\ KeyOrder[Rank(k)] = k
  /\ \A i \in 1..Len(KeyOrder) : KeyOrder[i] \in Keys /\ Rank(KeyOrder[i]) = i
<1>1. KeyOrder \in Seq(Keys) /\ Len(KeyOrder) \in Nat /\ DOMAIN KeyOrder = 1..Len(KeyOrder)
  BY IteratorAssumption
<1>2. \A k \in Keys : \E i \in DOMAIN KeyOrder : KeyOrder[i] = k
  BY <1>1, IteratorAssumption DEF Range
<1>3. \A k \in Keys : Rank(k) \in DOMAIN KeyOrder /\ KeyOrder[Rank(k)] = k
  BY <1>2 DEF Rank
<1>4. \A i \in DOMAIN KeyOrder : KeyOrder[i] \in Keys
  BY <1>1
<1>5. \A i \in DOMAIN KeyOrder : Rank(KeyOrder[i]) = i
  BY <1>3, <1>4, IteratorAssumption DEF IsInjective
<1> QED
  BY <1>1, <1>3, <1>4, <1>5

(* So has it in the order of an iterator.                                  *)
LEMMA RankInFacts ==
  ASSUME IterTypeOK
  PROVE  /\ \A k \in Keys : RankIn(k) \in 1..Len(KeyOrder)
         /\ \A k, l \in Keys : RankIn(k) = RankIn(l) => k = l
<1>1. options.reverse \in BOOLEAN
  BY DEF IterTypeOK
<1>2. \A k, l \in Keys : Rank(k) = Rank(l) => k = l
  BY RankFacts
<1>3. \A k \in Keys : Rank(k) \in Nat /\ 1 <= Rank(k) /\ Rank(k) <= Len(KeyOrder)
  BY RankFacts
<1> QED
  BY <1>2, <1>3, RankFacts DEF RankIn

(* An element of a sequence over a set is in the set.                      *)
LEMMA SeqElement ==
  ASSUME NEW S, NEW s \in Seq(S), NEW i \in 1..Len(s)
  PROVE  s[i] \in S
OBVIOUS

(* A sequence turned around has the elements of the sequence.              *)
LEMMA ReverseFacts ==
  ASSUME NEW S, NEW s \in Seq(S), NEW r, r = Reverse(s)
  PROVE  /\ r \in Seq(S) /\ Len(r) = Len(s)
         /\ \A i \in 1..Len(s) : r[i] = s[(Len(s) - i) + 1]
<1>1. r = [i \in 1..Len(s) |-> s[(Len(s) - i) + 1]]
  BY DEF Reverse
<1>2. \A i \in 1..Len(s) : (Len(s) - i) + 1 \in 1..Len(s)
  OBVIOUS
<1>3. \A i \in 1..Len(s) : s[(Len(s) - i) + 1] \in S
  BY <1>2, SeqElement
<1>4. r \in [1..Len(s) -> S]
  BY <1>1, <1>3
<1>5. r \in Seq(S) /\ Len(r) = Len(s)
  BY <1>4
<1> QED
  BY <1>1, <1>5

(* What the shape of the iterator says of its entries.                     *)
LEMMA ItemsTyped ==
  ASSUME IterTypeOK
  PROVE  /\ DOMAIN items = 1..Len(items) /\ Len(items) \in Nat
         /\ \A i \in 1..Len(items) : 
              /\ items[i].key \in Keys /\ items[i].pos \in Positions
              /\ items[i].val \in Values
         /\ cursor \in Nat /\ 1 <= cursor /\ cursor <= Len(items) + 1
<1>1. items \in Seq([key : Keys, pos : Positions, val : Values])
  BY DEF IterTypeOK
<1>2. DOMAIN items = 1..Len(items) /\ Len(items) \in Nat
  BY <1>1
<1>3. \A i \in 1..Len(items) : items[i] \in [key : Keys, pos : Positions, val : Values]
  BY <1>1, SeqElement
<1>4. \A i \in 1..Len(items) : 
        items[i].key \in Keys /\ items[i].pos \in Positions /\ items[i].val \in Values
  BY <1>3
<1>5. cursor \in 1..Len(items) + 1
  BY DEF IterTypeOK
<1> QED
  BY <1>2, <1>4, <1>5

(* The shape, one part at a time.                                          *)
LEMMA TypeFromParts ==
  ASSUME items' \in Seq([key : Keys, pos : Positions, val : Values]),
         options' \in [prefix : SUBSET Keys, reverse : BOOLEAN],
         scan' \in 1..Len(KeyOrder) + 1,
         made' \in Nat,
         cursor' \in 1..Len(items') + 1,
         from' \in 1..Len(KeyOrder) + 1,
         yielded' \in Seq([key : Keys, val : Values]),
         lost' \subseteq Keys,
         ended' \in BOOLEAN,
         iterLock' \in Threads \cup {NoThread},
         pc' \in [Threads -> EnginePCs \cup IterPCs]
  PROVE  IterTypeOK'
BY Zenon DEF IterTypeOK

(* Reading an entry that holds returns the value of the copy, or fails.    *)
LEMMA ItemValue ==
  ASSUME CoreInv, ItemsHold, NEW i \in DOMAIN items, NEW out
  PROVE  GetValueByPosition(items[i].pos, out) = IF out = "read" THEN "Error" ELSE items[i].val
BY HeldValue DEF CoreInv, ItemsHold

(* The entry of a key in the index names the value the key has.            *)
LEMMA ItemHolds ==
  ASSUME CoreInv, NEW k \in Present
  PROVE  /\ k \in Keys
         /\ Item(k) \in [key : Keys, pos : Positions, val : Values]
         /\ Item(k).key = k
         /\ Holds(Item(k).pos, Item(k).key, Item(k).val)
<1>1. k \in Keys /\ index[k] # NoPos /\ index[k] \in Positions
  BY DEF Present, CoreInv, CoreTypeOK, MaybePositions
<1>2. PICK v \in Values : Holds(index[k], k, v)
  BY <1>1 DEF CoreInv, IndexSound, Locates
<1>3. ValueAt(index[k]) = v
  BY <1>2, HeldValue DEF CoreInv
<1>4. Item(k) = [key |-> k, pos |-> index[k], val |-> v]
  BY <1>1, <1>3 DEF Item, Contents
<1> QED
  BY <1>1, <1>2, <1>4

(* Only the lock's owner reads or copies.                                  *)
LEMMA OneInside ==
  ASSUME IterTypeOK, IterLockHeld, NEW t \in Threads
  PROVE  /\ pc[t] = "iter.copy" => Copying /\ ~Reading
         /\ pc[t] \in {"next.lock", "next.read"} => Reading /\ ~Copying
         /\ iterLock = NoThread => ~Copying /\ ~Reading
         /\ iterLock = t /\ pc[t] # "iter.copy" => ~Copying
BY EngineAssumption DEF IterLockHeld, Copying, Reading

-----------------------------------------------------------------------------
(* The properties of the entries and of the walk read the iterator's       *)
(* variables and where its lock's owner is.                                *)
LEMMA WalkKept ==
  ASSUME IterInv, CoreInv', PositionsStable, UNCHANGED iterVars,
         pc' \in [Threads -> EnginePCs \cup IterPCs],
         \A u \in Threads : pc'[u] # pc[u] =>
            /\ pc[u] \notin {"iter.copy"} /\ pc'[u] \notin {"iter.copy"}
            /\ pc[u] \in {"next.lock", "next.read"} <=> pc'[u] \in {"next.lock", "next.read"},
         \A u \in Threads : pc[u] \in {"next.lock", "next.read"} => pos'[u] = pos[u]
  PROVE  IterInv'
<1> USE DEF iterVars, copyVars, walkVars
<1>1. IterTypeOK'
  BY DEF IterInv, IterTypeOK
<1>2. \A u \in Threads : /\ pc'[u] = "iter.copy" <=> pc[u] = "iter.copy"
                         /\ pc'[u] \in {"next.lock", "next.read"} <=>
                              pc[u] \in {"next.lock", "next.read"}
  OBVIOUS
<1>3. IterLockHeld'
  BY <1>2 DEF IterInv, IterLockHeld
<1>4. (Copying' <=> Copying) /\ (Reading' <=> Reading)
  BY <1>2 DEF Copying, Reading
<1>5. \A k : RankIn(k)' = RankIn(k)
  BY DEF RankIn
<1>6. ItemsOrdered'
  BY <1>4, <1>5 DEF IterInv, ItemsOrdered
<1>7. ItemsHold'
  BY DEF IterInv, ItemsHold, PositionsStable
<1>8. Done' = Done
  BY <1>4 DEF Done
<1>9. \A e : Wanted(e)' <=> Wanted(e)
  BY <1>5 DEF Wanted
<1>10. WalkSound'
  BY <1>2, <1>5, <1>8, <1>9 DEF IterInv, WalkSound
<1> QED
  BY <1>1, <1>3, <1>6, <1>7, <1>10 DEF IterInv

(* Put, get, delete and sync leave an iterator as it is.                   *)
LEMMA EngineStepsKeepIterator ==
  ASSUME IterInv, NEW t \in Threads, EngineCall(t) \/ EngineStep(t), UNCHANGED iterVars
  PROVE  IterInv'
<1>1. CoreInv' /\ PositionsStable /\ \A u \in Threads : u # t => pos'[u] = pos[u]
  BY EngineStepPreserves, EngineStepKeepsPositions DEF IterInv
<1>2. /\ pc[t] \in EnginePCs /\ pc'[t] \in EnginePCs
      /\ \A u \in Threads : u # t => pc'[u] = pc[u]
      /\ pc' = [u \in Threads |-> pc'[u]]
  BY EngineStepPC DEF IterInv, CoreInv
<1>3. /\ pc[t] \notin {"iter.copy", "next.lock", "next.read"}
      /\ pc'[t] \notin {"iter.copy", "next.lock", "next.read"}
  BY <1>2 DEF EnginePCs
<1>4. pc' \in [Threads -> EnginePCs \cup IterPCs]
  BY <1>2 DEF IterInv, IterTypeOK
<1> QED
  BY <1>1, <1>2, <1>3, <1>4, WalkKept

(* An iterator step keeps the engine's invariant: it touches nothing of    *)
(* the engine but the locks and what its own thread has in hand.           *)
LEMMA IterStepKeepsCore ==
  ASSUME CoreInv, NEW t \in Threads,
         UNCHANGED <<diskVars, fileVars, indexVars, activeW, olderW, rec, old, got, quota>>,
         activeR' \subseteq Threads,
         pc[t] # "get.done", pc'[t] \in IterPCs \cup {"idle"},
         pc' = [pc EXCEPT ![t] = pc'[t]],
         \/ pos' = pos
         \/ \E p \in MaybePositions : pos' = [pos EXCEPT ![t] = p]
  PROVE  CoreInv' /\ PositionsStable
<1> USE DEF CoreInv
<1>1. LogWellFormed' /\ OlderFilesDurable' /\ PositionsStable
  BY QuietStep
<1>2. IndexSound'
  BY <1>1, IndexKept DEF indexVars
<1>3. pos' \in [Threads -> MaybePositions]
      /\ \A u \in Threads : u # t => pos'[u] = pos[u]
  BY DEF CoreTypeOK
<1>4. pc' = [u \in Threads |-> pc'[u]] /\ \A u \in Threads : u # t => pc'[u] = pc[u]
  BY PCMoves
<1>5. CoreTypeOK'
  BY <1>3, <1>4 DEF CoreTypeOK, diskVars, fileVars, indexVars
<1>6. pc'[t] \notin EnginePCs \ {"idle"}
  BY DEF IterPCs, EnginePCs
<1> QED
  BY <1>1, <1>2, <1>3, <1>4, <1>5, <1>6, OtherStepPreserves

-----------------------------------------------------------------------------
(* The number before a positive number.                                    *)
LEMMA Before ==
  ASSUME NEW c \in Nat, c >= 1
  PROVE  \E d \in Nat : d = c - 1 /\ c = d + 1
OBVIOUS

(* At the start of a walk nothing has been returned.                       *)
LEMMA FreshWalk ==
  ASSUME IterTypeOK', ~Reading', yielded' = <<>>, lost' = {}, ~ended',
         \A n \in DOMAIN items' : n < cursor' => ~Wanted(items[n])',
         \A n \in DOMAIN items' : n >= cursor' => RankIn(items[n].key)' >= from'
  PROVE  WalkSound'
<1>1. PICK c \in Nat : c = cursor' /\ 1 <= c
  BY DEF IterTypeOK
<1>2. \A t \in Threads : pc'[t] \notin {"next.lock", "next.read"}
  BY DEF Reading
<1>3. PICK len \in Nat : len = Len(items') /\ DOMAIN items' = 1..len /\ c <= len + 1
  BY <1>1 DEF IterTypeOK
<1>4. PICK d \in Nat : d = c - 1 /\ c = d + 1
  BY <1>1, Before
<1>11. c = d + 1
  BY <1>4
<1>12. c \in Nat /\ DOMAIN items' = 1..len /\ c <= len + 1
  BY <1>1, <1>3
<1>5. Done' = d
  BY <1>1, <1>4 DEF Done
<1>6. DOMAIN yielded' = {}
  OBVIOUS
<1>7. \A n \in 1..d : n \in DOMAIN items' /\ n < c
  BY <1>11, <1>12
<1>8. \A n \in 1..d : ~Wanted(items[n])'
  BY <1>1, <1>7
<1>9. \A n \in 1..len : n > d => n >= c
  BY <1>11, <1>12
<1>10. \A n \in DOMAIN items' : n > d => RankIn(items[n].key)' >= from'
  BY <1>1, <1>3, <1>9
<1> QED
  BY <1>2, <1>5, <1>6, <1>8, <1>10 DEF WalkSound

(* A new iterator has not yielded anything: a tree is copied in one step,  *)
(* a skip list from its first key on.                                      *)
LEMMA IterNewPreserves ==
  ASSUME IterInv, NEW t \in Threads, NEW opts \in IterOptions, IterNew(t, opts)
  PROVE  IterInv'
<1> USE DEF IterInv
<1>1. /\ options' = opts /\ opts \in [prefix : SUBSET Keys, reverse : BOOLEAN]
      /\ cursor' = 1 /\ from' = 1 /\ yielded' = <<>> /\ lost' = {} /\ ended' = FALSE
      /\ made' \in Nat
      /\ pc[t] = "idle" /\ iterLock = NoThread
      /\ ~Reading /\ ~Copying
  BY IteratorAssumption, OneInside DEF IterNew, Goto, IterTypeOK
<1>2. pc' = [pc EXCEPT ![t] = pc'[t]] /\ pc'[t] \in IterPCs \cup {"idle"}
      /\ pc' \in [Threads -> EnginePCs \cup IterPCs]
      /\ \A u \in Threads : u # t => pc'[u] = pc[u]
  BY <1>1 DEF IterNew, Goto, IterTypeOK, IterPCs
<1>3. CoreInv' /\ PositionsStable
  <2>1. /\ UNCHANGED <<diskVars, fileVars, indexVars, activeW, olderW, rec, old, got, quota>>
        /\ activeR' \subseteq Threads
        /\ pos' = pos
    BY DEF IterNew, lockVars, threadVars, CoreInv, CoreTypeOK
  <2> QED
    BY <1>1, <1>2, <2>1, IterStepKeepsCore
<1>4. ~Reading'
  BY <1>1, <1>2 DEF IterNew, Goto, IterTypeOK, Reading
<1>5. CASE PutInTwoSteps
  <2>1. items' = <<>> /\ scan' = 1 /\ iterLock' = t /\ pc'[t] = "iter.copy"
    BY <1>2, <1>5 DEF IterNew, Goto, IterTypeOK
  <2>2. IterTypeOK'
    <3>1. /\ items' \in Seq([key : Keys, pos : Positions, val : Values])
          /\ yielded' \in Seq([key : Keys, val : Values])
          /\ scan' \in 1..Len(KeyOrder) + 1 /\ from' \in 1..Len(KeyOrder) + 1
          /\ cursor' \in 1..Len(items') + 1
      BY <1>1, <2>1, RankFacts
    <3>2. iterLock' \in Threads \cup {NoThread} /\ ended' \in BOOLEAN
      BY <1>1, <2>1, Zenon
    <3> QED
      BY <1>1, <1>2, <3>1, <3>2, TypeFromParts
  <2>3. IterLockHeld'
    BY <1>1, <1>2, <2>1, EngineAssumption DEF IterLockHeld
  <2>4. ItemsOrdered' /\ ItemsHold'
    BY <1>1, <2>1 DEF ItemsOrdered, ItemsHold
  <2>5. WalkSound'
    BY <1>1, <1>4, <2>1, <2>2, FreshWalk
  <2> QED
    BY <1>3, <2>2, <2>3, <2>4, <2>5
<1>6. CASE ~PutInTwoSteps
  <2>1. pc' = pc /\ scan' = scan /\ iterLock' = iterLock
    BY <1>6 DEF IterNew
  <2>0. PICK n \in 0..Len(KeyOrder) : \E ks \in [1..n -> Present] :
          /\ WalksAlong(ks)
          /\ items' = InOrder([i \in 1..n |-> Item(ks[i])], opts.reverse)
    BY <1>6 DEF IterNew
  <2>2. PICK ks \in [1..n -> Present] :
          /\ WalksAlong(ks)
          /\ items' = InOrder([i \in 1..n |-> Item(ks[i])], opts.reverse)
    BY <2>0
  <2>3. n \in Nat /\ \A i \in 1..n : ks[i] \in Present
    BY RankFacts
  <2>4. PICK copy : copy = [i \in 1..n |-> Item(ks[i])]
    OBVIOUS
  <2>5. /\ copy \in Seq([key : Keys, pos : Positions, val : Values])
        /\ Len(copy) = n
        /\ \A i \in 1..n : /\ copy[i].key = ks[i]
                           /\ Holds(copy[i].pos, copy[i].key, copy[i].val)
    BY <2>3, <2>4, ItemHolds
  <2>6. \A i, j \in 1..n : i < j => Rank(copy[i].key) < Rank(copy[j].key)
    BY <2>2, <2>3, <2>5 DEF WalksAlong
  <2>7. items' = InOrder(copy, opts.reverse)
    BY <2>2, <2>4
  <2>8. /\ items' \in Seq([key : Keys, pos : Positions, val : Values])
        /\ Len(items') = n
        /\ \A i \in 1..n : items'[i] = copy[IF opts.reverse THEN n - i + 1 ELSE i]
    <3> DEFINE T == [key : Keys, pos : Positions, val : Values]
    <3>0. copy \in Seq(T)
      BY <2>5
    <3> HIDE DEF T
    <3>1. CASE opts.reverse
      <4>1. items' = Reverse(copy)
        BY <2>7, <3>1 DEF InOrder
      <4>2. items' \in Seq(T) /\ Len(items') = Len(copy)
        BY <3>0, <4>1, ReverseFacts
      <4>3. ASSUME NEW i \in 1..Len(copy)
            PROVE  items'[i] = copy[(Len(copy) - i) + 1]
        BY <3>0, <4>1, ReverseFacts
      <4> QED
        BY <2>5, <3>1, <4>2, <4>3 DEF T
    <3>2. CASE ~opts.reverse
      <4>1. items' = copy
        BY <2>7, <3>2 DEF InOrder
      <4> QED
        BY <2>5, <3>2, <4>1
    <3> QED
      BY <3>1, <3>2
  <2>9. IterTypeOK'
    <3>1. /\ yielded' \in Seq([key : Keys, val : Values])
          /\ scan' \in 1..Len(KeyOrder) + 1 /\ from' \in 1..Len(KeyOrder) + 1
          /\ cursor' \in 1..Len(items') + 1
      BY <1>1, <2>1, <2>3, <2>8, RankFacts DEF IterTypeOK
    <3>2. iterLock' \in Threads \cup {NoThread} /\ ended' \in BOOLEAN
      BY <1>1, <2>1, Zenon
    <3> QED
      BY <1>1, <1>2, <2>8, <3>1, <3>2, TypeFromParts
  <2>10. IterLockHeld'
    BY <2>1 DEF IterLockHeld
  <2>11. ItemsHold'
    BY <1>3, <2>3, <2>5, <2>8 DEF ItemsHold, PositionsStable
  <2> DEFINE at(i) == IF opts.reverse THEN n - i + 1 ELSE i
  <2>14. \A i \in 1..n : at(i) \in 1..n /\ items'[i].key = copy[at(i)].key
    BY <2>3, <2>8
  <2>15. \A i \in 1..n : copy[i].key \in Keys /\ Rank(copy[i].key) \in 1..Len(KeyOrder)
    BY <2>3, <2>5, ItemHolds, RankFacts
  <2>16. \A k : RankIn(k)' = IF opts.reverse THEN Len(KeyOrder) + 1 - Rank(k) ELSE Rank(k)
    BY <1>1 DEF RankIn
  <2>17. \A i \in 1..n : RankIn(items[i].key)' =
           IF opts.reverse THEN Len(KeyOrder) + 1 - Rank(copy[at(i)].key) ELSE Rank(copy[at(i)].key)
    BY <2>14, <2>16 DEF RankIn
  <2>12. ItemsOrdered'
    <3>1. ~Copying'
      BY <1>1, <2>1 DEF Copying
    <3>3. \A i, j \in 1..n : i < j => RankIn(items[i].key)' < RankIn(items[j].key)'
      <4>1. CASE opts.reverse
        <5> SUFFICES ASSUME NEW i \in 1..n, NEW j \in 1..n, i < j
                     PROVE  RankIn(items[i].key)' < RankIn(items[j].key)'
          OBVIOUS
        <5>1. at(i) \in 1..n /\ at(j) \in 1..n /\ at(j) < at(i)
          BY <4>1, <2>3
        <5>2. Rank(copy[at(j)].key) < Rank(copy[at(i)].key)
          BY <5>1, <2>6
        <5>3. Rank(copy[at(j)].key) \in Int /\ Rank(copy[at(i)].key) \in Int
          BY <5>1, <2>15
        <5>4. PICK x, y : /\ x = RankIn(items[i].key)' /\ x = Len(KeyOrder) + 1 - Rank(copy[at(i)].key)
                          /\ y = RankIn(items[j].key)' /\ y = Len(KeyOrder) + 1 - Rank(copy[at(j)].key)
          BY <4>1, <2>17
        <5>5. x < y
          BY <5>2, <5>3, <5>4, RankFacts
        <5> QED
          BY <5>4, <5>5
      <4>2. CASE ~opts.reverse
        BY <4>2, <2>3, <2>6, <2>14, <2>15, <2>17, RankFacts
      <4> QED
        BY <4>1, <4>2
    <3> QED
      BY <2>8, <3>1, <3>3 DEF ItemsOrdered
  <2>13. WalkSound'
    <3>1. \A i \in 1..n : RankIn(items[i].key)' >= 1
      <4> SUFFICES ASSUME NEW i \in 1..n PROVE RankIn(items[i].key)' >= 1
        OBVIOUS
      <4>1. PICK r \in 1..Len(KeyOrder) : r = Rank(copy[at(i)].key)
        BY <2>14, <2>15
      <4>2. PICK x : x = RankIn(items[i].key)' /\ x = IF opts.reverse THEN Len(KeyOrder) + 1 - r ELSE r
        BY <4>1, <2>17
      <4>3. x >= 1
        BY <4>2, RankFacts
      <4> QED
        BY <4>2, <4>3
    <3> QED
      BY <1>1, <1>4, <2>8, <2>9, <3>1, FreshWalk
  <2> QED
    BY <1>3, <2>9, <2>10, <2>11, <2>12, <2>13
<1> QED
  BY <1>5, <1>6

(* Rewind and seek start a walk over the same entries, seek where the      *)
(* entries of the smaller keys end.                                        *)
LEMMA RestartPreserves ==
  ASSUME IterInv, NEW t \in Threads, Rewind(t) \/ (\E k \in Keys : Seek(t, k))
  PROVE  IterInv'
<1> USE DEF IterInv
<1>1. /\ UNCHANGED <<engineVars, copyVars, iterLock>>
      /\ iterLock = NoThread /\ yielded' = <<>> /\ lost' = {} /\ ended' = FALSE
  BY DEF Rewind, Seek, HasIterator, Restarted
<1>2. CoreInv' /\ PositionsStable
  BY <1>1, StutterKeepsCore, QuietStep DEF engineVars, CoreInv
<1>3. ~Copying /\ ~Reading /\ pc' = pc
  BY <1>1, OneInside, EngineAssumption DEF engineVars, Copying, Reading, IterLockHeld
<1>4. /\ items' = items /\ options' = options /\ scan' = scan /\ made' = made
      /\ DOMAIN items = 1..Len(items) /\ Len(items) \in Nat
      /\ \A i \in DOMAIN items : items[i].key \in Keys
  BY <1>1, ItemsTyped DEF copyVars
<1>5. \A k : RankIn(k)' = RankIn(k)
  BY <1>4 DEF RankIn
<1>6. /\ cursor' \in 1..Len(items) + 1 /\ from' \in 1..Len(KeyOrder) + 1
      /\ \A n \in DOMAIN items : n < cursor' => RankIn(items[n].key) < from'
      /\ \A n \in DOMAIN items : n >= cursor' => RankIn(items[n].key) >= from'
  <2>1. CASE Rewind(t)
    BY <1>4, <2>1, RankInFacts, RankFacts DEF Rewind, Restarted
  <2>2. ASSUME NEW k \in Keys, Seek(t, k)
        PROVE  <1>6!:
    <3>1. PICK i \in 1..Len(items) + 1 : SeekIndex(k, i) /\ Restarted(i, RankIn(k))
      BY <2>2 DEF Seek
    <3>2. RankIn(k) \in 1..Len(KeyOrder)
      BY RankInFacts
    <3> QED
      BY <1>4, <3>1, <3>2, RankFacts DEF SeekIndex, Restarted
  <2> QED
    BY <2>1, <2>2
<1>7. IterTypeOK'
  <2>1. /\ yielded' \in Seq([key : Keys, val : Values]) /\ lost' \subseteq Keys
        /\ cursor' \in 1..Len(items') + 1
    BY <1>1, <1>4, <1>6
  <2>2. ended' \in BOOLEAN
    BY <1>1, Zenon
  <2> QED
    BY <1>1, <1>3, <1>4, <1>6, <2>1, <2>2, TypeFromParts, Zenon DEF IterTypeOK
<1>8. IterLockHeld' /\ ItemsOrdered'
  BY <1>1, <1>3, <1>4, <1>5 DEF IterLockHeld, ItemsOrdered, Copying
<1>9. ItemsHold'
  BY <1>2, <1>4 DEF ItemsHold, PositionsStable
<1>10. WalkSound'
  <2>1. \A n \in DOMAIN items' : n < cursor' => ~Wanted(items[n])'
    BY <1>4, <1>5, <1>6, RankInFacts, RankFacts DEF Wanted
  <2>2. ~Reading'
    BY <1>3 DEF Reading
  <2> QED
    BY <1>1, <1>4, <1>5, <1>6, <1>7, <2>1, <2>2, FreshWalk
<1> QED
  BY <1>2, <1>7, <1>8, <1>9, <1>10

(* A skip list's keys are copied one after the other; none is copied twice *)
(* whatever is inserted and removed meanwhile.                             *)
LEMMA SkipListCopyPreserves ==
  ASSUME IterInv, NEW t \in Threads, SkipListCopy(t)
  PROVE  IterInv'
<1> USE DEF IterInv
<1>1. /\ UNCHANGED <<engineVars, options, made, walkVars, iterLock>>
      /\ pc[t] = "iter.copy" /\ scan <= Len(KeyOrder) /\ scan' = scan + 1
  BY DEF SkipListCopy
<1>2. /\ Copying /\ ~Reading /\ pc' = pc
      /\ cursor = 1 /\ from = 1 /\ yielded = <<>> /\ lost = {} /\ ~ended
      /\ cursor' = cursor /\ from' = from /\ yielded' = yielded /\ lost' = lost /\ ended' = ended
      /\ options' = options /\ made' = made /\ iterLock' = iterLock
  BY <1>1, OneInside DEF engineVars, walkVars, ItemsOrdered
<1>3. (Copying' <=> Copying) /\ ~Reading'
  BY <1>2 DEF Copying, Reading
<1>4. CoreInv' /\ PositionsStable
  BY <1>1, StutterKeepsCore, QuietStep DEF engineVars, CoreInv
<1>5. scan \in 1..Len(KeyOrder) /\ scan' \in 1..Len(KeyOrder) + 1
  BY <1>1, RankFacts DEF IterTypeOK
<1>6. PICK k \in Keys : k = KeyOrder[scan] /\ Rank(k) = scan
  BY <1>5, RankFacts
<1>7. PICK len \in Nat : /\ len = Len(items) /\ DOMAIN items = 1..len
                         /\ \A i \in 1..len : items[i].key \in Keys
  BY ItemsTyped
<1>8. \A i \in 1..len : Rank(items[i].key) \in Int
  BY <1>7, RankFacts
<1>9. /\ items' \in Seq([key : Keys, pos : Positions, val : Values])
      /\ ItemsHold'
      /\ \A i, j \in DOMAIN items' : i < j => Rank(items'[i].key) < Rank(items'[j].key)
      /\ \A i \in DOMAIN items' : Rank(items'[i].key) < scan'
      /\ \A i \in DOMAIN items' : items'[i].key \in Keys
  <2>1. items \in Seq([key : Keys, pos : Positions, val : Values])
    BY DEF IterTypeOK
  <2>2. CASE k \notin Present
    <3>1. items' = items
      BY <1>6, <2>2 DEF SkipListCopy
    <3>2. ItemsHold'
      BY <1>4, <3>1 DEF ItemsHold, PositionsStable
    <3>3. \A i, j \in DOMAIN items' : i < j => Rank(items'[i].key) < Rank(items'[j].key)
      BY <1>2, <3>1 DEF ItemsOrdered
    <3>4. \A i \in 1..len : Rank(items[i].key) < scan
      BY <1>2, <1>7 DEF ItemsOrdered
    <3>5. \A i \in 1..len : Rank(items[i].key) < scan'
      BY <1>1, <1>5, <1>8, <3>4
    <3> QED
      BY <1>7, <2>1, <3>1, <3>2, <3>3, <3>5
  <2>3. CASE k \in Present
    <3>1. PICK new : new = Item(k)
      OBVIOUS
    <3>2. /\ new \in [key : Keys, pos : Positions, val : Values]
          /\ new.key = k /\ Holds(new.pos, new.key, new.val)
      BY <2>3, <3>1, ItemHolds
    <3>3. items' = Append(items, new)
      BY <1>6, <2>3, <3>1 DEF SkipListCopy
    <3>4. /\ items' \in Seq([key : Keys, pos : Positions, val : Values])
          /\ DOMAIN items' = 1..len + 1
          /\ items'[len + 1] = new
          /\ \A i \in 1..len : items'[i] = items[i]
      BY <1>7, <2>1, <3>2, <3>3
    <3>5. ItemsHold'
      <4> SUFFICES ASSUME NEW i \in 1..len + 1
                   PROVE  Holds(items[i].pos, items[i].key, items[i].val)'
        BY <3>4 DEF ItemsHold
      <4>1. CASE i = len + 1
        BY <1>4, <3>2, <3>4, <4>1 DEF PositionsStable
      <4>2. CASE i \in 1..len
        BY <1>4, <1>7, <3>4, <4>2 DEF PositionsStable, ItemsHold
      <4> QED
        BY <1>7, <4>1, <4>2
    <3>6. \A i, j \in 1..len : i < j => Rank(items[i].key) < Rank(items[j].key)
      BY <1>2, <1>7 DEF ItemsOrdered
    <3>7. \A i \in 1..len : Rank(items[i].key) < scan
      BY <1>2, <1>7 DEF ItemsOrdered
    <3>8. \A i \in 1..len + 1 : i = len + 1 \/ i \in 1..len
      BY <1>7
    <3>9. \A i, j \in DOMAIN items' : i < j => Rank(items'[i].key) < Rank(items'[j].key)
      <4> SUFFICES ASSUME NEW i \in 1..len + 1, NEW j \in 1..len + 1, i < j
                   PROVE  Rank(items'[i].key) < Rank(items'[j].key)
        BY <3>4
      <4>1. i \in 1..len /\ items'[i] = items[i]
        BY <1>7, <3>4
      <4>2. CASE j \in 1..len
        BY <3>4, <3>6, <4>1, <4>2
      <4>3. CASE j = len + 1
        BY <1>6, <3>2, <3>4, <3>7, <4>1, <4>3
      <4> QED
        BY <3>8, <4>2, <4>3
    <3>10. \A i \in DOMAIN items' : Rank(items'[i].key) < scan'
      <4>1. \A i \in 1..len : Rank(items[i].key) < scan + 1
        BY <1>5, <1>8, <3>7
      <4>2. Rank(new.key) < scan + 1
        BY <1>5, <1>6, <3>2
      <4> QED
        BY <1>1, <3>4, <3>8, <4>1, <4>2
    <3> QED
      BY <1>7, <3>2, <3>4, <3>5, <3>8, <3>9, <3>10
  <2> QED
    BY <2>2, <2>3
<1>10. IterTypeOK'
  <2>1. 1 \in 1..Len(items') + 1
    BY <1>9
  <2> QED
    BY <1>2, <1>5, <1>9, <2>1, TypeFromParts, Zenon DEF IterTypeOK
<1>11. IterLockHeld'
  BY <1>2 DEF IterLockHeld
<1>12. ItemsOrdered'
  BY <1>2, <1>3, <1>9 DEF ItemsOrdered
<1>13. WalkSound'
  <2>1. \A i \in DOMAIN items' : RankIn(items[i].key)' >= 1
    <3> SUFFICES ASSUME NEW i \in DOMAIN items' PROVE RankIn(items[i].key)' >= 1
      OBVIOUS
    <3>1. PICK key \in Keys : key = items'[i].key
      BY <1>9
    <3>2. RankIn(items[i].key)' = RankIn(key)
      BY <1>2, <3>1 DEF RankIn
    <3> QED
      BY <3>2, RankInFacts
  <2>2. DOMAIN items' = 1..Len(items') /\ Len(items') \in Nat
    BY <1>9
  <2>4. yielded' = <<>> /\ lost' = {} /\ ~ended' /\ cursor' = 1 /\ from' = 1
    BY <1>2
  <2>5. \A n \in DOMAIN items' : ~(n < 1)
    BY <2>2
  <2> QED
    BY <1>3, <1>10, <2>1, <2>4, <2>5, FreshWalk
<1> QED
  BY <1>4, <1>9, <1>10, <1>11, <1>12, <1>13

(* When all keys are copied they are put in the order of the iterator.     *)
LEMMA SkipListCopiedPreserves ==
  ASSUME IterInv, NEW t \in Threads, SkipListCopied(t)
  PROVE  IterInv'
<1> USE DEF IterInv
<1>1. /\ pc[t] = "iter.copy" /\ pc' = [pc EXCEPT ![t] = "idle"]
      /\ items' = InOrder(items, options.reverse)
      /\ iterLock' = NoThread
      /\ options' = options /\ scan' = scan /\ made' = made
      /\ cursor' = cursor /\ from' = from /\ yielded' = yielded /\ lost' = lost /\ ended' = ended
      /\ UNCHANGED <<diskVars, fileVars, indexVars, lockVars, threadVars, quota>>
  BY DEF SkipListCopied, Goto, walkVars
<1>2. /\ Copying /\ ~Reading /\ iterLock = t
      /\ cursor = 1 /\ from = 1 /\ yielded = <<>> /\ lost = {} /\ ~ended
  BY <1>1, OneInside DEF ItemsOrdered, IterLockHeld
<1>3. /\ pc' \in [Threads -> EnginePCs \cup IterPCs]
      /\ pc'[t] = "idle" /\ \A u \in Threads : u # t => pc'[u] = pc[u]
  BY <1>1 DEF IterTypeOK, EnginePCs
<1>4. \A u \in Threads : pc'[u] \notin {"iter.copy", "next.lock", "next.read"}
  BY <1>2, <1>3 DEF IterLockHeld
<1>5. ~Copying' /\ ~Reading'
  BY <1>4 DEF Copying, Reading
<1>6. CoreInv' /\ PositionsStable
  <2>1. activeR' \subseteq Threads /\ pos' = pos
    BY <1>1 DEF lockVars, threadVars, CoreInv, CoreTypeOK
  <2>2. UNCHANGED <<diskVars, fileVars, indexVars, activeW, olderW, rec, old, got, quota>>
    BY <1>1 DEF lockVars, threadVars
  <2>3. pc[t] # "get.done" /\ pc' = [pc EXCEPT ![t] = pc'[t]]
    BY <1>1, <1>3
  <2> QED
    BY <1>3, <2>1, <2>2, <2>3, IterStepKeepsCore
<1>7. PICK n \in Nat : /\ n = Len(items) /\ DOMAIN items = 1..n
                       /\ \A i \in 1..n : items[i].key \in Keys
  BY ItemsTyped
<1> DEFINE at(i) == IF options.reverse THEN n - i + 1 ELSE i
<1>8. /\ items' \in Seq([key : Keys, pos : Positions, val : Values])
      /\ Len(items') = n /\ DOMAIN items' = 1..n
      /\ \A i \in 1..n : items'[i] = items[at(i)]
  <2> DEFINE T == [key : Keys, pos : Positions, val : Values]
  <2>1. items \in Seq(T)
    BY DEF IterTypeOK
  <2> HIDE DEF T
  <2>2. CASE options.reverse
    <3>1. items' = Reverse(items)
      BY <1>1, <2>2 DEF InOrder
    <3>2. items' \in Seq(T) /\ Len(items') = Len(items)
      BY <2>1, <3>1, ReverseFacts
    <3>3. ASSUME NEW i \in 1..Len(items)
          PROVE  items'[i] = items[(Len(items) - i) + 1]
      BY <2>1, <3>1, ReverseFacts
    <3> QED
      BY <1>7, <2>2, <3>2, <3>3 DEF T
  <2>3. CASE ~options.reverse
    <3>1. items' = items
      BY <1>1, <2>3 DEF InOrder
    <3> QED
      BY <1>7, <2>1, <2>3, <3>1 DEF T
  <2> QED
    BY <2>2, <2>3
<1>9. \A i \in 1..n : at(i) \in 1..n
  BY <1>7
<1>10. IterTypeOK'
  <2>1. 1 \in 1..Len(items') + 1
    BY <1>8
  <2> QED
    BY <1>1, <1>2, <1>3, <1>8, <2>1, TypeFromParts, Zenon DEF IterTypeOK
<1>11. IterLockHeld'
  BY <1>1, <1>4, EngineAssumption DEF IterLockHeld
<1>12. ItemsHold'
  BY <1>6, <1>7, <1>8, <1>9 DEF ItemsHold, PositionsStable
<1>13. \A i \in 1..n : \A k \in Keys : k = items'[i].key =>
         RankIn(items[i].key)' = RankIn(k) /\ k = items[at(i)].key
  BY <1>1, <1>8 DEF RankIn
<1>14. ItemsOrdered'
  <2> SUFFICES ASSUME NEW i \in 1..n, NEW j \in 1..n, i < j
               PROVE  RankIn(items[i].key)' < RankIn(items[j].key)'
    BY <1>5, <1>8 DEF ItemsOrdered
  <2>1. PICK k, l \in Keys : k = items[at(i)].key /\ l = items[at(j)].key
    BY <1>7, <1>9
  <2>2. RankIn(items[i].key)' = RankIn(k) /\ RankIn(items[j].key)' = RankIn(l)
    BY <1>8, <1>13, <2>1
  <2>3. \A a, b \in 1..n : a < b => Rank(items[a].key) < Rank(items[b].key)
    BY <1>2, <1>7 DEF ItemsOrdered
  <2>4. Rank(k) \in Int /\ Rank(l) \in Int
    BY RankFacts
  <2>5. IF options.reverse THEN at(j) < at(i) ELSE at(i) < at(j)
    BY <1>7
  <2>6. IF options.reverse THEN Rank(l) < Rank(k) ELSE Rank(k) < Rank(l)
    BY <1>9, <2>1, <2>3, <2>5
  <2>7. RankIn(k) < RankIn(l)
    BY <2>4, <2>6, RankFacts DEF RankIn
  <2> QED
    BY <2>2, <2>7
<1>15. WalkSound'
  <2>1. \A i \in DOMAIN items' : RankIn(items[i].key)' >= 1
    BY <1>7, <1>8, <1>9, <1>13, RankInFacts
  <2>2. \A i \in DOMAIN items' : i >= 1
    BY <1>8
  <2> QED
    BY <1>1, <1>2, <1>5, <1>10, <2>1, <2>2, FreshWalk
<1> QED
  BY <1>6, <1>10, <1>11, <1>12, <1>14, <1>15

(* next waits for its lock and then for the files without moving on.       *)
LEMMA NextWaitsPreserve ==
  ASSUME IterInv, NEW t \in Threads, NextCall(t) \/ NextLock(t)
  PROVE  IterInv'
<1> USE DEF IterInv
<1>1. /\ UNCHANGED <<diskVars, fileVars, indexVars, activeW, olderW, rec, old, got, quota>>
      /\ pos' = pos /\ activeR' \subseteq Threads
      /\ UNCHANGED iterVars
  BY DEF NextCall, NextLock, ReadLockActive, lockVars, threadVars, CoreInv, CoreTypeOK
<1>2. \/ pc[t] = "idle" /\ pc' = [pc EXCEPT ![t] = "next.wait"]
      \/ pc[t] = "next.lock" /\ pc' = [pc EXCEPT ![t] = "next.read"]
  BY DEF NextCall, NextLock, Goto
<1>3. /\ pc' \in [Threads -> EnginePCs \cup IterPCs]
      /\ \A u \in Threads : u # t => pc'[u] = pc[u]
      /\ \/ pc[t] = "idle" /\ pc'[t] = "next.wait"
         \/ pc[t] = "next.lock" /\ pc'[t] = "next.read"
      /\ pc' = [pc EXCEPT ![t] = pc'[t]]
  BY <1>2 DEF IterTypeOK, IterPCs
<1>4. CoreInv' /\ PositionsStable
  <2>1. pc[t] # "get.done" /\ pc'[t] \in IterPCs \cup {"idle"}
    BY <1>3 DEF IterPCs
  <2> QED
    BY <1>1, <1>3, <2>1, IterStepKeepsCore
<1> QED
  BY <1>1, <1>3, <1>4, WalkKept

(* next moves to the first entry that matches, and to the end if there is  *)
(* none; it skips no entry that is wanted.                                 *)
LEMMA NextEntryPreserves ==
  ASSUME IterInv, NEW t \in Threads, NextEntry(t)
  PROVE  IterInv'
<1> USE DEF IterInv
<1>1. /\ pc[t] = "next.wait" /\ iterLock = NoThread /\ ~Copying /\ ~Reading
      /\ items' = items /\ options' = options /\ scan' = scan /\ made' = made
      /\ from' = from /\ yielded' = yielded /\ lost' = lost
      /\ UNCHANGED <<diskVars, fileVars, indexVars, activeW, activeR, olderW, rec, old, got, quota>>
  BY OneInside DEF NextEntry, Goto, copyVars, lockVars
<1>2. PICK len \in Nat : /\ len = Len(items) /\ DOMAIN items = 1..len
                         /\ \A i \in 1..len : items[i].key \in Keys /\ items[i].pos \in Positions
  BY ItemsTyped
<1>3. PICK c \in Nat : c = cursor /\ 1 <= c /\ c <= len + 1
  BY <1>2, ItemsTyped
<1>4. PICK d \in Nat : d = c - 1 /\ c = d + 1
  BY <1>3, Before
<1>5. Done = d
  BY <1>1, <1>3, <1>4 DEF Done
<1>6. \A k : RankIn(k)' = RankIn(k)
  BY <1>1 DEF RankIn
<1>7. \A e : Wanted(e)' <=> Wanted(e)
  BY <1>1, <1>6 DEF Wanted
<1>8. Matches = {i \in c..len : items[i].key \in options.prefix}
  BY <1>2, <1>3 DEF Matches
<1>9. \A u \in Threads : pc[u] \notin {"iter.copy", "next.lock", "next.read"}
  BY <1>1, EngineAssumption DEF IterLockHeld
<1>10. CASE Matches = {}
  <2>1. /\ pc' = [pc EXCEPT ![t] = "idle"] /\ pos' = pos /\ iterLock' = iterLock
        /\ cursor' = len + 1 /\ ended' = TRUE
    BY <1>2, <1>10 DEF NextEntry, Goto
  <2>2. /\ pc' \in [Threads -> EnginePCs \cup IterPCs]
        /\ pc'[t] = "idle" /\ \A u \in Threads : u # t => pc'[u] = pc[u]
        /\ pc' = [pc EXCEPT ![t] = pc'[t]]
    BY <1>1, <2>1 DEF IterTypeOK, EnginePCs
  <2>3. \A u \in Threads : pc'[u] \notin {"iter.copy", "next.lock", "next.read"}
    BY <1>9, <2>2
  <2>4. ~Copying' /\ ~Reading'
    BY <2>3 DEF Copying, Reading
  <2>5. CoreInv' /\ PositionsStable
    BY <1>1, <2>1, <2>2, IterStepKeepsCore DEF CoreInv, CoreTypeOK
  <2>6. IterTypeOK'
    <3>1. cursor' \in 1..Len(items') + 1
      BY <1>1, <1>2, <2>1
    <3>2. ended' \in BOOLEAN
      BY <2>1, Zenon
    <3> QED
      BY <1>1, <2>1, <2>2, <3>1, <3>2, TypeFromParts, Zenon DEF IterTypeOK
  <2>7. IterLockHeld' /\ ItemsOrdered' /\ ItemsHold'
    <3>1. IterLockHeld'
      BY <1>1, <2>1, <2>3, EngineAssumption DEF IterLockHeld
    <3>2. ItemsOrdered'
      BY <1>1, <1>6, <2>4 DEF ItemsOrdered
    <3>3. ItemsHold'
      BY <1>1, <2>5 DEF ItemsHold, PositionsStable
    <3> QED
      BY <3>1, <3>2, <3>3
  <2>8. WalkSound'
    <3>1. Done' = len
      BY <1>2, <2>1, <2>4 DEF Done
    <3>2. \A n \in 1..len : n \in 1..d \/ n \in c..len
      BY <1>2, <1>3, <1>4
    <3>3. \A n \in c..len : ~Wanted(items[n])
      BY <1>8, <1>10 DEF Wanted
    <3>4. \A n \in 1..len : Wanted(items[n]) =>
            \/ \E i \in DOMAIN yielded : yielded[i].key = items[n].key
            \/ items[n].key \in lost
      BY <1>5, <3>2, <3>3 DEF WalkSound
    <3>5. \A n \in 1..d : n \in 1..len
      BY <1>2, <1>3, <1>4
    <3>6. \A i \in DOMAIN yielded : \E n \in 1..len :
            Wanted(items[n]) /\ yielded[i] = [key |-> items[n].key, val |-> items[n].val]
      BY <1>5, <3>5 DEF WalkSound
    <3>7. \A i, j \in DOMAIN yielded :
            i < j => RankIn(yielded[i].key) < RankIn(yielded[j].key)
      BY DEF WalkSound
    <3>8. \A n \in DOMAIN items : ~(n > len)
      BY <1>2
    <3>9. lost # {} => "read" \in Failures
      BY DEF WalkSound
    <3> QED
      BY <1>1, <1>2, <1>6, <1>7, <2>3, <3>1, <3>4, <3>6, <3>7, <3>8, <3>9 DEF WalkSound
  <2> QED
    BY <2>5, <2>6, <2>7, <2>8
<1>11. CASE Matches # {}
  <2>1. PICK i \in Matches : /\ \A j \in Matches : i <= j
                             /\ cursor' = i + 1
                             /\ pos' = [pos EXCEPT ![t] = items[i].pos]
    BY <1>11 DEF NextEntry
  <2>2. pc' = [pc EXCEPT ![t] = "next.lock"] /\ iterLock' = t /\ ended' = ended
    BY <1>11 DEF NextEntry, Goto, KeepLock
  <2>3. /\ pc' \in [Threads -> EnginePCs \cup IterPCs]
        /\ pc'[t] = "next.lock" /\ \A u \in Threads : u # t => pc'[u] = pc[u]
        /\ pc' = [pc EXCEPT ![t] = pc'[t]]
    BY <1>1, <2>2 DEF IterTypeOK, IterPCs
  <2>4. Reading' /\ ~Copying'
    BY <1>9, <2>3 DEF Copying, Reading
  <2>5. i \in 1..len /\ c <= i /\ items[i].key \in options.prefix
    BY <1>2, <1>3, <1>8
  <2>6. CoreInv' /\ PositionsStable
    <3>1. items[i].pos \in MaybePositions
      BY <1>2, <2>5 DEF MaybePositions
    <3>2. pc[t] # "get.done" /\ pc'[t] \in IterPCs \cup {"idle"}
      BY <1>1, <2>3 DEF IterPCs
    <3>3. activeR' \subseteq Threads
      BY <1>1 DEF CoreInv, CoreTypeOK
    <3> QED
      BY <1>1, <2>1, <2>3, <3>1, <3>2, <3>3, IterStepKeepsCore
  <2>7. IterTypeOK'
    <3>1. cursor' \in 1..Len(items') + 1
      BY <1>1, <1>2, <2>1, <2>5
    <3> QED
      BY <1>1, <2>2, <2>3, <3>1, TypeFromParts, Zenon DEF IterTypeOK
  <2>8. IterLockHeld' /\ ItemsOrdered' /\ ItemsHold'
    <3>1. IterLockHeld'
      BY <1>9, <2>2, <2>3, EngineAssumption DEF IterLockHeld
    <3>2. ItemsOrdered'
      BY <1>1, <1>6, <2>4 DEF ItemsOrdered
    <3>3. ItemsHold'
      BY <1>1, <2>6 DEF ItemsHold, PositionsStable
    <3> QED
      BY <3>1, <3>2, <3>3
  <2>9. WalkSound'
    <3>1. PICK m \in Nat : m = i - 1 /\ i = m + 1
      BY <2>5, Before
    <3>2. i = m + 1
      BY <3>1
    <3>3. Done' = m
      <4>1. (i + 1) - 2 = m
        BY <2>5, <3>1
      <4> QED
        BY <2>1, <2>4, <4>1 DEF Done
    <3>4. \A n \in 1..len : n > d => RankIn(items[n].key) >= from
      BY <1>2, <1>5 DEF WalkSound
    <3>5. Wanted(items[i]) /\ i > d
      <4>1. i > d
        BY <1>3, <1>4, <2>5
      <4> QED
        BY <2>5, <3>4, <4>1 DEF Wanted
    <3>6. (ended => lost # {}) /\ (lost # {} => "read" \in Failures)
      <4>1. d # len
        BY <1>2, <1>3, <1>4, <2>5
      <4> QED
        BY <1>2, <1>5, <4>1 DEF WalkSound
    <3>7. \A n \in 1..m : n \in 1..d \/ (n \in c..len /\ n \notin Matches)
      BY <1>2, <1>3, <1>4, <2>1, <2>5, <3>2
    <3>8. \A n \in 1..m : Wanted(items[n]) =>
            \/ \E y \in DOMAIN yielded : yielded[y].key = items[n].key
            \/ items[n].key \in lost
      <4>1. \A n \in c..len : n \notin Matches => ~Wanted(items[n])
        BY <1>8 DEF Wanted
      <4> QED
        BY <1>5, <3>7, <4>1 DEF WalkSound
    <3>9. \A n \in 1..d : n \in 1..m
      BY <1>3, <1>4, <2>5, <3>2
    <3>10. \A y \in DOMAIN yielded : \E n \in 1..m :
             Wanted(items[n]) /\ yielded[y] = [key |-> items[n].key, val |-> items[n].val]
      BY <1>5, <3>9 DEF WalkSound
    <3>11. \A y, z \in DOMAIN yielded :
             y < z => RankIn(yielded[y].key) < RankIn(yielded[z].key)
      BY DEF WalkSound
    <3>12. \A n \in 1..len : n > m => n > d
      BY <1>3, <1>4, <2>5, <3>2
    <3>13. \A n \in DOMAIN items : n > m => RankIn(items[n].key) >= from
      BY <1>2, <3>4, <3>12
    <3>14. pos'[t] = items[i].pos /\ cursor' - 1 = i
      <4>1. (i + 1) - 1 = i
        BY <2>5
      <4> QED
        BY <2>1, <4>1 DEF CoreInv, CoreTypeOK
    <3>15. \A u \in Threads : pc'[u] \in {"next.lock", "next.read"} => u = t
      BY <1>9, <2>3
    <3>16. \A u \in Threads : pc'[u] \in {"next.lock", "next.read"} =>
             Wanted(items[cursor - 1])' /\ pos'[u] = items'[cursor' - 1].pos
      BY <1>1, <1>7, <3>5, <3>14, <3>15
    <3> QED
      BY <1>1, <1>2, <1>6, <1>7, <2>2, <3>3, <3>6, <3>8, <3>10, <3>11, <3>13, <3>16
      DEF WalkSound
  <2> QED
    BY <2>6, <2>7, <2>8, <2>9
<1> QED
  BY <1>10, <1>11

(* next returns the value the copy has for the entry it came to, because   *)
(* its position still holds that value.                                    *)
LEMMA NextReadPreserves ==
  ASSUME IterInv, NEW t \in Threads, NEW out \in ReadOutcomes, out = "ok", NextRead(t, out)
  PROVE  IterInv'
<1> USE DEF IterInv
<1>1. /\ pc[t] = "next.read" /\ pc' = [pc EXCEPT ![t] = "idle"] /\ iterLock = t
      /\ Reading /\ ~Copying
      /\ items' = items /\ options' = options /\ scan' = scan /\ made' = made
      /\ cursor' = cursor /\ from' = from /\ iterLock' = NoThread
      /\ pos' = [pos EXCEPT ![t] = NoPos] /\ activeR' = activeR \ {t}
      /\ UNCHANGED <<diskVars, fileVars, indexVars, activeW, olderW, rec, old, got, quota>>
  BY OneInside DEF NextRead, Goto, copyVars, IterLockHeld
<1>2. PICK len \in Nat : /\ len = Len(items) /\ DOMAIN items = 1..len
                         /\ \A i \in 1..len : items[i].key \in Keys /\ items[i].val \in Values
  BY ItemsTyped
<1>3. PICK c \in Nat : c = cursor /\ c <= len + 1
  BY <1>2, ItemsTyped
<1>4. PICK d \in Nat : d = Done /\ d = c - 2
  BY <1>1, <1>3 DEF Done, WalkSound
<1>5. PICK m \in Nat : m = c - 1 /\ m = d + 1 /\ c = m + 1 /\ m \in 1..len
  BY <1>2, <1>3, <1>4
<1>6. PICK e : e = items[m] /\ e = items[cursor - 1]
  BY <1>3, <1>5
<1>7. Wanted(e) /\ pos[t] = e.pos
  BY <1>1, <1>6 DEF WalkSound
<1>8. e.key \in Keys /\ e.val \in Values /\ GetValueByPosition(pos[t], out) = e.val
  BY <1>2, <1>5, <1>6, <1>7, ItemValue
<1>9. PICK y : y = [key |-> e.key, val |-> e.val]
  OBVIOUS
<1>10. yielded' = Append(yielded, y)
  BY <1>6, <1>8, <1>9 DEF NextRead
<1>11. ended' = ended /\ lost' = lost
  BY <1>8, Zenon DEF NextRead, IterTypeOK
<1>12. /\ pc' \in [Threads -> EnginePCs \cup IterPCs]
       /\ pc'[t] = "idle" /\ \A u \in Threads : u # t => pc'[u] = pc[u]
       /\ pc' = [pc EXCEPT ![t] = pc'[t]]
  BY <1>1 DEF IterTypeOK, EnginePCs
<1>13. \A u \in Threads : pc'[u] \notin {"iter.copy", "next.lock", "next.read"}
  BY <1>1, <1>12 DEF IterLockHeld
<1>14. ~Copying' /\ ~Reading'
  BY <1>13 DEF Copying, Reading
<1>15. CoreInv' /\ PositionsStable
  <2>1. activeR' \subseteq Threads /\ NoPos \in MaybePositions
    BY <1>1 DEF CoreInv, CoreTypeOK, MaybePositions
  <2> QED
    BY <1>1, <1>12, <2>1, IterStepKeepsCore
<1>16. PICK q \in Nat : q = Len(yielded) /\ DOMAIN yielded = 1..q
  BY DEF IterTypeOK
<1>17. /\ yielded' \in Seq([key : Keys, val : Values])
       /\ DOMAIN yielded' = 1..q + 1 /\ yielded'[q + 1] = y
       /\ \A i \in 1..q : yielded'[i] = yielded[i]
  <2>1. yielded \in Seq([key : Keys, val : Values]) /\ y \in [key : Keys, val : Values]
    BY <1>8, <1>9 DEF IterTypeOK
  <2> QED
    BY <1>10, <1>16, <2>1
<1>18. IterTypeOK'
  BY <1>1, <1>11, <1>12, <1>17, TypeFromParts, Zenon DEF IterTypeOK
<1>19. \A k : RankIn(k)' = RankIn(k)
  BY <1>1 DEF RankIn
<1>20. \A x : Wanted(x)' <=> Wanted(x)
  BY <1>1, <1>19 DEF Wanted
<1>21. IterLockHeld' /\ ItemsOrdered' /\ ItemsHold'
  <2>1. IterLockHeld'
    BY <1>1, <1>13, EngineAssumption DEF IterLockHeld
  <2>2. ItemsOrdered'
    BY <1>1, <1>14, <1>19 DEF ItemsOrdered
  <2>3. ItemsHold'
    BY <1>1, <1>15 DEF ItemsHold, PositionsStable
  <2> QED
    BY <2>1, <2>2, <2>3
<1>22. WalkSound'
  <2>1. Done' = m
    BY <1>1, <1>3, <1>5, <1>14 DEF Done
  <2>2. m = d + 1
    BY <1>5
  <2>3. (ended => lost # {}) /\ (lost # {} => "read" \in Failures)
    <3>1. d # len
      BY <1>2, <1>3, <1>5
    <3> QED
      BY <1>2, <1>4, <3>1 DEF WalkSound
  <2>4. \A i \in 1..q : \E n \in 1..d :
          Wanted(items[n]) /\ yielded[i] = [key |-> items[n].key, val |-> items[n].val]
    BY <1>4, <1>16 DEF WalkSound
  <2>5. \A i \in 1..q + 1 : i \in 1..q \/ i = q + 1
    BY <1>16
  <2>6. \A n \in 1..m : n \in 1..d \/ n = m
    BY <2>2
  <2>7. \A n \in 1..d : n \in 1..m /\ n < m /\ n \in 1..len
    BY <1>2, <1>5, <2>2
  <2>8. \A i \in 1..q + 1 : \E n \in 1..m :
          Wanted(items[n]) /\ yielded'[i] = [key |-> items[n].key, val |-> items[n].val]
    <3> SUFFICES ASSUME NEW i \in 1..q + 1
                 PROVE  \E n \in 1..m : /\ Wanted(items[n])
                                         /\ yielded'[i] = [key |-> items[n].key, val |-> items[n].val]
      OBVIOUS
    <3>1. CASE i \in 1..q
      BY <1>17, <2>4, <2>7, <3>1
    <3>2. CASE i = q + 1
      <4>1. m \in 1..m
        BY <2>2
      <4>2. yielded'[i] = [key |-> items[m].key, val |-> items[m].val]
        <5>1. yielded'[i] = y
          BY <1>17, <3>2
        <5> QED
          BY <1>6, <1>9, <5>1
      <4>3. Wanted(items[m])
        BY <1>6, <1>7
      <4> QED
        BY <4>1, <4>2, <4>3
    <3> QED
      BY <2>5, <3>1, <3>2
  <2>9. \A i \in 1..q : RankIn(yielded[i].key) < RankIn(e.key)
    <3> SUFFICES ASSUME NEW i \in 1..q
                 PROVE  RankIn(yielded[i].key) < RankIn(e.key)
      OBVIOUS
    <3>1. PICK n \in 1..d : yielded[i] = [key |-> items[n].key, val |-> items[n].val]
      BY <2>4
    <3>2. RankIn(items[n].key) < RankIn(items[m].key)
      BY <1>1, <1>2, <1>5, <2>7 DEF ItemsOrdered
    <3> QED
      BY <1>6, <3>1, <3>2
  <2>10. \A i, j \in 1..q : i < j => RankIn(yielded[i].key) < RankIn(yielded[j].key)
    BY <1>16 DEF WalkSound
  <2>11. \A i, j \in 1..q + 1 : i < j => RankIn(yielded'[i].key) < RankIn(yielded'[j].key)
    <3> SUFFICES ASSUME NEW i \in 1..q + 1, NEW j \in 1..q + 1, i < j
                 PROVE  RankIn(yielded'[i].key) < RankIn(yielded'[j].key)
      OBVIOUS
    <3>1. i \in 1..q
      BY <1>16
    <3> QED
      BY <1>9, <1>17, <2>5, <2>9, <2>10, <3>1
  <2>12. \A n \in 1..m : Wanted(items[n]) =>
           \/ \E i \in 1..q + 1 : yielded'[i].key = items[n].key
           \/ items[n].key \in lost
    <3> SUFFICES ASSUME NEW n \in 1..m, Wanted(items[n]), items[n].key \notin lost
                 PROVE  \E i \in 1..q + 1 : yielded'[i].key = items[n].key
      OBVIOUS
    <3>1. CASE n = m
      <4>1. q + 1 \in 1..q + 1
        BY <1>16
      <4>2. y.key = items[n].key
        BY <1>6, <1>9, <3>1
      <4>3. yielded'[q + 1].key = items[n].key
        BY <1>17, <4>2
      <4> QED
        BY <4>1, <4>3
    <3>2. CASE n \in 1..d
      <4>1. PICK i \in 1..q : yielded[i].key = items[n].key
        BY <1>4, <1>16, <3>2 DEF WalkSound
      <4>2. i \in 1..q + 1
        BY <1>16
      <4> QED
        BY <1>17, <4>1, <4>2
    <3> QED
      BY <2>6, <3>1, <3>2
  <2>13. \A n \in 1..len : n > m => n > d
    BY <2>2
  <2>14. \A n \in DOMAIN items : n > m => RankIn(items[n].key) >= from
    BY <1>2, <1>4, <2>13 DEF WalkSound
  <2> QED
    BY <1>1, <1>2, <1>11, <1>13, <1>17, <1>19, <1>20, <2>1, <2>3, <2>8, <2>11, <2>12, <2>14
    DEF WalkSound
<1> QED
  BY <1>15, <1>18, <1>21, <1>22

(* If the read fails, next has gone past the entry without returning it.   *)
LEMMA NextReadFailsPreserves ==
  ASSUME IterInv, NEW t \in Threads, "read" \in Failures, NextRead(t, "read")
  PROVE  IterInv'
<1> USE DEF IterInv
<1>1. /\ pc[t] = "next.read" /\ pc' = [pc EXCEPT ![t] = "idle"] /\ iterLock = t
      /\ Reading /\ ~Copying
      /\ items' = items /\ options' = options /\ scan' = scan /\ made' = made
      /\ cursor' = cursor /\ from' = from /\ iterLock' = NoThread
      /\ pos' = [pos EXCEPT ![t] = NoPos] /\ activeR' = activeR \ {t}
      /\ UNCHANGED <<diskVars, fileVars, indexVars, activeW, olderW, rec, old, got, quota>>
  BY OneInside DEF NextRead, Goto, copyVars, IterLockHeld
<1>2. PICK len \in Nat : /\ len = Len(items) /\ DOMAIN items = 1..len
                         /\ \A i \in 1..len : items[i].key \in Keys /\ items[i].val \in Values
  BY ItemsTyped
<1>3. PICK c \in Nat : c = cursor /\ c <= len + 1
  BY <1>2, ItemsTyped
<1>4. PICK d \in Nat : d = Done /\ d = c - 2
  BY <1>1, <1>3 DEF Done, WalkSound
<1>5. PICK m \in Nat : m = c - 1 /\ m = d + 1 /\ c = m + 1 /\ m \in 1..len
  BY <1>2, <1>3, <1>4
<1>6. PICK e : e = items[m] /\ e = items[cursor - 1]
  BY <1>3, <1>5
<1>7. Wanted(e) /\ pos[t] = e.pos
  BY <1>1, <1>6 DEF WalkSound
<1>8. /\ e.key \in Keys /\ e.val \in Values
      /\ GetValueByPosition(pos[t], "read") \notin Values
  BY <1>2, <1>5, <1>6, <1>7, ItemValue, DataFileAssumption
<1>9. yielded' = yielded /\ lost' = lost \cup {e.key}
  BY <1>6, <1>8, Zenon DEF NextRead
<1>10. ended' = TRUE
  BY <1>8, Zenon DEF NextRead
<1>11. lost' \subseteq Keys /\ lost' # {} /\ ended' \in BOOLEAN
  BY <1>8, <1>9, <1>10 DEF IterTypeOK
<1>12. /\ pc' \in [Threads -> EnginePCs \cup IterPCs]
       /\ pc'[t] = "idle" /\ \A u \in Threads : u # t => pc'[u] = pc[u]
       /\ pc' = [pc EXCEPT ![t] = pc'[t]]
  BY <1>1 DEF IterTypeOK, EnginePCs
<1>13. \A u \in Threads : pc'[u] \notin {"iter.copy", "next.lock", "next.read"}
  BY <1>1, <1>12 DEF IterLockHeld
<1>14. ~Copying' /\ ~Reading'
  BY <1>13 DEF Copying, Reading
<1>15. CoreInv' /\ PositionsStable
  <2>1. activeR' \subseteq Threads /\ NoPos \in MaybePositions
    BY <1>1 DEF CoreInv, CoreTypeOK, MaybePositions
  <2> QED
    BY <1>1, <1>12, <2>1, IterStepKeepsCore
<1>16. IterTypeOK'
  BY <1>1, <1>9, <1>11, <1>12, TypeFromParts, Zenon DEF IterTypeOK
<1>17. \A k : RankIn(k)' = RankIn(k)
  BY <1>1 DEF RankIn
<1>18. \A x : Wanted(x)' <=> Wanted(x)
  BY <1>1, <1>17 DEF Wanted
<1>19. IterLockHeld' /\ ItemsOrdered' /\ ItemsHold'
  <2>1. IterLockHeld'
    BY <1>1, <1>13, EngineAssumption DEF IterLockHeld
  <2>2. ItemsOrdered'
    BY <1>1, <1>14, <1>17 DEF ItemsOrdered
  <2>3. ItemsHold'
    BY <1>1, <1>15 DEF ItemsHold, PositionsStable
  <2> QED
    BY <2>1, <2>2, <2>3
<1>20. WalkSound'
  <2>1. Done' = m
    BY <1>1, <1>3, <1>5, <1>14 DEF Done
  <2>2. m = d + 1
    BY <1>5
  <2>3. \A n \in 1..m : n \in 1..d \/ n = m
    BY <2>2
  <2>4. \A n \in 1..d : n \in 1..m
    BY <2>2
  <2>5. \A i \in DOMAIN yielded : \E n \in 1..m :
          Wanted(items[n]) /\ yielded[i] = [key |-> items[n].key, val |-> items[n].val]
    BY <1>4, <2>4 DEF WalkSound
  <2>6. \A i, j \in DOMAIN yielded : i < j => RankIn(yielded[i].key) < RankIn(yielded[j].key)
    BY DEF WalkSound
  <2>7. \A n \in 1..m : Wanted(items[n]) =>
          \/ \E i \in DOMAIN yielded : yielded[i].key = items[n].key
          \/ items[n].key \in lost'
    BY <1>4, <1>6, <1>9, <2>3 DEF WalkSound
  <2>8. \A n \in 1..len : n > m => n > d
    BY <2>2
  <2>9. \A n \in DOMAIN items : n > m => RankIn(items[n].key) >= from
    BY <1>2, <1>4, <2>8 DEF WalkSound
  <2> QED
    BY <1>1, <1>2, <1>9, <1>11, <1>13, <1>17, <1>18, <2>1, <2>5, <2>6, <2>7, <2>9
    DEF WalkSound
<1> QED
  BY <1>15, <1>16, <1>19, <1>20

-----------------------------------------------------------------------------
(* The invariant holds before the first iterator is made.                  *)
LEMMA IterInitSatisfies == EngineInit /\ IterInit => IterInv
<1> SUFFICES ASSUME EngineInit, IterInit PROVE IterInv
  OBVIOUS
<1>1. CoreInv
  BY InitCore
<1>2. pc = [t \in Threads |-> "idle"] /\ ~Copying /\ ~Reading
  BY DEF EngineInit, Copying, Reading
<1>3. IterTypeOK
  <2>1. /\ items \in Seq([key : Keys, pos : Positions, val : Values])
        /\ yielded \in Seq([key : Keys, val : Values])
        /\ scan \in 1..Len(KeyOrder) + 1 /\ from \in 1..Len(KeyOrder) + 1
        /\ cursor \in 1..Len(items) + 1 /\ made \in Nat
    BY RankFacts DEF IterInit
  <2>2. /\ options \in [prefix : SUBSET Keys, reverse : BOOLEAN]
        /\ lost \subseteq Keys
        /\ ended \in BOOLEAN /\ iterLock \in Threads \cup {NoThread}
    BY DEF IterInit
  <2>3. pc \in [Threads -> EnginePCs \cup IterPCs]
    BY <1>2 DEF EnginePCs
  <2> QED
    BY <2>1, <2>2, <2>3, Zenon DEF IterTypeOK
<1>4. IterLockHeld /\ ItemsOrdered /\ ItemsHold
  BY <1>2, EngineAssumption DEF IterInit, IterLockHeld, ItemsOrdered, ItemsHold
<1>5. WalkSound
  BY <1>2 DEF IterInit, WalkSound, Done
<1> QED
  BY <1>1, <1>3, <1>4, <1>5 DEF IterInv

(* Every step of every thread preserves the invariant.                     *)
LEMMA IterNextPreserves == IterInv /\ [IterNext]_iterEngineVars => IterInv'
<1> SUFFICES ASSUME IterInv, [IterNext]_iterEngineVars PROVE IterInv'
  OBVIOUS
<1>1. CASE EngineNext /\ UNCHANGED iterVars
  BY <1>1, EngineStepsKeepIterator DEF EngineNext
<1>2. ASSUME NEW t \in Threads, IterCall(t)
      PROVE  IterInv'
  BY <1>2, IterNewPreserves, RestartPreserves, NextWaitsPreserve DEF IterCall
<1>3. ASSUME NEW t \in Threads, IterStep(t)
      PROVE  IterInv'
  BY <1>3, SkipListCopyPreserves, SkipListCopiedPreserves, NextEntryPreserves,
     NextWaitsPreserve, NextReadPreserves, NextReadFailsPreserves DEF IterStep, ReadOutcomes
<1>4. CASE UNCHANGED iterEngineVars
  <2>1. CoreInv' /\ PositionsStable
    BY <1>4, StutterKeepsCore, QuietStep DEF iterEngineVars, engineVars, IterInv, CoreInv
  <2>2. pc' = pc /\ pos' = pos /\ UNCHANGED iterVars
    BY <1>4 DEF iterEngineVars, engineVars, threadVars
  <2> QED
    BY <2>1, <2>2, WalkKept DEF IterInv, IterTypeOK
<1> QED
  BY <1>1, <1>2, <1>3, <1>4 DEF IterNext

(* The inductive invariant holds of every behaviour of the engine with an  *)
(* iterator that several threads share (iterator.rs, skiplist.rs).         *)
THEOREM IterInvariant == IterSpec => []IterInv
BY IterInitSatisfies, IterNextPreserves, PTL DEF IterSpec

(* The state of an iterator is always well typed: its cursor stays within  *)
(* the copied entries and one past them.                                   *)
THEOREM IterTypeCorrect == IterSpec => []IterTypeOK
<1>1. IterInv => IterTypeOK
  BY DEF IterInv
<1> QED
  BY <1>1, IterInvariant, PTL

(* Whatever is put, deleted and rotated while an iterator is open, every   *)
(* position it copied still names the value its key had when it was        *)
(* copied (get_value_by_position finds it).                                *)
THEOREM ItemsAlwaysHold == IterSpec => []ItemsHold
<1>1. IterInv => ItemsHold
  BY DEF IterInv
<1> QED
  BY <1>1, IterInvariant, PTL

(* From where it was rewound or sought to, Iterator::next returns every    *)
(* copied key with the prefix, each once, in order and with the value of   *)
(* the copy, whichever threads share the iterator and write to the engine  *)
(* meanwhile.  Only a read that fails makes it skip a key and return None  *)
(* before the last of them.                                                *)
THEOREM IterationAlwaysFaithful == IterSpec => []IterationFaithful
<1>1. ASSUME IterInv PROVE IterationFaithful
  <2> USE <1>1 DEF IterInv
  <2>1. PICK len \in Nat : len = Len(items) /\ DOMAIN items = 1..len
    BY ItemsTyped
  <2>2. PICK d \in Nat : d = Done /\ d <= len
    <3>1. Done \in Nat /\ (Done = cursor - 1 \/ Done = cursor - 2)
      BY DEF WalkSound, Done
    <3> QED
      BY <2>1, <3>1, ItemsTyped
  <2>3. \A i, j \in DOMAIN yielded :
          i < j => RankIn(yielded[i].key) < RankIn(yielded[j].key)
    BY DEF WalkSound
  <2>4. \A i \in DOMAIN yielded : \E n \in 1..d :
          Wanted(items[n]) /\ yielded[i] = [key |-> items[n].key, val |-> items[n].val]
    BY <2>2 DEF WalkSound
  <2>5. \A n \in 1..d : n \in 1..len
    BY <2>1, <2>2
  <2>6. ASSUME NEW n \in DOMAIN items, Wanted(items[n])
        PROVE  \/ \E i \in DOMAIN yielded : yielded[i].key = items[n].key
               \/ items[n].key \in lost
               \/ /\ ended => lost # {}
                  /\ \A i \in DOMAIN yielded : RankIn(yielded[i].key) < RankIn(items[n].key)
    <3>1. CASE n \in 1..d
      BY <2>2, <2>6, <3>1 DEF WalkSound
    <3>2. CASE n \notin 1..d
      <4>1. n \in 1..len /\ n > d /\ d # len
        BY <2>1, <2>2, <3>2
      <4>2. ended => lost # {}
        BY <2>1, <2>2, <4>1 DEF WalkSound
      <4>3. ASSUME NEW i \in DOMAIN yielded
            PROVE  RankIn(yielded[i].key) < RankIn(items[n].key)
        <5>1. PICK m \in 1..d : yielded[i] = [key |-> items[m].key, val |-> items[m].val]
          BY <2>4
        <5>2. m \in 1..len /\ m < n
          BY <2>5, <4>1
        <5>3. ~Copying
          BY <4>3 DEF ItemsOrdered
        <5>4. RankIn(items[m].key) < RankIn(items[n].key)
          BY <2>1, <4>1, <5>2, <5>3 DEF ItemsOrdered
        <5> QED
          BY <5>1, <5>4
      <4> QED
        BY <4>2, <4>3
    <3> QED
      BY <3>1, <3>2
  <2>7. lost # {} => "read" \in Failures
    BY DEF WalkSound
  <2> QED
    BY <2>1, <2>3, <2>4, <2>5, <2>6, <2>7 DEF IterationFaithful
<1> QED
  BY <1>1, IterInvariant, PTL
==============================================================================
