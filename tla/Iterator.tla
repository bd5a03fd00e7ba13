------------------------------ MODULE Iterator -------------------------------
(***************************************************************************)
(* Iterators (bitcask-rs/src/iterator.rs and the iterators of index/) next *)
(* to the running engine.  An iterator copies the positions of all keys    *)
(* from the index when it is made and reads a value only when next comes   *)
(* to it, while puts, deletes and rotations go on.  It can be shared: next,*)
(* rewind and seek take its lock, and next keeps it while it waits for the *)
(* files.                                                                  *)
(***************************************************************************)
EXTENDS Engine, SequencesExt

CONSTANTS
  KeyOrder,     \* the keys in the order of their bytes
  IterOptions,  \* IteratorOptions: the keys with the prefix, and reverse
  MaxIters      \* bound: how many iterators are made, one after the other

ASSUME IteratorAssumption ==
  /\ KeyOrder \in Seq(Keys) /\ IsInjective(KeyOrder) /\ Range(KeyOrder) = Keys
  /\ IterOptions \subseteq [prefix : SUBSET Keys, reverse : BOOLEAN]
  /\ MaxIters \in Nat

VARIABLES
  items,     \* the entries that were copied, in the order of the iterator
  cursor,    \* curr_index, the next entry to look at
  options,   \* its options
  iterLock,  \* the thread that holds index_iter
  scan,      \* the rank of the key that the copying comes to next
  made,      \* how many iterators have been made
  from,      \* history: the rank at which the iteration starts
  yielded,   \* history: what next has returned since then,
  lost,      \*   the keys whose value it could not read,
  ended      \*   and whether it has returned None

copyVars == <<items, options, scan, made>>
walkVars == <<cursor, from, yielded, lost, ended>>
iterVars == <<copyVars, walkVars, iterLock>>
iterEngineVars == <<engineVars, iterVars>>

IterInit ==
  /\ items = <<>> /\ scan = 1 /\ made = 0
  /\ options = [prefix |-> Keys, reverse |-> FALSE]
  /\ cursor = 1 /\ from = 1 /\ yielded = <<>> /\ lost = {} /\ ended = FALSE
  /\ iterLock = NoThread

IterPCs == {"iter.copy", "next.wait", "next.lock", "next.read"}

-----------------------------------------------------------------------------
(* An entry, with a history variable of the value its key then has.        *)
Item(k) == [key |-> k, pos |-> index[k], val |-> Contents[k]]

(* Faulty: a key that is not in the index is copied too.                   *)
PresentOrNot == Keys

Present == {k \in Keys : index[k] # NoPos}

Rank(k) == CHOOSE i \in DOMAIN KeyOrder : KeyOrder[i] = k

(* A walk along the tree comes to every key once, in their order.          *)
WalksAlong(ks) ==
  /\ Range(ks) = Present
  /\ \A i, j \in DOMAIN ks : i < j => Rank(ks[i]) < Rank(ks[j])

InOrder(seq, rev) == IF rev THEN Reverse(seq) ELSE seq

(* Engine::iter.  BTree and BPlusTree copy the tree under its lock or in   *)
(* one transaction, SkipList walks along while others insert and remove.   *)
IterNew(t, opts) ==
  /\ made < MaxIters
  /\ iterLock = NoThread
  /\ made' = made + 1
  /\ options' = opts
  /\ cursor' = 1 /\ from' = 1 /\ yielded' = <<>> /\ lost' = {} /\ ended' = FALSE
  /\ IF PutInTwoSteps
     THEN /\ Goto(t, "idle", "iter.copy")
          /\ items' = <<>> /\ scan' = 1 /\ iterLock' = t
     ELSE /\ pc[t] = "idle" /\ UNCHANGED <<pc, scan, iterLock>>
          /\ \E n \in 0..Len(KeyOrder) : \E ks \in [1..n -> Present] :
               /\ WalksAlong(ks)
               /\ items' = InOrder([i \in 1..n |-> Item(ks[i])], opts.reverse)
  /\ UNCHANGED <<diskVars, fileVars, indexVars, lockVars, threadVars, quota>>

SkipListCopy(t) ==
  LET k == KeyOrder[scan]
  IN
  /\ pc[t] = "iter.copy"
  /\ scan <= Len(KeyOrder)
  /\ items' = IF k \in Present THEN Append(items, Item(k)) ELSE items
  /\ scan' = scan + 1
  /\ UNCHANGED <<engineVars, options, made, walkVars, iterLock>>

SkipListCopied(t) ==
  /\ Goto(t, "iter.copy", "idle")
  /\ scan > Len(KeyOrder)
  /\ items' = InOrder(items, options.reverse)
  /\ iterLock' = NoThread
  /\ UNCHANGED <<diskVars, fileVars, indexVars, lockVars, threadVars, quota, options, scan,
                 made, walkVars>>

(* index_iter.write()                                                      *)
HasIterator(t) == pc[t] = "idle" /\ made > 0 /\ iterLock = NoThread

Restarted(i, rank) ==
  /\ cursor' = i
  /\ from' = rank
  /\ yielded' = <<>>
  /\ lost' = {}
  /\ ended' = FALSE

Rewind(t) ==
  /\ HasIterator(t)
  /\ Restarted(1, 1)
  /\ UNCHANGED <<engineVars, copyVars, iterLock>>

(* Where a key comes in the order of the iterator.                         *)
RankIn(k) == IF options.reverse THEN Len(KeyOrder) + 1 - Rank(k) ELSE Rank(k)

(* The binary search for a key: its entry, or where it would be inserted.  *)
SeekIndex(k, i) ==
  /\ \A j \in 1..i-1 : RankIn(items[j].key) < RankIn(k)
  /\ \A j \in i..Len(items) : RankIn(items[j].key) >= RankIn(k)

Seek(t, k) ==
  /\ HasIterator(t)
  /\ \E i \in 1..Len(items) + 1 : SeekIndex(k, i) /\ Restarted(i, RankIn(k))
  /\ UNCHANGED <<engineVars, copyVars, iterLock>>

Matches == {i \in cursor..Len(items) : items[i].key \in options.prefix}

(* Faulty: next gives the lock back before it reads the value.             *)
KeepLockNot(t) == iterLock' = NoThread

(* next keeps index_iter until it returns.                                 *)
KeepLock(t) == iterLock' = t

(* Iterator::next waits for index_iter,                                    *)
NextCall(t) ==
  /\ made > 0
  /\ Goto(t, "idle", "next.wait")
  /\ UNCHANGED <<diskVars, fileVars, indexVars, lockVars, threadVars, quota, iterVars>>

(* the index iterator advances to an entry that matches,                   *)
NextEntry(t) ==
  /\ iterLock = NoThread
  /\ IF Matches = {}
     THEN /\ Goto(t, "next.wait", "idle")
          /\ cursor' = Len(items) + 1
          /\ ended' = TRUE
          /\ UNCHANGED <<pos, iterLock>>
     ELSE /\ Goto(t, "next.wait", "next.lock")
          /\ \E i \in Matches :
               /\ \A j \in Matches : i <= j
               /\ cursor' = i + 1
               /\ pos' = [pos EXCEPT ![t] = items[i].pos]
          /\ KeepLock(t)
          /\ UNCHANGED ended
  /\ UNCHANGED <<diskVars, fileVars, indexVars, lockVars, rec, old, got, quota, copyVars,
                 from, yielded, lost>>

(* and get_value_by_position reads its value.                              *)
NextLock(t) ==
  /\ Goto(t, "next.lock", "next.read")
  /\ ReadLockActive(t)
  /\ UNCHANGED <<diskVars, fileVars, indexVars, activeW, olderW, threadVars, quota, iterVars>>

(* A value that cannot be read is answered with None, as if it were the    *)
(* end; the cursor has moved on.                                           *)
NextRead(t, out) ==
  LET val == GetValueByPosition(pos[t], out)
      read == val \in Values
      e == items[cursor - 1]
  IN
  /\ Goto(t, "next.read", "idle")
  /\ olderW = NoThread
  /\ activeR' = activeR \ {t}
  /\ pos' = [pos EXCEPT ![t] = NoPos]
  /\ iterLock' = NoThread
  /\ yielded' = IF read THEN Append(yielded, [key |-> e.key, val |-> val]) ELSE yielded
  /\ lost' = IF read THEN lost ELSE lost \cup {e.key}
  /\ ended' = (ended \/ ~read)
  /\ UNCHANGED <<diskVars, fileVars, indexVars, activeW, olderW, rec, old, got, quota,
                 copyVars, cursor, from>>

IterCall(t) ==
  \/ \E opts \in IterOptions : IterNew(t, opts)
  \/ Rewind(t)
  \/ \E k \in Keys : Seek(t, k)
  \/ NextCall(t)

IterStep(t) ==
  \/ SkipListCopy(t)
  \/ SkipListCopied(t)
  \/ NextEntry(t)
  \/ NextLock(t)
  \/ \E out \in ReadOutcomes : NextRead(t, out)

IterNext ==
  \/ EngineNext /\ UNCHANGED iterVars
  \/ \E t \in Threads : IterCall(t) \/ IterStep(t)

IterSpec == EngineInit /\ IterInit /\ [][IterNext]_iterEngineVars

(* Fairness.  A thread inside a call keeps running; parking_lot hands a    *)
(* contended lock over eventually, so a thread that waits for a lock that  *)
(* is free again and again gets it.                                        *)
IterFairness ==
  \A t \in Threads :
    /\ WF_iterEngineVars((EngineStep(t) /\ UNCHANGED iterVars) \/ IterStep(t))
    /\ SF_iterEngineVars((LockStep(t) /\ UNCHANGED iterVars) \/ NextEntry(t) \/ NextLock(t))

IterFairSpec == IterSpec /\ IterFairness

-----------------------------------------------------------------------------
(* The shape of the iterator.                                              *)
IterTypeOK ==
  /\ items \in Seq([key : Keys, pos : Positions, val : Values])
  /\ options \in [prefix : SUBSET Keys, reverse : BOOLEAN]
  /\ scan \in 1..Len(KeyOrder) + 1
  /\ made \in Nat
  /\ cursor \in 1..Len(items) + 1
  /\ from \in 1..Len(KeyOrder) + 1
  /\ yielded \in Seq([key : Keys, val : Values])
  /\ lost \subseteq Keys
  /\ ended \in BOOLEAN
  /\ iterLock \in Threads \cup {NoThread}
  /\ pc \in [Threads -> EnginePCs \cup IterPCs]

(* What an iterator holds stays readable: the position it copied names the *)
(* value the key had then, whatever has been put, deleted or rotated       *)
(* since.                                                                  *)
ItemsHold == \A i \in DOMAIN items : Holds(items[i].pos, items[i].key, items[i].val)

(* An entry the iteration has to return.                                   *)
Wanted(e) == e.key \in options.prefix /\ RankIn(e.key) >= from

(* An iteration returns, from where it was rewound or sought to, the keys  *)
(* with the prefix that the copy holds, each once, in the order of the     *)
(* keys and with the value of the copy.  It skips none of them but those   *)
(* whose read failed, and None is returned only when there are no more or  *)
(* a read has failed: never because a position no longer leads to a value. *)
IterationFaithful ==
  /\ lost # {} => "read" \in Failures
  /\ \A i, j \in DOMAIN yielded :
       i < j => RankIn(yielded[i].key) < RankIn(yielded[j].key)
  /\ \A i \in DOMAIN yielded : \E n \in DOMAIN items :
       Wanted(items[n]) /\ yielded[i] = [key |-> items[n].key, val |-> items[n].val]
  /\ \A n \in DOMAIN items : Wanted(items[n]) =>
       \/ \E i \in DOMAIN yielded : yielded[i].key = items[n].key
       \/ items[n].key \in lost
       \/ /\ ended => lost # {}
          /\ \A i \in DOMAIN yielded : RankIn(yielded[i].key) < RankIn(items[n].key)

(* What flod, which applies a function to all the data of the engine, goes *)
(* by: None means that every entry has been returned.                      *)
NoneMeansDone ==
  ended => \A n \in DOMAIN items : Wanted(items[n]) =>
             \E i \in DOMAIN yielded : yielded[i].key = items[n].key

(***************************************************************************)
(* What the steps preserve and these properties rest on.                   *)
(***************************************************************************)
Copying == \E t \in Threads : pc[t] = "iter.copy"
Reading == \E t \in Threads : pc[t] \in {"next.lock", "next.read"}

(* index_iter is held from the copying to its end, and by next while it    *)
(* reads.                                                                  *)
IterLockHeld ==
  \A t \in Threads : pc[t] \in {"iter.copy", "next.lock", "next.read"} <=> iterLock = t

(* The entries are in the order of the iterator; while they are copied,    *)
(* which is before the first next, they are in the order of the keys.      *)
ItemsOrdered ==
  /\ ~Copying => \A i, j \in DOMAIN items :
                   i < j => RankIn(items[i].key) < RankIn(items[j].key)
  /\ Copying =>
       /\ \A i, j \in DOMAIN items : i < j => Rank(items[i].key) < Rank(items[j].key)
       /\ \A i \in DOMAIN items : Rank(items[i].key) < scan
       /\ cursor = 1 /\ from = 1 /\ yielded = <<>> /\ lost = {} /\ ~ended

(* How many entries next is done with.                                     *)
Done == IF Reading THEN cursor - 2 ELSE cursor - 1

(* next has returned exactly the wanted ones of the entries it is done     *)
(* with, but for those it could not read, and it reads the one before the  *)
(* cursor.                                                                 *)
WalkSound ==
  /\ Done \in Nat
  /\ lost # {} => "read" \in Failures
  /\ ended => Done = Len(items) \/ lost # {}
  /\ \A t \in Threads : pc[t] \in {"next.lock", "next.read"} =>
       Wanted(items[cursor - 1]) /\ pos[t] = items[cursor - 1].pos
  /\ \A n \in DOMAIN items : n > Done => RankIn(items[n].key) >= from
  /\ \A i, j \in DOMAIN yielded :
       i < j => RankIn(yielded[i].key) < RankIn(yielded[j].key)
  /\ \A i \in DOMAIN yielded : \E n \in 1..Done :
       Wanted(items[n]) /\ yielded[i] = [key |-> items[n].key, val |-> items[n].val]
  /\ \A n \in 1..Done : Wanted(items[n]) =>
       \/ \E i \in DOMAIN yielded : yielded[i].key = items[n].key
       \/ items[n].key \in lost

IterInv ==
  /\ CoreInv
  /\ IterTypeOK
  /\ IterLockHeld
  /\ ItemsOrdered
  /\ ItemsHold
  /\ WalkSound
==============================================================================
