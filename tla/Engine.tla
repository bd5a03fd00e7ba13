------------------------------- MODULE Engine -------------------------------
(***************************************************************************)
(* A running storage engine (bitcask-rs/src/db.rs, index/) shared by       *)
(* several threads: put, get, delete and sync.                             *)
(*                                                                         *)
(* A thread's step ends where another thread can get in between: at the    *)
(* acquisition of the active-file lock, at the acquisition of the          *)
(* older-files lock while the active-file lock is held, and between the    *)
(* append to the log and the update of the index.  What happens inside one *)
(* critical section is one step.  The engine starts on an empty directory; *)
(* module Restart adds closing, crashing and reopening.                    *)
(***************************************************************************)
EXTENDS DataFile

CONSTANTS
  Threads,       \* threads that share the engine
  NoThread,      \* "nobody", for the owner of a lock
  DataFileSize,  \* options.data_file_size
  BytesPerSync,  \* options.bytes_per_sync, 0 to switch it off
  SyncWrites,    \* options.sync_writes
  PutInTwoSteps, \* is the index a SkipList, whose put is not one step
  Calls,         \* the calls this instance's clients make: a subset of AllCalls
  Failures,      \* the I/O errors that may happen: a subset of IOErrors
  MaxRecords     \* bound: how many records the threads may set out to write

AllCalls == {"put", "delete", "get", "sync", "batch", "merge"}

(* Where append_log_record can be left early: the sync of the file that is *)
(* full fails; the next file cannot be opened, which panics; the write of  *)
(* the record fails; the sync after the write fails.                       *)
AppendErrors == {"rotate", "create", "write", "sync"}

(* A read of a record can fail; merge, which opens files it has already    *)
(* (module Merge), can fail to open the file that was active, or another.  *)
IOErrors == AppendErrors \cup {"read", "reopen", "open"}

ASSUME EngineAssumption ==
  /\ NoThread \notin Threads
  /\ DataFileSize \in Nat \ {0}      \* check_options
  /\ BytesPerSync \in Nat
  /\ SyncWrites \in BOOLEAN
  /\ PutInTwoSteps \in BOOLEAN      \* a SkipList does, a BTree and a B+ tree do not
  /\ Calls \subseteq AllCalls
  /\ Failures \subseteq IOErrors
  /\ MaxRecords \in Nat

(* What the byte counts add up over is finite: the threads of a process,   *)
(* and the keys its clients use.                                           *)
ASSUME FiniteAssumption == IsFiniteSet(Threads) /\ IsFiniteSet(Keys)

VARIABLES
  disk,        \* the entries in the data files
  flen,        \* flen[f]: the length of file f
  durable,     \* durable[f]: how much of file f has been synced
  activeId,    \* active_file: its id,
  writeOff,    \*   its write_off,
  older,       \* older_files: the ids of the files that are full
  bytesWrite,  \* bytes_write: bytes written since the last sync
  index,       \* the in-memory index
  reclaim,     \* reclaim_size
  activeW,     \* the thread that holds active_file for writing
  activeR,     \* the threads that hold it for reading
  olderW,      \* the thread that holds older_files for writing
  pc,          \* where each thread is
  rec,         \* the record a thread is writing
  pos,         \* the position it has got from append_log_record or the index
  old,         \* the position SkipList::put has read before inserting
  got,         \* the result of a thread's get, until it returns
  quota        \* how many of the MaxRecords are left

diskVars == <<disk, flen, durable>>
fileVars == <<activeId, writeOff, older, bytesWrite>>
indexVars == <<index, reclaim>>
lockVars == <<activeW, activeR, olderW>>
threadVars == <<rec, pos, old, got>>

engineVars == <<diskVars, fileVars, indexVars, lockVars, threadVars, pc, quota>>

NoRec == Rec(TxnFinKey, NON_TRANSACTION_SEQ_NO, EmptyValue, "TxnFinished")

Replies == Values \cup {"KeyNotFound", "Error", "none"}

EngineInit ==
  /\ disk = {}
  /\ flen = [f \in FileIds |-> 0]
  /\ durable = [f \in FileIds |-> 0]
  /\ activeId = 0
  /\ writeOff = 0
  /\ older = {}
  /\ bytesWrite = 0
  /\ index = [k \in Keys |-> NoPos]
  /\ reclaim = 0
  /\ activeW = NoThread
  /\ activeR = {}
  /\ olderW = NoThread
  /\ pc = [t \in Threads |-> "idle"]
  /\ rec = [t \in Threads |-> NoRec]
  /\ pos = [t \in Threads |-> NoPos]
  /\ old = [t \in Threads |-> NoPos]
  /\ got = [t \in Threads |-> "none"]
  /\ quota = MaxRecords

-----------------------------------------------------------------------------
Goto(t, from, to) ==
  /\ pc[t] = from
  /\ pc' = [pc EXCEPT ![t] = to]

(* Faulty: the writer does not wait for readers.                           *)
LockActiveIgnoresReaders(t) ==
  /\ activeW = NoThread
  /\ activeW' = t

(* active_file.write(): waits for every reader and writer.                 *)
LockActive(t) ==
  /\ activeW = NoThread
  /\ activeR = {}
  /\ activeW' = t

(* active_file.read(): waits for a writer.                                 *)
ReadLockActive(t) ==
  /\ activeW = NoThread
  /\ activeR' = activeR \cup {t}

(***************************************************************************)
(* append_log_record, from the moment it holds active_file for writing.    *)
(* A record that does not fit closes the active file: it is synced, kept   *)
(* in older_files (whose lock is taken while active_file is held) and the  *)
(* next id becomes the active file with a write offset of 0.  The record   *)
(* lands where the file ends; the position that is returned is computed    *)
(* from write_off.  `out` is "ok" or the call that fails.                  *)
(***************************************************************************)
Rotates(size) == writeOff + size > DataFileSize

TargetFile(size) == IF Rotates(size) THEN activeId + 1 ELSE activeId

(* Faulty: the write offset is not reset with the new file.                *)
TargetOffNoReset(size) == writeOff

TargetOff(size) == IF Rotates(size) THEN 0 ELSE writeOff

(* Faulty: the sync comes one byte late.                                   *)
NeedSyncLate(size) ==
  \/ SyncWrites
  \/ BytesPerSync > 0 /\ bytesWrite + size > BytesPerSync

NeedSync(size) ==
  \/ SyncWrites
  \/ BytesPerSync > 0 /\ bytesWrite + size >= BytesPerSync

(* sync_data on a set of files.                                            *)
SyncFiles(fids, len) == [f \in FileIds |-> IF f \in fids THEN len[f] ELSE durable[f]]

(* The file that is full and becomes an older file.                        *)
FullFile(size) == IF Rotates(size) THEN {activeId} ELSE {}

(* Faulty: the file that is full is closed without a sync.                 *)
SyncedFilesNoRotationSync(size, synced) == IF synced THEN {TargetFile(size)} ELSE {}

(* What append_log_record syncs: the file that is full, and the active     *)
(* file if the options ask for it.                                         *)
SyncedFiles(size, synced) ==
  FullFile(size) \cup (IF synced THEN {TargetFile(size)} ELSE {})

AppendLogRecord(t, r, out) ==
  LET size == EncodedLength(r)
      fid == TargetFile(size)
      off == TargetOff(size)
      rotated == out \notin {"rotate", "create"}
      written == out \in {"ok", "sync"}
      synced == out = "ok" /\ NeedSync(size)
  IN
  /\ ~rotated => Rotates(size)
  /\ out = "sync" => NeedSync(size)
  /\ Rotates(size) /\ out # "rotate" => olderW = NoThread /\ activeId < MaxFileId
  /\ older' = IF out = "rotate" THEN older ELSE older \cup FullFile(size)
  /\ activeId' = IF rotated THEN fid ELSE activeId
  /\ IF written
     THEN /\ disk' = disk \cup {Entry(fid, flen[fid], r)}
          /\ flen' = [flen EXCEPT ![fid] = @ + size]
     ELSE UNCHANGED <<disk, flen>>
  /\ writeOff' = IF rotated THEN (IF written THEN off + size ELSE off) ELSE writeOff
  /\ durable' = IF out = "rotate" THEN durable
                ELSE SyncFiles(SyncedFiles(size, synced), flen')
  /\ bytesWrite' = IF synced THEN 0 ELSE IF written THEN bytesWrite + size ELSE bytesWrite
  /\ pos' = [pos EXCEPT ![t] = IF out = "ok" THEN Pos(fid, off, size) ELSE NoPos]
  /\ activeW' = NoThread
  /\ UNCHANGED <<activeR, olderW>>

Outcomes == {"ok"} \cup (Failures \cap AppendErrors)

(* What becomes of a read.                                                 *)
ReadOutcomes == {"ok"} \cup (Failures \cap {"read"})

-----------------------------------------------------------------------------
(* Faulty: the bytes of the new entry are counted.                         *)
IndexPutCountsNew(k, p) ==
  /\ index' = [index EXCEPT ![k] = p]
  /\ reclaim' = reclaim + p.size

(* Indexer::put and Indexer::delete hand back the entry they replace, and  *)
(* its size is added to reclaim_size.                                      *)
IndexPut(k, p) ==
  /\ index' = [index EXCEPT ![k] = p]
  /\ reclaim' = reclaim + index[k].size

(* Faulty: the bytes of the old entry are taken off.                       *)
IndexDeleteSubtracts(k, tombstone) ==
  /\ index' = [index EXCEPT ![k] = NoPos]
  /\ reclaim' = reclaim + tombstone - index[k].size

IndexDelete(k, tombstone) ==
  /\ index' = [index EXCEPT ![k] = NoPos]
  /\ reclaim' = reclaim + tombstone + index[k].size

(* Engine::put                                                             *)
PutStart(t, k, v) ==
  /\ "put" \in Calls
  /\ Goto(t, "idle", "put.lock")
  /\ quota > 0
  /\ quota' = quota - 1
  /\ rec' = [rec EXCEPT ![t] = Rec(k, NON_TRANSACTION_SEQ_NO, v, "Normal")]
  /\ UNCHANGED <<diskVars, fileVars, indexVars, lockVars, pos, old, got>>

PutLock(t) ==
  /\ Goto(t, "put.lock", "put.write")
  /\ LockActive(t)
  /\ UNCHANGED <<diskVars, fileVars, indexVars, activeR, olderW, threadVars, quota>>

PutWrite(t, out) ==
  /\ Goto(t, "put.write", IF out = "ok" THEN "put.index" ELSE "idle")
  /\ AppendLogRecord(t, rec[t], out)
  /\ rec' = IF out = "ok" THEN rec ELSE [rec EXCEPT ![t] = NoRec]
  /\ UNCHANGED <<indexVars, old, got, quota>>

(* BTree::put swaps the entry under the lock of the tree, BPlusTree::put   *)
(* in a write transaction.                                                 *)
TreePut(t) ==
  /\ Goto(t, "put.index", "idle")
  /\ IndexPut(rec[t].key, pos[t])
  /\ rec' = [rec EXCEPT ![t] = NoRec]
  /\ pos' = [pos EXCEPT ![t] = NoPos]
  /\ UNCHANGED <<diskVars, fileVars, lockVars, old, got, quota>>

(* SkipList::put looks the old entry up and inserts in two calls.  The     *)
(* library says of its insert that an entry that is there is removed       *)
(* before the new one is inserted, so others may find the key without an   *)
(* entry in between, or have put one of their own there.                   *)
SkipListGet(t) ==
  /\ Goto(t, "put.index", "put.insert")
  /\ old' = [old EXCEPT ![t] = index[rec[t].key]]
  /\ UNCHANGED <<diskVars, fileVars, indexVars, lockVars, rec, pos, got, quota>>

PutIndex(t) == IF PutInTwoSteps THEN SkipListGet(t) ELSE TreePut(t)

(* Faulty: an entry that is there is not replaced.                         *)
SkipListInsertOnce(t) ==
  /\ Goto(t, "put.insert", "idle")
  /\ index' = [index EXCEPT ![rec[t].key] = IF @ = NoPos THEN pos[t] ELSE @]
  /\ reclaim' = reclaim + old[t].size
  /\ rec' = [rec EXCEPT ![t] = NoRec]
  /\ pos' = [pos EXCEPT ![t] = NoPos]
  /\ old' = [old EXCEPT ![t] = NoPos]
  /\ UNCHANGED <<diskVars, fileVars, lockVars, got, quota>>

SkipListRemove(t) ==
  /\ PutInTwoSteps
  /\ pc[t] = "put.insert"
  /\ index[rec[t].key] # NoPos
  /\ index' = [index EXCEPT ![rec[t].key] = NoPos]
  /\ UNCHANGED <<diskVars, fileVars, reclaim, lockVars, threadVars, pc, quota>>

SkipListInsert(t) ==
  /\ Goto(t, "put.insert", "idle")
  /\ index[rec[t].key] = NoPos
  /\ index' = [index EXCEPT ![rec[t].key] = pos[t]]
  /\ reclaim' = reclaim + old[t].size
  /\ rec' = [rec EXCEPT ![t] = NoRec]
  /\ pos' = [pos EXCEPT ![t] = NoPos]
  /\ old' = [old EXCEPT ![t] = NoPos]
  /\ UNCHANGED <<diskVars, fileVars, lockVars, got, quota>>

(* Engine::delete.  A key that is not in the index is left alone; the      *)
(* tombstone of one that is carries the key without a sequence number.     *)
DeleteStart(t, k) ==
  /\ "delete" \in Calls
  /\ Goto(t, "idle", "del.lock")
  /\ quota > 0
  /\ index[k] # NoPos
  /\ quota' = quota - 1
  /\ rec' = [rec EXCEPT ![t] = Rec(k, RawSeq, EmptyValue, "Delete")]
  /\ UNCHANGED <<diskVars, fileVars, indexVars, lockVars, pos, old, got>>

DeleteLock(t) ==
  /\ Goto(t, "del.lock", "del.write")
  /\ LockActive(t)
  /\ UNCHANGED <<diskVars, fileVars, indexVars, activeR, olderW, threadVars, quota>>

DeleteWrite(t, out) ==
  /\ Goto(t, "del.write", IF out = "ok" THEN "del.index" ELSE "idle")
  /\ AppendLogRecord(t, rec[t], out)
  /\ rec' = IF out = "ok" THEN rec ELSE [rec EXCEPT ![t] = NoRec]
  /\ UNCHANGED <<indexVars, old, got, quota>>

DeleteIndex(t) ==
  /\ Goto(t, "del.index", "idle")
  /\ IndexDelete(rec[t].key, pos[t].size)
  /\ rec' = [rec EXCEPT ![t] = NoRec]
  /\ pos' = [pos EXCEPT ![t] = NoPos]
  /\ UNCHANGED <<diskVars, fileVars, lockVars, old, got, quota>>

(* Engine::get: the position comes from the index first; the files are     *)
(* locked, active before older, and read afterwards.                       *)
GetStart(t, k) ==
  /\ "get" \in Calls
  /\ IF index[k] = NoPos
     THEN /\ Goto(t, "idle", "get.done")
          /\ got' = [got EXCEPT ![t] = "KeyNotFound"]
          /\ UNCHANGED pos
     ELSE /\ Goto(t, "idle", "get.lock")
          /\ pos' = [pos EXCEPT ![t] = index[k]]
          /\ UNCHANGED got
  /\ UNCHANGED <<diskVars, fileVars, indexVars, lockVars, rec, old, quota>>

GetLock(t) ==
  /\ Goto(t, "get.lock", "get.read")
  /\ ReadLockActive(t)
  /\ UNCHANGED <<diskVars, fileVars, indexVars, activeW, olderW, threadVars, quota>>

(* Faulty: only the active file is searched.                               *)
GetValueActiveOnly(p, out) ==
  LET read == ReadLogRecord(disk, flen, p.fid, p.off)
  IN  CASE p.fid # activeId -> "Error"
        [] read.status # "ok" -> "Error"
        [] read.entry.type = "Delete" -> "KeyNotFound"
        [] OTHER -> read.entry.val

(* get_value_by_position.  `out` is "ok", or "read" when the file is there *)
(* and cannot be read.                                                     *)
GetValueByPosition(p, out) ==
  LET read == ReadLogRecord(disk, flen, p.fid, p.off)
  IN  CASE p.fid # activeId /\ p.fid \notin older -> "Error"
        [] out = "read" \/ read.status # "ok" -> "Error"
        [] read.entry.type = "Delete" -> "KeyNotFound"
        [] OTHER -> read.entry.val

(* Faulty: the read lock on the active file is kept.                       *)
GetReadKeepsLock(t, out) ==
  /\ Goto(t, "get.read", "get.done")
  /\ olderW = NoThread
  /\ got' = [got EXCEPT ![t] = GetValueByPosition(pos[t], out)]
  /\ pos' = [pos EXCEPT ![t] = NoPos]
  /\ UNCHANGED <<diskVars, fileVars, indexVars, lockVars, rec, old, quota>>

GetRead(t, out) ==
  /\ Goto(t, "get.read", "get.done")
  /\ olderW = NoThread
  /\ got' = [got EXCEPT ![t] = GetValueByPosition(pos[t], out)]
  /\ pos' = [pos EXCEPT ![t] = NoPos]
  /\ activeR' = activeR \ {t}
  /\ UNCHANGED <<diskVars, fileVars, indexVars, activeW, olderW, rec, old, quota>>

GetReturn(t) ==
  /\ Goto(t, "get.done", "idle")
  /\ got' = [got EXCEPT ![t] = "none"]
  /\ UNCHANGED <<diskVars, fileVars, indexVars, lockVars, rec, pos, old, quota>>

(* Engine::sync holds active_file for reading during the sync of the file. *)
Sync(t) ==
  /\ "sync" \in Calls
  /\ pc[t] = "idle"
  /\ activeW = NoThread
  /\ durable' = SyncFiles({activeId}, flen)
  /\ UNCHANGED <<disk, flen, fileVars, indexVars, lockVars, threadVars, pc, quota>>

EngineCall(t) ==
  \/ \E k \in Keys, v \in Values : PutStart(t, k, v)
  \/ \E k \in Keys : DeleteStart(t, k)
  \/ \E k \in Keys : GetStart(t, k)
  \/ Sync(t)

EngineStep(t) ==
  \/ PutLock(t)
  \/ \E out \in Outcomes : PutWrite(t, out)
  \/ PutIndex(t)
  \/ SkipListRemove(t)
  \/ SkipListInsert(t)
  \/ DeleteLock(t)
  \/ \E out \in Outcomes : DeleteWrite(t, out)
  \/ DeleteIndex(t)
  \/ GetLock(t)
  \/ \E out \in ReadOutcomes : GetRead(t, out)
  \/ GetReturn(t)

EngineNext == \E t \in Threads : EngineCall(t) \/ EngineStep(t)

EngineSpec == EngineInit /\ [][EngineNext]_engineVars
-----------------------------------------------------------------------------
(* The steps that wait for a lock.                                         *)
LockStep(t) == PutLock(t) \/ DeleteLock(t) \/ GetLock(t)

-----------------------------------------------------------------------------
(* The shape of the state.                                                 *)
EnginePCs == {"idle", "put.lock", "put.write", "put.index", "put.insert",
              "del.lock", "del.write", "del.index", "get.lock", "get.read", "get.done"}

MaybePositions == Positions \cup {NoPos}

(* What is left of the shape when other operations add program counters.   *)
CoreTypeOK ==
  /\ disk \subseteq Entries
  /\ flen \in [FileIds -> Nat]
  /\ durable \in [FileIds -> Nat]
  /\ activeId \in FileIds
  /\ writeOff \in Nat
  /\ older \subseteq FileIds
  /\ bytesWrite \in Nat
  /\ index \in [Keys -> MaybePositions]
  /\ reclaim \in Nat
  /\ activeW \in Threads \cup {NoThread}
  /\ activeR \subseteq Threads
  /\ olderW \in Threads \cup {NoThread}
  /\ pc = [t \in Threads |-> pc[t]]
  /\ rec \in [Threads -> LogRecord]
  /\ pos \in [Threads -> MaybePositions]
  /\ old \in [Threads -> MaybePositions]
  /\ got \in [Threads -> Replies]
  /\ quota \in Nat

EngineTypeOK == CoreTypeOK /\ pc \in [Threads -> EnginePCs]

(* A position names a put of a value to a key that is where the position   *)
(* says, in a file that a reader will find.                                *)
Holds(p, k, v) ==
  \E e \in disk :
    /\ PosOf(e) = p
    /\ e.key = k
    /\ e.val = v
    /\ e.type = "Normal"
    /\ e.fid = activeId \/ e.fid \in older

Locates(p, k) == \E v \in Values : Holds(p, k, v)

(* Every entry of the index points to a put of that very key, through      *)
(* every rotation of the active file and every interleaving of writers     *)
(* (append_log_record computes the position from write_off, the file grows *)
(* by itself).                                                             *)
IndexSound == \A k \in Keys : index[k] # NoPos => Locates(index[k], k)

(* reclaim_size never claims a byte twice: with the bytes the index still  *)
(* needs and those about to be indexed or reclaimed it stays within what   *)
(* the files hold.  merge relies on it when it subtracts reclaim_size from *)
(* the size of the directory.                                              *)
LiveBytes == MapThenSumSet(LAMBDA k : index[k].size, Keys)

AppendedBytes ==
  MapThenSumSet(LAMBDA t : pos[t].size,
                {t \in Threads : pc[t] \in {"put.index", "put.insert", "del.index"}})

ReclaimAccounting == reclaim + LiveBytes + AppendedBytes <= SizeOf(flen, FileIds)

(* A file leaves the active slot only when it is synced, so syncing the    *)
(* active file makes everything durable, even if a write or a sync failed. *)
OlderFilesDurable == \A f \in older : f # activeId => durable[f] = flen[f]

(* Unless a sync fails, bytes_per_sync bounds what a power failure can     *)
(* take of the active file, and sync_writes leaves nothing to take; of the *)
(* other files it takes nothing (OlderFilesDurable).                       *)
UnsyncedBytes == flen[activeId] - durable[activeId]

UnsyncedBounded ==
  /\ UnsyncedBytes <= bytesWrite
  /\ "sync" \notin Failures =>
       /\ BytesPerSync > 0 => UnsyncedBytes < BytesPerSync
       /\ SyncWrites => UnsyncedBytes = 0

(***************************************************************************)
(* What the steps of the engine preserve and the properties above rest on. *)
(***************************************************************************)
(* write_off is the end of the active file, files beyond it are empty, and *)
(* every record lies inside a file that a reader finds.                    *)
LogWellFormed ==
  /\ writeOff = flen[activeId]
  /\ \A f \in FileIds : f > activeId => flen[f] = 0
  /\ \A f \in older : f <= activeId
  /\ \A e \in disk :
       /\ e.fid = activeId \/ e.fid \in older
       /\ e.size > 0
       /\ EndOf(e) <= flen[e.fid]
  /\ \A d, e \in disk : d.fid = e.fid /\ d.off = e.off => d = e

(* A writer is about to write a record of its own kind, and a put that has *)
(* appended its record knows where it is; a get holds a position that the  *)
(* index held.                                                             *)
InFlightSound ==
  \A t \in Threads :
    /\ pc[t] \in {"put.lock", "put.write", "put.index", "put.insert"} =>
         rec[t].key \in Keys /\ rec[t].type = "Normal"
    /\ pc[t] \in {"del.lock", "del.write", "del.index"} =>
         rec[t].key \in Keys /\ rec[t].type = "Delete"
    /\ pc[t] \in {"put.index", "put.insert"} => Holds(pos[t], rec[t].key, rec[t].val)
    /\ pc[t] \in {"get.lock", "get.read"} => \E k \in Keys : Locates(pos[t], k)
    /\ pc[t] # "get.done" => got[t] = "none"

(* The locks are held by exactly the threads whose code is between taking  *)
(* and releasing them, and active_file excludes.                           *)
LocksHeld ==
  /\ \A t \in Threads : pc[t] \in {"put.write", "del.write"} <=> activeW = t
  /\ activeR = {t \in Threads : pc[t] = "get.read"}
  /\ activeW # NoThread => activeR = {}

(* bytes_write counts every byte of the active file that is not synced,    *)
(* and reaching bytes_per_sync resets it.                                  *)
SyncAccounting ==
  /\ \A f \in FileIds : durable[f] <= flen[f]
  /\ "sync" \notin Failures /\ BytesPerSync > 0 => bytesWrite < BytesPerSync
  /\ UnsyncedBounded

CoreInv ==
  /\ CoreTypeOK
  /\ LogWellFormed
  /\ IndexSound
  /\ InFlightSound
  /\ OlderFilesDurable

EngineInv == CoreInv /\ EngineTypeOK /\ LocksHeld /\ SyncAccounting

(* When no call is in progress the index holds the newest record of every  *)
(* key, so that a restart, which replays the files in order, would answer  *)
(* what the engine answers now.                                            *)
Precedes(d, e) == d.fid < e.fid \/ (d.fid = e.fid /\ d.off < e.off)

IndexIsNewest ==
  (\A t \in Threads : pc[t] = "idle") =>
    \A k \in Keys, d, e \in disk :
      /\ index[k] = PosOf(d)
      /\ e.key = k
      => ~Precedes(d, e)

(* Every call returns.                                                     *)
CallsReturn == \A t \in Threads : (pc[t] # "idle") ~> (pc[t] = "idle")

(***************************************************************************)
(* The engine implements KVStore.  The index is the map; the value of an   *)
(* entry is what the files hold at its position.  A write is asked for     *)
(* until the index is updated, a get is answered when it has consulted the *)
(* index.                                                                  *)
(***************************************************************************)
ValueAt(p) ==
  LET read == ReadLogRecord(disk, flen, p.fid, p.off)
  IN  IF read.status = "ok" THEN read.entry.val ELSE "Error"

Contents ==
  [k \in Keys |-> IF index[k] = NoPos THEN "KeyNotFound" ELSE ValueAt(index[k])]

Written(r) == IF r.type = "Delete" THEN "KeyNotFound" ELSE r.val

WritePCs == {"put.lock", "put.write", "put.index", "put.insert",
             "del.lock", "del.write", "del.index"}

Asked ==
  [t \in Threads |-> IF pc[t] \in WritePCs
                     THEN [key |-> rec[t].key, val |-> Written(rec[t]),
                           begun |-> pc[t] = "put.insert"]
                     ELSE [key |-> "none", val |-> "none", begun |-> FALSE]]

Answers ==
  [t \in Threads |-> IF pc[t] \in {"get.lock", "get.read"} THEN ValueAt(pos[t]) ELSE got[t]]

KV == INSTANCE KVStore WITH
        kv <- Contents, call <- Asked, reply <- Answers,
        WritesMayFail <- Outcomes # {"ok"}, ReadsMayFail <- "read" \in Failures,
        PutsMayRemove <- PutInTwoSteps

(* Each key behaves as if a single map were updated atomically by the      *)
(* value each put was called with, an I/O error leaves no effect, and a    *)
(* get returns what the map held when it asked, or an error if the read    *)
(* fails.  With a SkipList a key that is overwritten may be missing for a  *)
(* moment before.                                                          *)
ImplementsKVStore == KV!KVSpec
=============================================================================
