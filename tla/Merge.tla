------------------------------- MODULE Merge --------------------------------
(***************************************************************************)
(* Merge (bitcask-rs/src/merge.rs) next to the running engine: the records *)
(* the index still points to are copied from all the files but a new       *)
(* active one into a second engine in the merge directory, with a hint     *)
(* file of their positions; a last file says which ids the copy replaces.  *)
(* The data files are not touched: the copy is installed by the next open  *)
(* (module Restart).                                                       *)
(*                                                                         *)
(* merging_lock lets one merge run at a time, so its state is not kept per *)
(* thread.  Other threads get in at every record of the scan.              *)
(***************************************************************************)
EXTENDS WriteBatch

CONSTANTS
  MergeRatio,   \* options.data_file_merge_ratio, in percent
  MaxMerges     \* bound: how many merges are started

ASSUME MergeAssumption ==
  /\ MergeRatio \in 0..100      \* check_options
  /\ MaxMerges \in Nat
  /\ TxnFinKey \notin Keys /\ OtherKey \notin Keys

VARIABLES
  merging,      \* the thread that holds merging_lock
  merges,       \* how many merges have been started
  mergeDir,     \* does the merge directory exist
  mergeFiles,   \* the ids of the files that are being merged
  scan,         \* the file and the offset the scan has come to
  mergeDisk,    \* the entries in the data files of merge_db
  mergeLen,     \* their lengths
  mergeActive,  \* the active file of merge_db,
  mergeOff,     \*   and its write_off
  hint,         \* the records of the hint file, in order
  fin,          \* the merge-finished file
  late          \* history: the keys with a record that was in the log but
                \*   not yet in the index when the files to merge were chosen

mergeDirVars == <<mergeDisk, mergeLen, mergeActive, mergeOff, hint>>
mergeVars == <<merging, merges, mergeDir, mergeFiles, scan, mergeDirVars, fin, late>>

(* The merge-finished file is missing, empty, or holds a file id.          *)
NoFin == -2
EmptyFin == -1

NoScan == [fid |-> 0, off |-> 0]

(* The merge directory with a merge_db that was opened and holds nothing.  *)
EmptyMergeDir ==
  /\ mergeDisk' = {}
  /\ mergeLen' = [f \in FileIds |-> 0]
  /\ mergeActive' = 0
  /\ mergeOff' = 0
  /\ hint' = <<>>

MergeInit ==
  /\ merging = NoThread
  /\ merges = 0
  /\ mergeDir = FALSE
  /\ mergeFiles = {}
  /\ scan = NoScan
  /\ mergeDisk = {}
  /\ mergeLen = [f \in FileIds |-> 0]
  /\ mergeActive = 0
  /\ mergeOff = 0
  /\ hint = <<>>
  /\ fin = NoFin
  /\ late = {}

(* Faulty: an early return keeps merging_lock.                             *)
EndMergeKeepsLock ==
  /\ scan' = NoScan
  /\ UNCHANGED merging

(* Leaving merge drops merging_lock; an error leaves the directory behind  *)
(* without a merge-finished record.                                        *)
EndMerge ==
  /\ merging' = NoThread
  /\ scan' = NoScan

-----------------------------------------------------------------------------
(* Engine::merge up to ratate_merge_files.  An empty engine has nothing to *)
(* merge, a second merge is refused, and so is one that would win back too *)
(* little; none of these changes anything.  The merge directory of an      *)
(* earlier merge is removed with all it holds.                             *)
MergeStart(t) ==
  /\ "merge" \in Calls
  /\ merges < MaxMerges
  /\ Goto(t, "idle", "merge.older")
  /\ activeW = NoThread /\ olderW = NoThread
  /\ writeOff # 0 \/ older # {}
  /\ merging = NoThread
  /\ 100 * reclaim >= MergeRatio * SizeOf(flen, FileIds)
  /\ merging' = t
  /\ merges' = merges + 1
  /\ mergeDir' = TRUE
  /\ EmptyMergeDir
  /\ fin' = NoFin
  /\ UNCHANGED <<diskVars, fileVars, indexVars, lockVars, threadVars, quota, batchVars,
                 mergeFiles, scan, late>>

(* ratate_merge_files: older_files first,                                  *)
MergeLockOlder(t) ==
  /\ Goto(t, "merge.older", "merge.active")
  /\ olderW = NoThread
  /\ olderW' = t
  /\ UNCHANGED <<diskVars, fileVars, indexVars, activeW, activeR, threadVars, quota,
                 batchVars, mergeVars>>

(* The keys of records that are in the log and on their way to the index.  *)
AppendedKeys ==
  {rec[t].key : t \in {u \in Threads : pc[u] \in {"put.index", "put.insert", "del.index"}}}
    \cup {k \in Keys : \E t \in Threads : batchPos[t][k] # NoPos}

(* Faulty: the file that was active is forgotten.                          *)
FilesToMergeShort == IF older = {} THEN {activeId} ELSE older

(* All the files there are before the new active file.                     *)
FilesToMerge == older \cup {activeId}

(* then active_file, while older_files is held: the active file is synced, *)
(* the next id is opened and replaces it, and the file that was active is  *)
(* opened anew and becomes an older file.  The sync may fail ("rotate"),   *)
(* or the opening of the next file ("create"), before anything has         *)
(* changed; if the file that was active cannot be opened again ("reopen"), *)
(* it is in neither place.  The files to merge, the hint file and merge_db *)
(* are opened when all this is done ("open").                              *)
RotateOutcomes == {"ok"} \cup (Failures \cap {"rotate", "create", "reopen", "open"})

(* What the results about merge take for granted: the file that was active *)
(* can be opened again.                                                    *)
OldFileReopens == "reopen" \notin Failures

MergeRotate(t, out) ==
  /\ Goto(t, "merge.active", IF out = "ok" THEN "merge.scan" ELSE "idle")
  /\ activeW = NoThread /\ activeR = {}
  /\ activeId < MaxFileId
  /\ olderW' = NoThread
  /\ durable' = IF out = "rotate" THEN durable ELSE SyncFiles({activeId}, flen)
  /\ IF out \in {"rotate", "create"}
     THEN UNCHANGED <<activeId, writeOff, older>>
     ELSE /\ activeId' = activeId + 1
          /\ writeOff' = 0
          /\ older' = IF out = "reopen" THEN older ELSE FilesToMerge
  /\ IF out = "ok"
     THEN /\ mergeFiles' = FilesToMerge
          /\ scan' = [fid |-> Min(FilesToMerge), off |-> 0]
          /\ late' = AppendedKeys
          /\ UNCHANGED merging
     ELSE EndMerge /\ UNCHANGED <<mergeFiles, late>>
  /\ UNCHANGED <<disk, flen, bytesWrite, indexVars, activeW, activeR, threadVars, quota,
                 batchVars, merges, mergeDir, mergeDirVars, fin>>

-----------------------------------------------------------------------------
(* append_log_record of merge_db, which has the same data_file_size and    *)
(* otherwise the default options, followed by the record in the hint file. *)
(* Faulty: merge_db uses a smaller data_file_size.                         *)
MergeRotatesEarly(size) == mergeOff > 0

MergeRotates(size) == mergeOff + size > DataFileSize

MergeAppend(e) ==
  LET r == Rec(e.key, NON_TRANSACTION_SEQ_NO, e.val, e.type)
      size == EncodedLength(r)
      fid == IF MergeRotates(size) THEN mergeActive + 1 ELSE mergeActive
      off == IF MergeRotates(size) THEN 0 ELSE mergeOff
  IN
  /\ fid <= MaxFileId
  /\ mergeDisk' = mergeDisk \cup {Entry(fid, off, r)}
  /\ mergeLen' = [mergeLen EXCEPT ![fid] = off + size]
  /\ mergeActive' = fid
  /\ mergeOff' = off + size
  /\ hint' = Append(hint, [key |-> e.key, pos |-> Pos(fid, off, size)])

(* A record is valid when the index holds its file and offset.             *)
IsLive(e) ==
  LET k == ParseLogRecordKey(e).key
  IN  k \in Keys /\ index[k].fid = e.fid /\ index[k].off = e.off

(* Faulty: a file is skipped.                                              *)
LaterFilesSkip(f) == {g \in mergeFiles : g > f + 1}

LaterFiles(f) == {g \in mergeFiles : g > f}

(* One turn of the loop over the records.  A file that is read to its end  *)
(* is followed by the next one; a record that cannot be read or whose key  *)
(* cannot be parsed ends the merge, and so does a failure of merge_db.     *)
ScanOutcomes == {"ok"} \cup (Failures \cap {"read", "rotate", "create", "write"})

MergeScan(t, out) ==
  LET read == ReadLogRecord(disk, flen, scan.fid, scan.off)
      later == LaterFiles(scan.fid)
      live == read.status = "ok" /\ ParseLogRecordKey(read.entry).ok /\ IsLive(read.entry)
  IN
  /\ pc[t] = "merge.scan"
  /\ out \notin {"ok", "read"} => live
  /\ out \in {"rotate", "create"} => MergeRotates(read.entry.size)
  /\ \/ /\ read.status = "eof" /\ out = "ok"
        /\ scan' = IF later = {} THEN NoScan ELSE [fid |-> Min(later), off |-> 0]
        /\ pc' = [pc EXCEPT ![t] = IF later = {} THEN "merge.sync" ELSE "merge.scan"]
        /\ UNCHANGED <<merging, mergeDirVars>>
     \/ /\ \/ read.status = "corrupt"
           \/ read.status = "ok" /\ ~ParseLogRecordKey(read.entry).ok
           \/ out # "ok"
        /\ pc' = [pc EXCEPT ![t] = "idle"]
        /\ EndMerge
        /\ UNCHANGED mergeDirVars
     \/ /\ read.status = "ok" /\ ParseLogRecordKey(read.entry).ok /\ out = "ok"
        /\ IF live THEN MergeAppend(read.entry) ELSE UNCHANGED mergeDirVars
        /\ scan' = [scan EXCEPT !.off = @ + read.entry.size]
        /\ UNCHANGED <<pc, merging>>
  /\ UNCHANGED <<diskVars, fileVars, indexVars, lockVars, threadVars, quota, batchVars,
                 merges, mergeDir, mergeFiles, fin, late>>

(* merge_db and the hint file are synced and closed,                       *)
MergeSync(t, out) ==
  /\ Goto(t, "merge.sync", IF out = "ok" THEN "merge.create" ELSE "idle")
  /\ IF out = "ok" THEN UNCHANGED <<merging, scan>> ELSE EndMerge
  /\ UNCHANGED <<diskVars, fileVars, indexVars, lockVars, threadVars, quota, batchVars,
                 merges, mergeDir, mergeFiles, mergeDirVars, fin, late>>

(* the merge-finished file is created,                                     *)
MergeCreateFin(t, out) ==
  /\ Goto(t, "merge.create", IF out = "ok" THEN "merge.fin" ELSE "idle")
  /\ IF out = "ok" THEN fin' = EmptyFin /\ UNCHANGED <<merging, scan>>
                   ELSE EndMerge /\ UNCHANGED fin
  /\ UNCHANGED <<diskVars, fileVars, indexVars, lockVars, threadVars, quota, batchVars,
                 merges, mergeDir, mergeFiles, mergeDirVars, late>>

(* non_merge_file_id: the first id that is not merged.                     *)
NonMergeFileId == Max(mergeFiles) + 1

(* and its record is written and synced.                                   *)
MergeWriteFin(t, out) ==
  /\ Goto(t, "merge.fin", "idle")
  /\ fin' = IF out = "write" THEN fin ELSE NonMergeFileId
  /\ EndMerge
  /\ UNCHANGED <<diskVars, fileVars, indexVars, lockVars, threadVars, quota, batchVars,
                 merges, mergeDir, mergeFiles, mergeDirVars, late>>

MergeStep(t) ==
  \/ MergeLockOlder(t)
  \/ \E out \in RotateOutcomes : MergeRotate(t, out)
  \/ \E out \in ScanOutcomes : MergeScan(t, out)
  \/ \E out \in Outcomes \cap {"ok", "sync"} : MergeSync(t, out)
  \/ \E out \in Outcomes \cap {"ok", "create"} : MergeCreateFin(t, out)
  \/ \E out \in Outcomes \cap {"ok", "write", "sync"} : MergeWriteFin(t, out)

MergeNext ==
  \/ BatchNext /\ UNCHANGED mergeVars
  \/ \E t \in Threads : MergeStart(t) \/ MergeStep(t)

MergeSpec ==
  /\ EngineInit /\ BatchInit /\ MergeInit
  /\ [][MergeNext]_<<engineVars, batchVars, mergeVars>>

-----------------------------------------------------------------------------
MergePCs == {"merge.older", "merge.active", "merge.scan", "merge.sync",
             "merge.create", "merge.fin"}

(* The shape of the merge state; merging_lock is held by exactly the       *)
(* thread that is inside merge.                                            *)
MergeTypeOK ==
  /\ pc \in [Threads -> EnginePCs \cup BatchPCs \cup MergePCs]
  /\ merging \in Threads \cup {NoThread}
  /\ \A t \in Threads : pc[t] \in MergePCs <=> merging = t
  /\ mergeDir \in BOOLEAN
  /\ mergeFiles \subseteq FileIds
  /\ scan \in [fid : FileIds, off : Nat]
  /\ mergeDisk \subseteq Entries
  /\ mergeLen \in [FileIds -> Nat]
  /\ mergeActive \in FileIds /\ mergeOff \in Nat
  /\ hint \in Seq([key : Keys, pos : Positions])
  /\ fin \in {NoFin, EmptyFin} \cup FileIds
  /\ late \subseteq Keys

(* The copy of key k that the hint file leads to holds value v.            *)
CopyHolds(k, v) ==
  \E i \in DOMAIN hint :
    /\ hint[i].key = k
    /\ \A j \in DOMAIN hint : hint[j].key = k => j <= i
    /\ \E e \in mergeDisk : PosOf(e) = hint[i].pos /\ e.key = k /\ e.val = v

(* A file that the copy of a finished merge replaces.                      *)
Replaced(p) == fin >= 0 /\ p.fid \in 0..fin - 1

(* A finished merge loses nothing: a key whose index entry is in one of    *)
(* the files that the copy will replace has its value in the copy, found   *)
(* through the hint file, whatever was put or committed during the scan.   *)
(* Keys with a write between the log and the index when the files were     *)
(* chosen are left out: the scan may pass their record before the index    *)
(* points to it.                                                           *)
MergeKeepsSettledKeys ==
  \A k \in Keys \ late : Replaced(index[k]) => CopyHolds(k, ValueAt(index[k]))

(* Installing the copy is safe: it never has more files than it replaces,  *)
(* so it overwrites no other file, and it replaces no file that is still   *)
(* written to.                                                             *)
InstallIsSafe ==
  fin >= 0 => fin <= activeId /\ \A e \in mergeDisk : e.fid < fin

(* The threads that wait for a lock and the threads they wait for do not   *)
(* form a cycle: a merge that holds older_files and waits for active_file  *)
(* against a writer or a reader that holds active_file and needs           *)
(* older_files.                                                            *)
NeedsOlder(u) ==
  \/ pc[u] = "get.read"
  \/ pc[u] \in {"put.write", "del.write"} /\ Rotates(EncodedLength(rec[u]))
  \/ pc[u] = "batch.write" /\ Rotates(EncodedLength(BatchRecord(u)))

NoLockCycle == \A t, u \in Threads : ~(pc[t] = "merge.active" /\ NeedsOlder(u))

(***************************************************************************)
(* What the steps of a merge, and of the others during it, preserve and    *)
(* the properties above rest on.                                           *)
(***************************************************************************)
(* append_log_record leaves no record across another or across the size of *)
(* a file, except one that is too long for any file, which never comes     *)
(* into the first; what a put or a commit writes has a sequence number.    *)
LogLaidOut ==
  /\ \A d, e \in disk : d.fid = e.fid /\ d.off < e.off => EndOf(d) <= e.off
  /\ \A e \in disk :
       /\ e.size = EncodedLength(e)
       /\ EndOf(e) <= DataFileSize \/ (e.off = 0 /\ e.fid > 0)
       /\ e.type = "Normal" => e.seq # RawSeq

(* The files were chosen and the copy is theirs, finished or not.          *)
CopyPCs == {"merge.scan", "merge.sync", "merge.create", "merge.fin"}
MergeAt(pcs) == \E t \in Threads : pc[t] \in pcs
Chosen == fin >= 0 \/ MergeAt(CopyPCs)

(* All the files up to the last that was chosen are merged, and nothing is *)
(* appended to them any more.                                              *)
FilesChosen ==
  /\ \A f \in mergeFiles : f < activeId
  /\ Chosen => \E g \in mergeFiles :
       /\ \A f \in mergeFiles : f <= g
       /\ \A f \in older \cup {activeId} : f <= g => f \in mergeFiles
  /\ fin >= 0 => fin = NonMergeFileId /\ merging = NoThread
  /\ MergeAt({"merge.scan"}) => scan.fid \in mergeFiles

(* What a put or a commit still has to enter into the index is in a file   *)
(* that is not merged, unless its key is late.                             *)
OthersAreLate ==
  \A t \in Threads :
    /\ pc[t] \in {"put.index", "put.insert"} /\ rec[t].key \notin late => pos[t].fid \notin mergeFiles
    /\ \A k \in Keys \ late : batchPos[t][k].fid \notin mergeFiles

(* The scan is past a record.                                              *)
Passed(e) ==
  MergeAt({"merge.scan"}) => e.fid < scan.fid \/ (e.fid = scan.fid /\ e.off < scan.off)

(* The copy holds what the index needs of the records the scan has passed. *)
CopySound ==
  Chosen => \A k \in Keys \ late, e \in disk :
    index[k] = PosOf(e) /\ e.fid \in mergeFiles /\ Passed(e) => CopyHolds(k, e.val)

(* The copy never gets ahead of the scan: each record it takes is at most  *)
(* as far in its files as it was in the ones it comes from.                *)
CopyBehindScan ==
  /\ MergeAt({"merge.older", "merge.active"}) => mergeActive = 0 /\ mergeOff = 0
  /\ mergeActive > 0 => mergeOff > 0
  /\ \A e \in mergeDisk : e.fid <= mergeActive
  /\ Chosen => \E f \in mergeFiles : mergeActive <= f
  /\ MergeAt({"merge.scan"}) =>
       mergeActive < scan.fid \/ (mergeActive = scan.fid /\ mergeOff <= scan.off)

MergeInv ==
  /\ BatchCore
  /\ MergeTypeOK
  /\ LogLaidOut
  /\ FilesChosen
  /\ OthersAreLate
  /\ CopySound
  /\ CopyBehindScan
=============================================================================
