------------------------------ MODULE Restart -------------------------------
(***************************************************************************)
(* Closing, crashing and opening an engine (Engine::open and close in      *)
(* bitcask-rs/src/db.rs, load_merge_files and load_index_from_hint_file in *)
(* merge.rs) around the running engine of modules Engine, WriteBatch and   *)
(* Merge.                                                                  *)
(*                                                                         *)
(* A process that dies leaves the files as they are.  A power failure also *)
(* takes any part of what was not synced, in the middle of a record if it  *)
(* comes to that.  Opening is sequential, but installing a finished merge  *)
(* deletes and renames file by file and the process may die in between.    *)
(***************************************************************************)
EXTENDS Merge, SequencesExt

CONSTANTS
  MmapAtStartup,  \* options.mmap_at_startup
  MaxHeader,      \* max_log_record_header_size, what a read of a header asks for
  IndexTypes,     \* options.index_type, chosen once: a subset of AllIndexTypes
  CrashPoints,    \* where the process may die: a subset of AllCrashPoints
  PowerFailures,  \* the index types under which the power may fail
  TornByte,       \* may a power failure leave a single byte of a record
  MaxOpens        \* bound: how often the engine is reopened

(* While the engine runs, except between the creation of the merge-finished*)
(* file and the writing of its record; right there; while the merged files *)
(* are deleted; while the copy is moved in; while a commit has updated a   *)
(* B+ tree for some of its records.                                        *)
AllCrashPoints == {"run", "fin", "delete", "rename", "tree"}

(* A SkipList is loaded like a BTree.                                      *)
AllIndexTypes == {"BTree", "BPlusTree"}

ASSUME RestartAssumption ==
  /\ MmapAtStartup \in BOOLEAN
  /\ MaxHeader \in Nat
  /\ CrashPoints \subseteq AllCrashPoints
  /\ IndexTypes \subseteq AllIndexTypes /\ PowerFailures \subseteq AllIndexTypes
  /\ TornByte \in BOOLEAN
  /\ MaxOpens \in Nat

VARIABLES
  phase,      \* "open", "down", the steps of open, or "error" when open failed
  files,      \* the ids of the data files in the directory, while not open
  dataHint,   \* the hint file of the data directory
  dataFin,    \* the merge-finished file of the data directory
  hintMoved,  \* is the hint file of the merge directory already moved
  opens,      \* how often the engine has been reopened
  indexType,  \* options.index_type
  seqFile,    \* the first record of the seq-no file, or NoSeqFile
  canBatch,   \* does new_write_batch hand out batches
  stable,     \* history: what the engine held when last no write was going on
  allowed,    \* history: what it may hold after a power failure
  expect      \* history: what it has to hold after the next open, one of these

treeVars == <<indexType, seqFile, canBatch>>
dirVars == <<dataHint, dataFin, hintMoved>>
historyVars == <<stable, allowed, expect>>
restartVars == <<phase, files, dirVars, opens, treeVars, historyVars>>

allVars == <<engineVars, batchVars, mergeVars, restartVars>>

NoSeqFile == 0

NoContents == [k \in Keys |-> "KeyNotFound"]

(* A directory that is there when the engine is first opened, empty or not,*)
(* is not taken for a new one: the lock file is in it by then.             *)
RestartInit ==
  /\ phase = "open"
  /\ files = {}
  /\ dataHint = <<>>
  /\ dataFin = NoFin
  /\ hintMoved = FALSE
  /\ opens = 0
  /\ indexType \in IndexTypes
  /\ seqFile = NoSeqFile
  /\ canBatch \in (IF indexType = "BPlusTree" THEN BOOLEAN ELSE {TRUE})
  /\ stable = NoContents
  /\ allowed = {NoContents}
  /\ expect = {}

-----------------------------------------------------------------------------
(* History.  A call that writes is at work; what the keys hold if it takes *)
(* effect, with all its records.                                           *)
Writing(t) == pc[t] \in WritePCs \cup BatchPCs

AfterCall(t) ==
  [k \in Keys |->
     IF pc[t] \in WritePCs /\ rec[t].key = k THEN Written(rec[t])
     ELSE IF pc[t] \in BatchPCs /\ pending[t][k] # NoRec THEN Written(pending[t][k])
     ELSE stable[k]]

Visible == {stable} \cup {AfterCall(t) : t \in Threads}

(* A commit with sync_writes, or a put or delete with sync_writes, has     *)
(* returned.                                                               *)
SyncedCallReturns ==
  \E t \in Threads :
    /\ Writing(t) /\ pc'[t] = "idle"
    /\ IF pc[t] \in BatchPCs THEN BatchSyncWrites ELSE SyncWrites

(* The files that are not synced to their end.                             *)
Unsynced == {f \in FileIds : durable[f] < flen[f]}

(* A power failure may take back every call since all was last synced, but *)
(* none that has returned after a sync of its own, nor what came before.   *)
RecordHistory ==
  /\ stable' = IF \E t \in Threads : Writing(t)' THEN stable ELSE Contents'
  /\ allowed' = Visible' \cup
                  (IF Unsynced' = {} \/ SyncedCallReturns THEN {} ELSE allowed)
  /\ UNCHANGED expect

(* A step of the running engine.  With a B+ tree new_write_batch refuses   *)
(* if the open found no seq-no file in a directory that is not new.        *)
Run ==
  /\ phase = "open"
  /\ MergeNext
  /\ ~canBatch => pending' = pending
  /\ UNCHANGED <<phase, files, dirVars, opens, treeVars>>
  /\ RecordHistory

-----------------------------------------------------------------------------
(* What the process forgets.  A B+ tree is a file that stays.              *)
Forget ==
  /\ activeId' = 0 /\ writeOff' = 0 /\ older' = {} /\ bytesWrite' = 0
  /\ index' = IF indexType = "BPlusTree" THEN index ELSE [k \in Keys |-> NoPos]
  /\ reclaim' = 0
  /\ activeW' = NoThread /\ activeR' = {} /\ olderW' = NoThread
  /\ pc' = [t \in Threads |-> "idle"]
  /\ rec' = [t \in Threads |-> NoRec]
  /\ pos' = [t \in Threads |-> NoPos] /\ old' = [t \in Threads |-> NoPos]
  /\ got' = [t \in Threads |-> "none"]
  /\ pending' = [t \in Threads |-> NoPending]
  /\ batchLock' = NoThread /\ seqNo' = 1
  /\ batchSeq' = [t \in Threads |-> 0]
  /\ order' = [t \in Threads |-> <<>>] /\ item' = [t \in Threads |-> 0]
  /\ batchPos' = [t \in Threads |-> NoPositions]
  /\ EndMerge /\ mergeFiles' = {} /\ late' = {}

GoDown ==
  /\ phase = "open"
  /\ opens < MaxOpens
  /\ phase' = "down"
  /\ files' = older \cup {activeId}
  /\ Forget
  /\ UNCHANGED <<quota, merges, mergeDir, mergeDirVars, fin, dirVars, opens, indexType,
                 canBatch, stable>>

(* Engine::close, also from drop: no call is in progress.  The sequence    *)
(* number is appended to the seq-no file, of which the first record is     *)
(* read.                                                                   *)
Close ==
  /\ \A t \in Threads : pc[t] = "idle"
  /\ GoDown
  /\ durable' = SyncFiles({activeId}, flen)
  /\ seqFile' = IF seqFile = NoSeqFile THEN seqNo ELSE seqFile
  /\ UNCHANGED <<disk, flen, allowed>>
  /\ expect' = {Contents}

(* The process dies.                                                       *)
CrashPoint ==
  CASE \E t \in Threads : pc[t] = "merge.fin" -> "fin"
    [] indexType = "BPlusTree" /\ \E t \in Threads : pc[t] = "batch.index" /\ item[t] > 1 -> "tree"
    [] OTHER -> "run"

Crash ==
  /\ CrashPoint \in CrashPoints
  /\ GoDown
  /\ UNCHANGED <<diskVars, seqFile, allowed>>
  /\ expect' = Visible

(* The power fails.  A file keeps what was synced and some of the rest.    *)
Cuts ==
  {cut \in [Unsynced -> 0..SizeOf(flen, FileIds)] :
     \A f \in Unsynced :
       /\ cut[f] \in durable[f]..flen[f]
       /\ ~TornByte => \A e \in disk : e.fid = f => cut[f] # e.off + 1}

PowerFail ==
  /\ indexType \in PowerFailures
  /\ GoDown
  /\ \E cut \in Cuts :
       /\ flen' = [f \in FileIds |-> IF f \in Unsynced THEN cut[f] ELSE flen[f]]
       /\ disk' = {e \in disk : e.fid \in Unsynced => EndOf(e) <= cut[e.fid]}
       /\ durable' = flen'
  /\ expect' = allowed
  /\ UNCHANGED <<seqFile, allowed>>

-----------------------------------------------------------------------------
(***************************************************************************)
(* load_merge_files                                                        *)
(***************************************************************************)
RemoveMergeDir ==
  /\ mergeDir' = FALSE
  /\ EmptyMergeDir
  /\ fin' = NoFin
  /\ hintMoved' = FALSE

runVars == <<fileVars, indexVars, lockVars, threadVars, pc, quota, batchVars,
             merging, merges, mergeFiles, scan, late, treeVars>>

(* A merge directory without a merge-finished file is removed, one whose   *)
(* merge-finished file cannot be read is an error.                         *)
OpenStart ==
  /\ phase = "down"
  /\ phase' = CASE ~mergeDir \/ fin = NoFin -> "load"
                [] mergeDir /\ fin = EmptyFin -> "error"
                [] OTHER -> "delete"
  /\ IF mergeDir /\ fin = NoFin
     THEN RemoveMergeDir
     ELSE UNCHANGED <<mergeDir, mergeDirVars, fin, hintMoved>>
  /\ UNCHANGED <<runVars, diskVars, files, dataHint, dataFin, opens, historyVars>>

(* The files that the copy replaces.                                       *)
MergedFiles == files \cap 0..fin - 1

RemoveFile(f) ==
  /\ disk' = {e \in disk : e.fid # f}
  /\ flen' = [flen EXCEPT ![f] = 0]
  /\ durable' = [durable EXCEPT ![f] = 0]
  /\ files' = files \ {f}

InstallDelete ==
  /\ phase = "delete"
  /\ IF MergedFiles # {}
     THEN RemoveFile(Min(MergedFiles)) /\ UNCHANGED phase
     ELSE phase' = "rename" /\ UNCHANGED <<diskVars, files>>
  /\ UNCHANGED <<runVars, mergeDir, mergeDirVars, fin, dirVars, opens, historyVars>>

(* The names in the merge directory are renamed in the order in which the  *)
(* directory lists them: data files that are not empty,                    *)
InstallMoveFile(f) ==
  /\ phase = "rename"
  /\ mergeLen[f] > 0
  /\ disk' = {e \in disk : e.fid # f} \cup {e \in mergeDisk : e.fid = f}
  /\ flen' = [flen EXCEPT ![f] = mergeLen[f]]
  /\ durable' = [durable EXCEPT ![f] = mergeLen[f]]
  /\ files' = files \cup {f}
  /\ mergeDisk' = {e \in mergeDisk : e.fid # f}
  /\ mergeLen' = [mergeLen EXCEPT ![f] = 0]
  /\ UNCHANGED <<runVars, phase, mergeDir, mergeActive, mergeOff, hint, fin, dirVars,
                 opens, historyVars>>

(* the hint file,                                                          *)
InstallMoveHint ==
  /\ phase = "rename"
  /\ ~hintMoved
  /\ hintMoved' = TRUE
  /\ dataHint' = hint
  /\ UNCHANGED <<runVars, diskVars, phase, files, mergeDir, mergeDirVars, fin, dataFin,
                 opens, historyVars>>

(* and the merge-finished file.                                            *)
InstallMoveFin ==
  /\ phase = "rename"
  /\ fin # NoFin
  /\ dataFin' = fin
  /\ fin' = NoFin
  /\ UNCHANGED <<runVars, diskVars, phase, files, mergeDir, mergeDirVars, dataHint, hintMoved,
                 opens, historyVars>>

InstallDone ==
  /\ phase = "rename"
  /\ hintMoved /\ fin = NoFin
  /\ \A f \in FileIds : mergeLen[f] = 0
  /\ phase' = "load"
  /\ RemoveMergeDir
  /\ UNCHANGED <<runVars, diskVars, files, dataHint, dataFin, opens, historyVars>>

(* The process dies during the installation; the next open starts over.    *)
InstallCrash ==
  /\ phase \in CrashPoints \cap {"delete", "rename"}
  /\ phase' = "down"
  /\ UNCHANGED <<runVars, diskVars, files, mergeDir, mergeDirVars, fin, dirVars, opens,
                 historyVars>>

-----------------------------------------------------------------------------
(***************************************************************************)
(* load_data_files, load_index_from_hint_file, load_index_from_data_files  *)
(***************************************************************************)
(* Only the last file is not mapped.  A read of a header that reaches past *)
(* the end of a map is taken for the end of the file.                      *)
Mapped(f) == MmapAtStartup /\ f # Max(files)

InFile(f) == {e \in disk : e.fid = f}

(* The records that the loop over a file reads: those with no gap before   *)
(* them.                                                                   *)
ReadFrom(f) ==
  {e \in InFile(f) :
     /\ EndOf(e) = MapThenSumSet(LAMBDA d : d.size, {d \in InFile(f) : d.off <= e.off})
     /\ Mapped(f) => e.off + MaxHeader <= flen[f]}

(* Where the loop ends, and whether it ends at the end of the file.        *)
ScanEnd(f) == MapThenSumSet(LAMBDA e : e.size, ReadFrom(f))

ScanEndsWell(f) ==
  IF Mapped(f)
  THEN \/ ScanEnd(f) + MaxHeader > flen[f]
       \/ \A e \in InFile(f) : e.off < ScanEnd(f)
  ELSE ReadLogRecord(disk, flen, f, ScanEnd(f)).status = "eof"

(* Faulty: the first file that was not merged is skipped as well.          *)
FilesToLoadSkipsOne == {f \in files : dataFin >= 0 => f > dataFin}

(* Files that were merged are in the hint file and are not read.           *)
FilesToLoad == {f \in files : dataFin >= 0 => f >= dataFin}

(* update_index                                                            *)
UpdateIndex(st, k, type, p) ==
  LET was == IF k \in Keys THEN st.index[k].size ELSE 0
      now == IF type = "Delete" THEN NoPos ELSE p
  IN  IF type = "TxnFinished" THEN st
      ELSE [st EXCEPT !.index = [j \in Keys |-> IF j = k THEN now ELSE @[j]],
                      !.reclaim = @ + was + (IF type = "Delete" THEN p.size ELSE 0)]

(* Faulty: the records of a batch are applied without its seal.            *)
ReplayUnsealed(st, e) ==
  LET key == ParseLogRecordKey(e)
  IN  [UpdateIndex(st, key.key, e.type, PosOf(e)) EXCEPT !.seq = IF key.seq > @ THEN key.seq ELSE @]

(* One record: applied at once, kept until its batch is sealed, or the     *)
(* seal that applies what was kept.                                        *)
Replay(st, e) ==
  LET key == ParseLogRecordKey(e)
      kept == [seq |-> key.seq, key |-> key.key, type |-> e.type, pos |-> PosOf(e)]
      next ==
        IF key.seq = NON_TRANSACTION_SEQ_NO
        THEN UpdateIndex(st, key.key, e.type, PosOf(e))
        ELSE IF e.type = "TxnFinished"
        THEN [FoldLeft(LAMBDA s, r : UpdateIndex(s, r.key, r.type, r.pos), st,
                       SelectSeq(st.txns, LAMBDA r : r.seq = key.seq))
              EXCEPT !.txns = SelectSeq(@, LAMBDA r : r.seq # key.seq)]
        ELSE [st EXCEPT !.txns = Append(@, kept)]
  IN  [next EXCEPT !.seq = IF key.seq > @ THEN key.seq ELSE @]

(* The index after the hint file.                                          *)
HintIndex ==
  FoldLeft(LAMBDA ix, h : [ix EXCEPT ![h.key] = h.pos], [k \in Keys |-> NoPos], dataHint)

Loaded ==
  LET entries == UNION {ReadFrom(f) : f \in FilesToLoad}
  IN  FoldLeft(Replay, [index |-> HintIndex, reclaim |-> 0, txns |-> <<>>, seq |-> 0],
               SetToSortSeq(entries, Precedes))

LoadSucceeds ==
  \A f \in FilesToLoad :
    /\ ScanEndsWell(f)
    /\ \A e \in ReadFrom(f) : ParseLogRecordKey(e).ok

(* The files are popped from the end into older_files until one is left:   *)
(* the active file is the first one.                                       *)
ActiveAfterOpen == IF files = {} THEN 0 ELSE Min(files)

(* Its write offset is where the loop over the last file ended, if that    *)
(* file was read.                                                          *)
WriteOffAfterOpen ==
  IF files # {} /\ Max(files) \in FilesToLoad THEN ScanEnd(Max(files)) ELSE 0

(* Faulty: the largest number that was seen is used again.                 *)
SeqNoAfterOpenReused(seen) == IF seen > 0 THEN seen ELSE 1

(* Faulty: without a number in the log, numbers start at 0.                *)
SeqNoAfterOpenZero(seen) == IF seen > 0 THEN seen + 1 ELSE 0

SeqNoAfterOpen(seen) == IF seen > 0 THEN seen + 1 ELSE 1

Reopen(off, ix, bytes, seq) ==
  /\ phase = "load"
  /\ phase' = "open"
  /\ opens' = opens + 1
  /\ files' = {}
  /\ activeId' = ActiveAfterOpen
  /\ older' = files \ {ActiveAfterOpen}
  /\ writeOff' = off
  /\ index' = ix
  /\ reclaim' = bytes
  /\ seqNo' = seq
  /\ UNCHANGED <<diskVars, bytesWrite, lockVars, threadVars, pc, quota, pending, batchLock,
                 commitVars, mergeVars, dirVars, indexType>>
  /\ RecordHistory

Load ==
  /\ indexType = "BTree"
  /\ LoadSucceeds
  /\ Reopen(WriteOffAfterOpen, Loaded.index, Loaded.reclaim, SeqNoAfterOpen(Loaded.seq))
  /\ UNCHANGED <<seqFile, canBatch>>

(* Faulty: the write offset is left as the open found it.                  *)
TreeWriteOffUnset == 0

(* With a B+ tree nothing is read: the active file goes on where it ends,  *)
TreeWriteOff == flen[ActiveAfterOpen]

(* and load_seq_no takes the number from the seq-no file and removes it.   *)
LoadTree ==
  /\ indexType = "BPlusTree"
  /\ Reopen(TreeWriteOff, index, 0, IF seqFile = NoSeqFile THEN 1 ELSE seqFile)
  /\ canBatch' = (seqFile # NoSeqFile)
  /\ seqFile' = NoSeqFile

LoadFails ==
  /\ phase = "load" /\ indexType = "BTree"
  /\ ~LoadSucceeds \/ "read" \in Failures
  /\ phase' = "error"
  /\ UNCHANGED <<runVars, diskVars, files, mergeDir, mergeDirVars, fin, dirVars, opens,
                 historyVars>>

(* Engine::open has returned an error; it may be called again.             *)
Retry ==
  /\ phase = "error"
  /\ phase' = "down"
  /\ UNCHANGED <<runVars, diskVars, files, mergeDir, mergeDirVars, fin, dirVars, opens,
                 historyVars>>

OpenNext ==
  \/ OpenStart
  \/ InstallDelete
  \/ \E f \in FileIds : InstallMoveFile(f)
  \/ InstallMoveHint
  \/ InstallMoveFin
  \/ InstallDone
  \/ InstallCrash
  \/ Load
  \/ LoadTree
  \/ LoadFails
  \/ Retry

RestartNext == Run \/ Close \/ Crash \/ PowerFail \/ OpenNext

RestartSpec ==
  /\ EngineInit /\ BatchInit /\ MergeInit /\ RestartInit
  /\ [][RestartNext]_allVars

-----------------------------------------------------------------------------
(* The shape of the state around a restart.                                *)
RestartTypeOK ==
  /\ phase \in {"open", "down", "delete", "rename", "load", "error"}
  /\ files \subseteq FileIds
  /\ dataFin \in {NoFin} \cup FileIds
  /\ activeId \in FileIds /\ older \subseteq FileIds /\ writeOff \in Nat
  /\ index \in [Keys -> MaybePositions] /\ reclaim \in Nat
  /\ seqNo \in Nat \ {0} /\ seqFile \in Nat

(* A restart keeps what the engine held and takes a call that was          *)
(* interrupted as a whole or not at all: after a close the keys have the   *)
(* values they had, after a crash those or, for one client, those after    *)
(* its put, delete or commit.  After a power failure they have the values  *)
(* they had at some moment since everything was last synced, never a part  *)
(* of a commit.                                                            *)
RecoveryAtomic == [][phase = "load" /\ phase' = "open" => Contents' \in expect]_allVars

(* A commit is atomic: with a single commit and nothing else written, a    *)
(* restart finds all of it or nothing.                                     *)
CommitAllOrNothing ==
  [][phase = "load" /\ phase' = "open" => Contents' \in expect \cup {NoContents}]_allVars

(* A directory that the engine wrote can be opened again.                  *)
ReopenSucceeds == phase # "error"

(* A commit never draws the number of a batch of which a part is in the    *)
(* log: its seal would bring that part back.  A B+ tree is not built from  *)
(* the log.                                                                *)
SeqNoFresh ==
  \A t \in Threads, e \in disk :
    indexType = "BTree" /\ pc[t] = "batch.lock" /\ item[t] = 1 => e.seq # batchSeq[t]

(* After a restart and every write that follows it the index points to     *)
(* puts of its keys: the write offset that open has found, from the replay *)
(* or from the file, is where the next record really lands.                *)
ReopenedIndexSound == phase = "open" => IndexSound
=============================================================================
