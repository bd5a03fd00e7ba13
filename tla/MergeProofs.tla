---------------------------- MODULE MergeProofs -----------------------------
(***************************************************************************)
(* Proofs about merge next to the running engine and its batches, for      *)
(* every set of threads, keys and values, every option and every I/O       *)
(* failure.                                                                *)
(***************************************************************************)
EXTENDS Merge, WriteBatchProofs, WellFoundedInduction

(* A set of file ids that is not empty has a least element.                *)
LEMMA LeastExists ==
  ASSUME NEW T \in SUBSET Nat, T # {}
  PROVE  \E x \in T : \A y \in T : x <= y
<1> DEFINE R == OpToRel(<, Nat)
<1>1. IsWellFoundedOn(R, Nat)
  BY NatLessThanWellFounded
<1>2. \A x, y \in Nat : y < x => <<y, x>> \in R
  BY DEF OpToRel
<1> HIDE DEF R
<1>3. PICK x \in T : \A y \in T : <<y, x>> \notin R
  BY <1>1, WFMin
<1>4. x \in Nat
  OBVIOUS
<1>5. ASSUME NEW y \in T PROVE x <= y
  <2>1. y \in Nat
    OBVIOUS
  <2>2. ~(y < x)
    BY <1>2, <1>3, <1>4, <2>1, Zenon
  <2> QED
    BY <1>4, <2>1, <2>2
<1> QED
  BY <1>5

(* The file the scan goes on with is the first of those that are left.     *)
LEMMA MinIsLeast ==
  ASSUME NEW T \in SUBSET FileIds, T # {}
  PROVE  Min(T) \in T /\ \A y \in T : Min(T) <= y
<1>1. T \in SUBSET Nat
  BY DataFileAssumption DEF FileIds
<1>2. \E x \in T : \A y \in T : x <= y
  BY <1>1, LeastExists
<1> QED
  BY <1>2 DEF Min

(* non_merge_file_id follows the last file that is merged.                 *)
LEMMA MaxIsLast ==
  ASSUME NEW T \in SUBSET FileIds, NEW g \in T, \A f \in T : f <= g
  PROVE  Max(T) = g
<1>1. T \in SUBSET Nat
  BY DataFileAssumption DEF FileIds
<1>2. Max(T) \in T /\ \A y \in T : Max(T) >= y
  BY <1>1 DEF Max
<1>3. Max(T) \in Nat /\ g \in Nat
  BY <1>1, <1>2
<1> QED
  BY <1>2, <1>3

-----------------------------------------------------------------------------
(* The program counters merge adds, and where it starts and ends.          *)
LEMMA MergePCsApart ==
  /\ MergePCs \cap EnginePCs = {} /\ MergePCs \cap BatchPCs = {}
  /\ "idle" \notin MergePCs /\ "idle" \notin BatchPCs
BY DEF MergePCs, EnginePCs, BatchPCs

(* A step of merge writes no record and updates no index, so what is known *)
(* of the engine and of the commits in progress stays as it is.            *)
LEMMA MergeStepKeepsBatches ==
  ASSUME BatchCore, NEW t \in Threads, NEW to \in {"idle"} \cup MergePCs,
         pc[t] \in {"idle"} \cup MergePCs, pc' = [pc EXCEPT ![t] = to],
         CoreTypeOK', LogWellFormed', OlderFilesDurable', PositionsStable, SyncedGrowth,
         UNCHANGED <<disk, index, threadVars, batchVars>>
  PROVE  BatchCore'
<1>1. /\ pc'[t] = to
      /\ \A u \in Threads : u # t => pc'[u] = pc[u]
  BY PCMoves DEF BatchCore, CoreInv
<1>2. \A u \in Threads : pc[u] \in BatchPCs \/ pc'[u] \in BatchPCs => u # t /\ pc'[u] = pc[u]
  BY <1>1, MergePCsApart
<1>3. CoreInv'
  <2>1. IndexSound'
    BY IndexKept DEF BatchCore, CoreInv
  <2>2. pc[t] # "get.done" /\ pc'[t] \notin EnginePCs \ {"idle"}
    BY <1>1, MergePCsApart DEF EnginePCs
  <2> QED
    BY <1>1, <2>1, <2>2, OtherStepPreserves DEF BatchCore, threadVars
<1>4. BatchShape'
  BY DEF BatchCore, BatchShape, batchVars
<1>5. CommitsExclude'
  BY <1>2 DEF BatchCore, CommitsExclude, batchVars
<1>6. PendingSound'
  BY DEF BatchCore, PendingSound, PendingKeys, batchVars
<1>7. /\ PlainGrowth
      /\ SeqNosDrawn' /\ SealsFollow' /\ BatchesSerial'
      /\ IndexedBatchesSealed'
  BY QuietBatchStep DEF BatchCore, BatchShape, batchVars
<1>8. PlainPuts'
  <2>1. pc'[t] \notin {"put.lock", "put.write", "del.lock", "del.write", "put.index", "put.insert"}
    BY <1>1, MergePCsApart DEF EnginePCs
  <2> QED
    BY <1>1, <2>1 DEF BatchCore, PlainPuts, threadVars
<1>9. ASSUME NEW u \in Threads, pc'[u] \in BatchPCs
      PROVE  CommitSound(u)'
  <2>1. pc'[u] = pc[u] /\ pc[u] \in BatchPCs
    BY <1>2, <1>9
  <2>2. CommitSound(u) /\ BatchShape /\ PendingSound
    BY <2>1 DEF BatchCore
  <2> QED
    BY <1>7, <2>1, <2>2, CommitUndisturbed DEF batchVars
<1>10. SealedBatchDurable'
  <2>1. ASSUME NEW u \in Threads, pc'[u] = "batch.index"
        PROVE  pc[u] = "batch.index" /\ batchSeq'[u] = batchSeq[u] /\ batchSeq[u] > 0
    BY <1>2, <2>1 DEF BatchCore, CommitSound, BatchPCs, batchVars, NON_TRANSACTION_SEQ_NO
  <2> QED
    BY <1>7, <2>1, DurabilityUndisturbed DEF BatchCore, CoreInv
<1> QED
  BY <1>3, <1>4, <1>5, <1>6, <1>7, <1>8, <1>9, <1>10 DEF BatchCore

(* A step of merge that leaves the data files alone.                       *)
LEMMA QuietMergeStep ==
  ASSUME BatchCore, NEW t \in Threads, NEW to \in {"idle"} \cup MergePCs,
         pc[t] \in {"idle"} \cup MergePCs, pc' = [pc EXCEPT ![t] = to],
         olderW' \in Threads \cup {NoThread},
         UNCHANGED <<diskVars, fileVars, indexVars, activeW, activeR, threadVars, quota, batchVars>>
  PROVE  BatchCore'
<1>1. pc' = [u \in Threads |-> pc'[u]]
  BY PCMoves DEF BatchCore, CoreInv
<1>2. CoreTypeOK'
  BY <1>1 DEF BatchCore, CoreInv, CoreTypeOK, diskVars, fileVars, indexVars, threadVars
<1>3. LogWellFormed' /\ OlderFilesDurable' /\ PositionsStable
  BY QuietStep DEF BatchCore, CoreInv
<1>4. SyncedGrowth
  BY DEF SyncedGrowth, diskVars
<1> QED
  BY <1>2, <1>3, <1>4, MergeStepKeepsBatches DEF diskVars, indexVars

(* ratate_merge_files syncs the active file before it becomes an older     *)
(* file, and loses no file that a reader needs.                            *)
LEMMA RotateKeepsBatches ==
  ASSUME BatchCore, OldFileReopens, NEW t \in Threads, NEW out \in RotateOutcomes,
         MergeRotate(t, out)
  PROVE  BatchCore'
<1> DEFINE to == IF out = "ok" THEN "merge.scan" ELSE "idle"
<1>1. /\ pc[t] = "merge.active" /\ pc' = [pc EXCEPT ![t] = to]
      /\ activeId < MaxFileId
      /\ olderW' = NoThread
      /\ durable' = IF out = "rotate" THEN durable ELSE SyncFiles({activeId}, flen)
      /\ UNCHANGED <<disk, flen, bytesWrite, indexVars, activeW, activeR, threadVars, quota,
                     batchVars>>
  BY DEF MergeRotate, Goto
<1>2. /\ to \in {"idle"} \cup MergePCs /\ pc[t] \in {"idle"} \cup MergePCs
  BY <1>1 DEF MergePCs
<1>3. \/ /\ out # "rotate"
         /\ activeId' = activeId + 1 /\ writeOff' = 0 /\ older' = older \cup {activeId}
      \/ activeId' = activeId /\ writeOff' = writeOff /\ older' = older
  <2>1. out # "reopen"
    BY DEF OldFileReopens, RotateOutcomes
  <2> QED
    BY <2>1 DEF MergeRotate, FilesToMerge
<1>4. /\ activeId \in FileIds /\ activeId \in Nat /\ MaxFileId \in Nat /\ FileIds \subseteq Nat
      /\ flen \in [FileIds -> Nat] /\ durable \in [FileIds -> Nat]
  BY DataFileAssumption DEF BatchCore, CoreInv, CoreTypeOK, FileIds
<1>5. activeId' \in FileIds /\ activeId' \in Nat /\ activeId' >= activeId
  BY <1>1, <1>3, <1>4 DEF FileIds
<1>6. /\ durable' \in [FileIds -> Nat]
      /\ SyncedGrowth
      /\ out # "rotate" => durable'[activeId] = flen'[activeId]
      /\ \A f \in FileIds : f # activeId => durable'[f] = durable[f]
  BY <1>1, <1>4 DEF SyncFiles, SyncedGrowth
<1>7. CoreTypeOK'
  <2>1. pc' = [u \in Threads |-> pc'[u]]
    BY <1>1, PCMoves DEF BatchCore, CoreInv
  <2>2. older' \subseteq FileIds /\ writeOff' \in Nat
    BY <1>3, <1>4 DEF BatchCore, CoreInv, CoreTypeOK
  <2> QED
    BY <1>1, <1>5, <1>6, <2>1, <2>2
    DEF BatchCore, CoreInv, CoreTypeOK, indexVars, threadVars
<1>8. LogWellFormed'
  <2>1. LogWellFormed
    BY DEF BatchCore, CoreInv
  <2>2. writeOff' = flen'[activeId']
    BY <1>1, <1>3, <1>4, <1>5, <2>1 DEF LogWellFormed
  <2>3. \A f \in FileIds : f > activeId' => flen'[f] = 0
    BY <1>1, <1>4, <1>5, <2>1 DEF LogWellFormed
  <2>4. \A f \in older' : f <= activeId'
    <3>1. \A f \in older : f \in Nat /\ f <= activeId
      BY <1>4, <2>1 DEF BatchCore, CoreInv, CoreTypeOK, LogWellFormed
    <3>2. \A f \in older' : f \in Nat /\ f <= activeId
      BY <1>3, <1>4, <3>1
    <3> QED
      BY <1>4, <1>5, <3>2
  <2>5. \A e \in disk' : /\ e.fid = activeId' \/ e.fid \in older'
                         /\ e.size > 0
                         /\ EndOf(e) <= flen'[e.fid]
    BY <1>1, <1>3, <2>1 DEF LogWellFormed
  <2>6. \A d, e \in disk' : d.fid = e.fid /\ d.off = e.off => d = e
    BY <1>1, <2>1 DEF LogWellFormed
  <2> QED
    BY <2>2, <2>3, <2>4, <2>5, <2>6 DEF LogWellFormed, EndOf
<1>9. OlderFilesDurable'
  <2>1. OlderFilesDurable /\ older \subseteq FileIds
    BY DEF BatchCore, CoreInv, CoreTypeOK
  <2> SUFFICES ASSUME NEW f \in older', f # activeId' PROVE durable'[f] = flen'[f]
    BY DEF OlderFilesDurable
  <2>2. CASE f = activeId
    BY <1>3, <1>6, <2>2
  <2>3. CASE f # activeId
    BY <1>1, <1>3, <1>6, <2>1, <2>3 DEF OlderFilesDurable
  <2> QED
    BY <2>2, <2>3
<1>10. PositionsStable
  BY <1>1, <1>3, GrowingFilesKeepPositions
<1> HIDE DEF to
<1> QED
  BY <1>1, <1>2, <1>6, <1>7, <1>8, <1>9, <1>10, MergeStepKeepsBatches DEF indexVars
-----------------------------------------------------------------------------
(* What the other threads do to the files: they only append, and never to  *)
(* a file before the active one.                                           *)
LogGrows ==
  /\ disk \subseteq disk'
  /\ \A e \in disk' \ disk : e.fid >= activeId
  /\ activeId' >= activeId
  /\ \A f \in older' \cup {activeId'} : f \in older \cup {activeId} \/ f > activeId

(* to the index: a key moves to a record that was on its way.              *)
IndexMoves ==
  \A k \in Keys :
    \/ index'[k] = index[k]
    \/ index'[k] = NoPos
    \/ \E t \in Threads :
         \/ pc[t] \in {"put.index", "put.insert"} /\ rec[t].key = k /\ index'[k] = pos[t]
         \/ index'[k] = batchPos[t][k]

(* A position in a file that was not closed before the step.               *)
Fresh(p) == p.fid \in FileIds /\ p.fid >= activeId

(* and to the records on their way: new ones are in no earlier file,       *)
InFlightMoves ==
  \A t \in Threads :
    /\ pc'[t] \in {"put.index", "put.insert"} =>
         \/ pc[t] \in {"put.index", "put.insert"} /\ rec'[t] = rec[t] /\ pos'[t] = pos[t]
         \/ Fresh(pos'[t])
    /\ \A k \in Keys :
         \/ batchPos'[t][k] = batchPos[t][k]
         \/ batchPos'[t][k] = NoPos
         \/ Fresh(batchPos'[t][k])

(* while a merge in progress stays where it is.                            *)
MergeWaits ==
  /\ \A t \in Threads : pc[t] \in MergePCs \/ pc'[t] \in MergePCs => pc'[t] = pc[t]
  /\ pc' = [t \in Threads |-> pc'[t]]

(* append_log_record puts a record behind the others of its file, and into *)
(* a file it does not fit only if that is empty and not the first.         *)
LEMMA AppendLaidOut ==
  ASSUME CoreTypeOK, LogWellFormed, LogLaidOut,
         NEW t \in Threads, NEW r \in LogRecord, NEW out \in Outcomes,
         AppendLogRecord(t, r, out), r.type = "Normal" => r.seq # RawSeq
  PROVE  LogLaidOut'
<1> DEFINE size == EncodedLength(r)
           fid == TargetFile(size)
           new == Entry(fid, flen[fid], r)
<1>1. CASE out \notin {"ok", "sync"}
  <2>1. disk' = disk
    BY <1>1 DEF AppendLogRecord
  <2> QED
    BY <2>1 DEF LogLaidOut
<1>2. CASE out \in {"ok", "sync"}
  <2>1. disk' = disk \cup {new}
    BY <1>2 DEF AppendLogRecord
  <2>2. fid \in FileIds /\ fid \in Nat /\ activeId \in Nat
    BY <1>2, DataFileAssumption DEF AppendLogRecord, TargetFile, FileIds, CoreTypeOK
  <2>3. flen[fid] = TargetOff(size) /\ flen[fid] \in Nat
    BY <2>2, DataFileAssumption DEF LogWellFormed, TargetFile, TargetOff, FileIds, CoreTypeOK
  <2>4. /\ new.fid = fid /\ new.off = flen[fid] /\ new.size = size
        /\ new.val = r.val /\ new.seq = r.seq /\ new.type = r.type
    BY DEF Entry
  <2>5. size \in Nat /\ size > 0 /\ DataFileSize \in Nat /\ writeOff \in Nat
    BY RecordNotEmpty, EngineAssumption DEF CoreTypeOK
  <2>6. EndOf(new) <= DataFileSize \/ (new.off = 0 /\ new.fid > 0)
    <3>1. CASE Rotates(size)
      <4>1. fid = activeId + 1 /\ TargetOff(size) = 0
        BY <3>1 DEF TargetFile, TargetOff
      <4> HIDE DEF new, fid, size
      <4> QED
        BY <2>2, <2>3, <2>4, <4>1
    <3>2. CASE ~Rotates(size)
      <4>1. writeOff + size <= DataFileSize /\ TargetOff(size) = writeOff
        BY <2>5, <3>2 DEF Rotates, TargetOff
      <4> HIDE DEF new, fid, size
      <4> QED
        BY <2>3, <2>4, <4>1 DEF EndOf
    <3> QED
      BY <3>1, <3>2
  <2>7. new.size = EncodedLength(new)
    BY <2>4 DEF EncodedLength
  <2>8. ASSUME NEW d \in disk, d.fid = fid
        PROVE  EndOf(d) <= new.off /\ ~(new.off <= d.off)
    <3>1. d.off \in Nat /\ d.size \in Nat
      BY DEF CoreTypeOK, Entries
    <3>2. d.size > 0 /\ d.off + d.size <= flen[fid]
      BY <2>8 DEF LogWellFormed, EndOf
    <3> HIDE DEF new, fid, size
    <3> QED
      BY <2>3, <2>4, <3>1, <3>2 DEF EndOf
  <2> HIDE DEF new, fid, size
  <2>9. new.off \in Nat
    BY <2>3, <2>4
  <2>10. ASSUME NEW d \in disk', NEW e \in disk', d.fid = e.fid, d.off < e.off
         PROVE  EndOf(d) <= e.off
    <3>1. CASE d \in disk /\ e \in disk
      BY <2>10, <3>1 DEF LogLaidOut
    <3>2. CASE d \in disk /\ e = new
      BY <2>4, <2>8, <2>10, <3>2
    <3>3. CASE d = new /\ e \in disk
      <4>1. e.off \in Nat
        BY <3>3 DEF CoreTypeOK, Entries
      <4> QED
        BY <2>4, <2>8, <2>9, <2>10, <3>3, <4>1
    <3>4. CASE d = new /\ e = new
      BY <2>9, <2>10, <3>4
    <3> QED
      BY <2>1, <3>1, <3>2, <3>3, <3>4
  <2>11. ASSUME NEW e \in disk'
         PROVE  /\ e.size = EncodedLength(e)
                /\ EndOf(e) <= DataFileSize \/ (e.off = 0 /\ e.fid > 0)
                /\ e.type = "Normal" => e.seq # RawSeq
    <3>1. CASE e \in disk
      BY <3>1 DEF LogLaidOut
    <3>2. CASE e = new
      BY <2>4, <2>6, <2>7, <3>2
    <3> QED
      BY <2>1, <3>1, <3>2
  <2> QED
    BY <2>10, <2>11 DEF LogLaidOut
<1> QED
  BY <1>1, <1>2

(* append_log_record writes to the active file or to the one after it.     *)
LEMMA AppendGrows ==
  ASSUME CoreTypeOK, LogWellFormed,
         NEW t \in Threads, NEW r \in LogRecord, NEW out \in Outcomes,
         AppendLogRecord(t, r, out)
  PROVE  LogGrows /\ (pos'[t] = NoPos \/ Fresh(pos'[t]))
<1> DEFINE size == EncodedLength(r)
           fid == TargetFile(size)
           new == Entry(fid, flen[fid], r)
<1>1. activeId \in FileIds /\ activeId \in Nat
  BY DataFileAssumption DEF CoreTypeOK, FileIds
<1>2. fid \in Nat /\ fid >= activeId /\ (fid = activeId \/ fid > activeId)
  BY <1>1 DEF TargetFile
<1>3. activeId' = activeId \/ activeId' = fid
  BY DEF AppendLogRecord
<1>4. older' \subseteq older \cup {activeId}
  BY DEF AppendLogRecord, FullFile
<1>5. disk' = disk \/ disk' = disk \cup {new}
  BY DEF AppendLogRecord
<1>6. new.fid = fid
  BY DEF Entry
<1>7. LogGrows
  <2> HIDE DEF fid, new
  <2> QED
    BY <1>1, <1>2, <1>3, <1>4, <1>5, <1>6 DEF LogGrows
<1>8. pos'[t] = IF out = "ok" THEN Pos(fid, TargetOff(size), size) ELSE NoPos
  BY DEF AppendLogRecord, CoreTypeOK
<1>9. CASE out = "ok"
  <2>1. fid \in FileIds
    BY <1>9, DataFileAssumption DEF AppendLogRecord, TargetFile, FileIds, CoreTypeOK
  <2>2. pos'[t].fid = fid
    BY <1>8, <1>9 DEF Pos
  <2> QED
    BY <1>2, <1>7, <2>1, <2>2 DEF Fresh
<1>10. CASE out # "ok"
  BY <1>7, <1>8, <1>10
<1> QED
  BY <1>9, <1>10

(* A step that leaves the files alone.                                     *)
LEMMA QuietGrowth ==
  ASSUME CoreTypeOK, UNCHANGED <<disk, activeId, older>>
  PROVE  LogGrows /\ (LogLaidOut => LogLaidOut')
<1>1. activeId \in Nat
  BY DataFileAssumption DEF CoreTypeOK, FileIds
<1> QED
  BY <1>1 DEF LogGrows, LogLaidOut
(* The steps of a put, a get, a delete and a sync.                         *)
LEMMA EngineStepsInMerge ==
  ASSUME BatchCore, LogLaidOut, NEW t \in Threads, EngineCall(t) \/ EngineStep(t),
         UNCHANGED batchVars
  PROVE  LogLaidOut' /\ LogGrows /\ IndexMoves /\ InFlightMoves /\ MergeWaits
<1> USE DEF BatchCore, CoreInv
<1>1. /\ pc[t] \in EnginePCs /\ pc'[t] \in EnginePCs
      /\ \A u \in Threads : u # t => pc'[u] = pc[u]
      /\ pc' = [u \in Threads |-> pc'[u]]
  BY EngineStepPC
<1>2. MergeWaits
  BY <1>1, MergePCsApart DEF MergeWaits
<1>3. /\ rec \in [Threads -> LogRecord] /\ pos \in [Threads -> MaybePositions]
      /\ index \in [Keys -> MaybePositions]
  BY DEF CoreTypeOK
<1>4. /\ \A u \in Threads : u # t => pos'[u] = pos[u] /\ rec'[u] = rec[u]
  <2>1. \A u \in Threads : u # t => pos'[u] = pos[u]
    BY EngineStepKeepsPositions
  <2>2. rec' = rec \/ \E r : rec' = [rec EXCEPT ![t] = r]
    BY DEF EngineCall, EngineStep, PutStart, PutLock, PutWrite, PutIndex, TreePut, SkipListGet,
           SkipListRemove, SkipListInsert, DeleteStart, DeleteLock, DeleteWrite, DeleteIndex,
           GetStart, GetLock, GetRead, GetReturn, Sync, threadVars
  <2> QED
    BY <1>3, <2>1, <2>2
<1>5. CASE /\ pc[t] \in {"put.write", "del.write"}
           /\ UNCHANGED index
           /\ \E out \in Outcomes : AppendLogRecord(t, rec[t], out)
  <2>1. PICK out \in Outcomes : AppendLogRecord(t, rec[t], out)
    BY <1>5
  <2>2. rec[t] \in LogRecord
    BY <1>3
  <2>3. rec[t].type = "Normal" => rec[t].seq # RawSeq
    <3>1. pc[t] = "put.write" => rec[t].seq = NON_TRANSACTION_SEQ_NO
      BY DEF PlainPuts
    <3>2. pc[t] = "del.write" => rec[t].type = "Delete"
      BY DEF InFlightSound
    <3> QED
      BY <1>5, <3>1, <3>2 DEF NON_TRANSACTION_SEQ_NO, RawSeq
  <2>4. LogLaidOut'
    BY <2>1, <2>2, <2>3, AppendLaidOut
  <2>5. LogGrows /\ (pos'[t] = NoPos \/ Fresh(pos'[t]))
    BY <2>1, <2>2, AppendGrows
  <2>6. IndexMoves
    BY <1>5 DEF IndexMoves
  <2>7. pc'[t] \in {"put.index", "put.insert"} => Fresh(pos'[t])
    <3>1. ASSUME NEW o, pc'[t] \in {"put.index", "put.insert"}, PutWrite(t, o)
          PROVE  Fresh(pos'[t])
      <4>1. pc' = [pc EXCEPT ![t] = IF o = "ok" THEN "put.index" ELSE "idle"]
            /\ AppendLogRecord(t, rec[t], o)
        BY <3>1 DEF PutWrite, Goto
      <4>2. o = "ok"
        BY <3>1, <4>1 DEF CoreTypeOK
      <4>3. o \in Outcomes
        BY <4>2 DEF Outcomes
      <4>4. pos'[t] # NoPos
        <5>1. pos'[t] = Pos(TargetFile(EncodedLength(rec[t])), TargetOff(EncodedLength(rec[t])),
                            EncodedLength(rec[t]))
          BY <1>3, <4>1, <4>2 DEF AppendLogRecord
        <5>2. TargetFile(EncodedLength(rec[t])) \in Nat
          BY DataFileAssumption DEF TargetFile, CoreTypeOK, FileIds
        <5>3. pos'[t].fid = TargetFile(EncodedLength(rec[t])) /\ NoPos.fid = -1
          BY <5>1 DEF Pos, NoPos
        <5> QED
          BY <5>2, <5>3
      <4> QED
        BY <2>2, <4>1, <4>3, <4>4, AppendGrows
    <3>2. pc'[t] \in {"put.index", "put.insert"} => \E o : PutWrite(t, o)
      BY <1>1, <1>5 DEF EngineCall, EngineStep, PutStart, PutLock, PutIndex, TreePut, SkipListGet,
           SkipListRemove, SkipListInsert, DeleteStart, DeleteLock, DeleteWrite, DeleteIndex,
           GetStart, GetLock, GetRead, GetReturn, Sync, Goto, CoreTypeOK, threadVars
    <3> QED
      BY <3>1, <3>2
  <2>8. InFlightMoves
    BY <1>1, <1>4, <2>7 DEF InFlightMoves, batchVars
  <2> QED
    BY <1>2, <2>4, <2>5, <2>6, <2>8
<1>6. CASE /\ UNCHANGED <<disk, flen, fileVars>>
           /\ \/ UNCHANGED index
              \/ /\ pc[t] \in {"put.index", "put.insert"}
                 /\ index' = [index EXCEPT ![rec[t].key] = pos[t]]
              \/ index' = [index EXCEPT ![rec[t].key] = NoPos]
  <2>1. LogGrows /\ LogLaidOut'
    BY <1>6, QuietGrowth DEF fileVars
  <2>2. IndexMoves
    BY <1>3, <1>6 DEF IndexMoves
  <2>3. pc'[t] \in {"put.index", "put.insert"} =>
          pc[t] \in {"put.index", "put.insert"} /\ rec'[t] = rec[t] /\ pos'[t] = pos[t]
    <3>1. ASSUME NEW o \in Outcomes, PutWrite(t, o)
          PROVE  pc'[t] \notin {"put.index", "put.insert"}
      <4>1. o # "ok"
        <5>1. SUFFICES ASSUME o = "ok" PROVE FALSE
          OBVIOUS
        <5>2. writeOff' # writeOff \/ activeId' # activeId
          <6> DEFINE size == EncodedLength(rec[t])
          <6>1. size \in Nat /\ size > 0
            BY <1>3, RecordNotEmpty
          <6>2. /\ writeOff' = TargetOff(size) + size /\ activeId' = TargetFile(size)
            BY <3>1, <5>1 DEF PutWrite, AppendLogRecord
          <6>3. activeId \in Nat /\ writeOff \in Nat
            BY DataFileAssumption DEF CoreTypeOK, FileIds
          <6> HIDE DEF size
          <6> QED
            BY <6>1, <6>2, <6>3 DEF TargetOff, TargetFile
        <5> QED
          BY <1>6, <5>2 DEF fileVars
      <4>2. pc' = [pc EXCEPT ![t] = "idle"]
        BY <3>1, <4>1 DEF PutWrite, Goto
      <4> QED
        BY <4>2 DEF CoreTypeOK
    <3>2. CASE \E o \in Outcomes : PutWrite(t, o)
      BY <3>1, <3>2
    <3>3. CASE ~\E o \in Outcomes : PutWrite(t, o)
      BY <1>1, <3>3 DEF EngineCall, EngineStep, PutStart, PutLock, PutIndex, TreePut, SkipListGet,
           SkipListRemove, SkipListInsert, DeleteStart, DeleteLock, DeleteWrite, DeleteIndex,
           GetStart, GetLock, GetRead, GetReturn, Sync, Goto, CoreTypeOK, threadVars
    <3> QED
      BY <3>2, <3>3
  <2>4. InFlightMoves
    BY <1>1, <1>4, <2>3 DEF InFlightMoves, batchVars
  <2> QED
    BY <1>2, <2>1, <2>2, <2>4
<1> QED
  BY <1>5, <1>6, EngineStepEffect
(* A commit, like every step outside a put, moves no put on its way.       *)
LEMMA BatchLeavesPuts ==
  ASSUME CoreTypeOK, NEW t \in Threads, BatchCall(t) \/ BatchStep(t),
         pos' = pos \/ \E p : pos' = [pos EXCEPT ![t] = p], rec' = rec
  PROVE  /\ MergeWaits
         /\ \A u \in Threads : pc'[u] \in {"put.index", "put.insert"} =>
              pc[u] \in {"put.index", "put.insert"} /\ rec'[u] = rec[u] /\ pos'[u] = pos[u]
<1>1. /\ pc[t] \in {"idle"} \cup BatchPCs /\ pc'[t] \in {"idle"} \cup BatchPCs
      /\ \A u \in Threads : u # t => pc'[u] = pc[u]
      /\ pc' = [u \in Threads |-> pc'[u]]
  BY BatchStepPC
<1>2. MergeWaits
  BY <1>1, MergePCsApart DEF MergeWaits
<1>3. pc'[t] \notin {"put.index", "put.insert"}
  BY <1>1 DEF BatchPCs
<1>4. \A u \in Threads : u # t => pos'[u] = pos[u]
  BY DEF CoreTypeOK
<1> QED
  BY <1>1, <1>2, <1>3, <1>4

(* The steps of the batches.                                               *)
LEMMA BatchStepsInMerge ==
  ASSUME BatchCore, LogLaidOut, NEW t \in Threads, BatchCall(t) \/ BatchStep(t)
  PROVE  LogLaidOut' /\ LogGrows /\ IndexMoves /\ InFlightMoves /\ MergeWaits
<1> USE DEF BatchCore, CoreInv
<1>1. batchPos \in [Threads -> [Keys -> MaybePositions]] /\ index \in [Keys -> MaybePositions]
  BY DEF BatchShape, CoreTypeOK
<1>2. ASSUME BatchCall(t) \/ BatchLock(t)
      PROVE  LogLaidOut' /\ LogGrows /\ IndexMoves /\ InFlightMoves /\ MergeWaits
  <2>1. /\ UNCHANGED <<diskVars, fileVars, index, rec, pos, batchPos>>
    BY <1>2 DEF BatchCall, BatchPut, BatchDelete, CommitStart, BatchLock, indexVars, threadVars,
                commitVars, batchVars
  <2>2. LogGrows /\ LogLaidOut'
    BY <2>1, QuietGrowth DEF diskVars, fileVars
  <2>3. IndexMoves
    BY <2>1 DEF IndexMoves
  <2>4. MergeWaits /\ InFlightMoves
    BY <2>1, BatchLeavesPuts DEF InFlightMoves
  <2> QED
    BY <2>2, <2>3, <2>4
<1>3. ASSUME NEW out \in Outcomes, BatchWrite(t, out)
      PROVE  LogLaidOut' /\ LogGrows /\ IndexMoves /\ InFlightMoves /\ MergeWaits
  <2>1. /\ pc[t] = "batch.write"
        /\ AppendLogRecord(t, BatchRecord(t), out)
        /\ UNCHANGED <<index, rec>>
        /\ \/ batchPos' = [batchPos EXCEPT ![t] = NoPositions]
           \/ batchPos' = batchPos
           \/ batchPos' = [batchPos EXCEPT ![t][ItemKey(t)] = pos'[t]]
    BY <1>3 DEF BatchWrite, Goto, EndCommit, indexVars
  <2>2. BatchRecord(t) \in LogRecord /\ BatchRecord(t).seq # RawSeq
    BY <2>1, BatchRecordTyped DEF RawSeq
  <2>3. LogLaidOut'
    BY <2>1, <2>2, AppendLaidOut
  <2>4. LogGrows /\ (pos'[t] = NoPos \/ Fresh(pos'[t]))
    BY <2>1, <2>2, AppendGrows
  <2>5. IndexMoves
    BY <2>1 DEF IndexMoves
  <2>6. \E p : pos' = [pos EXCEPT ![t] = p]
    BY <2>1 DEF AppendLogRecord
  <2>7. /\ MergeWaits
        /\ \A u \in Threads : pc'[u] \in {"put.index", "put.insert"} =>
             pc[u] \in {"put.index", "put.insert"} /\ rec'[u] = rec[u] /\ pos'[u] = pos[u]
    BY <2>1, <2>6, BatchLeavesPuts
  <2>8. ASSUME NEW u \in Threads, NEW k \in Keys
        PROVE  \/ batchPos'[u][k] = batchPos[u][k]
               \/ batchPos'[u][k] = NoPos
               \/ Fresh(batchPos'[u][k])
    <3>1. \/ batchPos'[u][k] = batchPos[u][k]
          \/ batchPos'[u][k] = NoPos
          \/ batchPos'[u][k] = pos'[t]
      BY <1>1, <2>1 DEF NoPositions
    <3> QED
      BY <2>4, <3>1
  <2> QED
    BY <2>3, <2>4, <2>5, <2>7, <2>8 DEF InFlightMoves
<1>4. ASSUME NEW out \in {"ok", "sync"}, BatchSync(t, out)
      PROVE  LogLaidOut' /\ LogGrows /\ IndexMoves /\ InFlightMoves /\ MergeWaits
  <2>1. /\ UNCHANGED <<disk, fileVars, index, rec>>
        /\ batchPos' = batchPos \/ batchPos' = [batchPos EXCEPT ![t] = NoPositions]
        /\ pos' = pos \/ \E p : pos' = [pos EXCEPT ![t] = p]
    BY <1>4 DEF BatchSync, EndCommit, indexVars, commitVars
  <2>2. LogGrows /\ LogLaidOut'
    BY <2>1, QuietGrowth DEF fileVars
  <2>3. IndexMoves
    BY <2>1 DEF IndexMoves
  <2>4. \A u \in Threads, k \in Keys :
          batchPos'[u][k] = batchPos[u][k] \/ batchPos'[u][k] = NoPos
    BY <1>1, <2>1 DEF NoPositions
  <2>5. MergeWaits /\ InFlightMoves
    BY <2>1, <2>4, BatchLeavesPuts DEF InFlightMoves
  <2> QED
    BY <2>2, <2>3, <2>5
<1>5. ASSUME BatchIndex(t)
      PROVE  LogLaidOut' /\ LogGrows /\ IndexMoves /\ InFlightMoves /\ MergeWaits
  <2> DEFINE i == ItemKey(t)
  <2>1. /\ UNCHANGED <<diskVars, fileVars, rec>>
        /\ \/ index' = [index EXCEPT ![i] = batchPos[t][i]]
           \/ index' = [index EXCEPT ![i] = NoPos]
        /\ batchPos' = batchPos \/ batchPos' = [batchPos EXCEPT ![t] = NoPositions]
        /\ pos' = pos \/ \E p : pos' = [pos EXCEPT ![t] = p]
    BY <1>5 DEF BatchIndex, EndCommit, IndexPut, IndexDelete
  <2>2. LogGrows /\ LogLaidOut'
    BY <2>1, QuietGrowth DEF diskVars, fileVars
  <2>3. IndexMoves
    <3> SUFFICES ASSUME NEW k \in Keys
                 PROVE  index'[k] = index[k] \/ index'[k] = NoPos \/ index'[k] = batchPos[t][k]
      BY DEF IndexMoves
    <3> HIDE DEF i
    <3> QED
      BY <1>1, <2>1
  <2>4. \A u \in Threads, k \in Keys :
          batchPos'[u][k] = batchPos[u][k] \/ batchPos'[u][k] = NoPos
    BY <1>1, <2>1 DEF NoPositions
  <2>5. MergeWaits /\ InFlightMoves
    BY <2>1, <2>4, BatchLeavesPuts DEF InFlightMoves
  <2> QED
    BY <2>2, <2>3, <2>5
<1> QED
  BY <1>2, <1>3, <1>4, <1>5 DEF BatchStep

(* Whatever the other threads do between two steps of a merge.             *)
LEMMA OthersInMerge ==
  ASSUME BatchCore, LogLaidOut, BatchNext \/ UNCHANGED <<engineVars, batchVars>>
  PROVE  LogLaidOut' /\ LogGrows /\ IndexMoves /\ InFlightMoves /\ MergeWaits
<1>1. CASE UNCHANGED <<engineVars, batchVars>>
  <2>1. UNCHANGED <<disk, activeId, older, index, pc, rec, pos, batchPos>>
    BY <1>1 DEF engineVars, batchVars, diskVars, fileVars, indexVars, threadVars
  <2>2. LogGrows /\ LogLaidOut'
    BY <2>1, QuietGrowth DEF BatchCore, CoreInv
  <2>3. IndexMoves /\ InFlightMoves
    BY <2>1 DEF IndexMoves, InFlightMoves
  <2>4. MergeWaits
    BY <2>1 DEF MergeWaits, BatchCore, CoreInv, CoreTypeOK
  <2> QED
    BY <2>2, <2>3, <2>4
<1>2. ASSUME NEW t \in Threads, EngineCall(t) \/ EngineStep(t), UNCHANGED batchVars
      PROVE  LogLaidOut' /\ LogGrows /\ IndexMoves /\ InFlightMoves /\ MergeWaits
  BY <1>2, EngineStepsInMerge
<1>3. ASSUME NEW t \in Threads, BatchCall(t) \/ BatchStep(t)
      PROVE  LogLaidOut' /\ LogGrows /\ IndexMoves /\ InFlightMoves /\ MergeWaits
  BY <1>3, BatchStepsInMerge
<1> QED
  BY <1>1, <1>2, <1>3 DEF BatchNext, EngineNext
(* A merge that waits is where it was.                                     *)
LEMMA MergeAtStays ==
  ASSUME MergeWaits
  PROVE  /\ MergeAt({"merge.scan"})' <=> MergeAt({"merge.scan"})
         /\ MergeAt(CopyPCs)' <=> MergeAt(CopyPCs)
         /\ MergeAt({"merge.older", "merge.active"})' <=> MergeAt({"merge.older", "merge.active"})
BY DEF MergeWaits, MergeAt, MergePCs, CopyPCs

(* The types of the ids the proofs below compare.                          *)
LEMMA MergeTyped ==
  ASSUME MergeInv
  PROVE  /\ CoreTypeOK /\ LogWellFormed /\ BatchShape
         /\ activeId \in Nat /\ activeId \in FileIds /\ FileIds \subseteq Nat
         /\ mergeFiles \subseteq Nat
         /\ \A e \in disk : e \in Entries /\ e.fid \in FileIds /\ e.fid \in Nat
                            /\ e.off \in Nat /\ e.size \in Nat
         /\ scan.fid \in FileIds /\ scan.fid \in Nat /\ scan.off \in Nat
         /\ mergeActive \in Nat /\ mergeOff \in Nat
<1>1. CoreTypeOK /\ LogWellFormed /\ BatchShape /\ MergeTypeOK
  BY DEF MergeInv, BatchCore, CoreInv
<1>2. FileIds \subseteq Nat
  BY DataFileAssumption DEF FileIds
<1>3. activeId \in FileIds /\ disk \subseteq Entries
  BY <1>1 DEF CoreTypeOK
<1>4. /\ mergeFiles \subseteq FileIds /\ scan \in [fid : FileIds, off : Nat]
      /\ mergeActive \in FileIds /\ mergeOff \in Nat
  BY <1>1 DEF MergeTypeOK
<1>5. \A e \in Entries : e.fid \in FileIds /\ e.off \in Nat /\ e.size \in Nat
  BY DEF Entries
<1> QED
  BY <1>1, <1>2, <1>3, <1>4, <1>5

(* A file that was chosen is left alone: what is fresh is in another.      *)
LEMMA FreshNotMerged ==
  ASSUME MergeInv, NEW p, Fresh(p)
  PROVE  p.fid \notin mergeFiles
<1>1. p.fid \in Nat /\ activeId \in Nat /\ p.fid >= activeId
  BY MergeTyped DEF Fresh
<1>2. \A f \in mergeFiles : f \in Nat /\ f < activeId
  BY MergeTyped DEF MergeInv, FilesChosen
<1> QED
  BY <1>1, <1>2

(* The files stay chosen.                                                  *)
LEMMA OthersKeepFiles ==
  ASSUME MergeInv, LogGrows, MergeWaits, UNCHANGED mergeVars, activeId' \in Nat,
         older' \subseteq Nat
  PROVE  FilesChosen'
<1>1. /\ UNCHANGED <<mergeFiles, fin, merging, scan>>
  BY DEF mergeVars
<1>2. FilesChosen /\ mergeFiles \subseteq Nat /\ activeId \in Nat
  BY MergeTyped DEF MergeInv
<1>3. \A f \in mergeFiles' : f < activeId'
  BY <1>1, <1>2 DEF FilesChosen, LogGrows
<1>4. ASSUME Chosen'
      PROVE  \E g \in mergeFiles' : /\ \A f \in mergeFiles' : f <= g
                                   /\ \A f \in older' \cup {activeId'} : f <= g => f \in mergeFiles'
  <2>1. Chosen
    BY <1>1, <1>4, MergeAtStays DEF Chosen
  <2>2. PICK g \in mergeFiles : /\ \A f \in mergeFiles : f <= g
                                /\ \A f \in older \cup {activeId} : f <= g => f \in mergeFiles
    BY <1>2, <2>1 DEF FilesChosen
  <2>3. g < activeId /\ g \in Nat
    BY <1>2 DEF FilesChosen
  <2>4. ASSUME NEW f \in older' \cup {activeId'}, f <= g
        PROVE  f \in mergeFiles
    <3>1. f \in Nat
      OBVIOUS
    <3>2. CASE f \in older \cup {activeId}
      BY <2>2, <2>4, <3>2
    <3>3. CASE f > activeId
      BY <1>2, <2>3, <2>4, <3>1, <3>3
    <3> QED
      BY <3>2, <3>3 DEF LogGrows
  <2> QED
    BY <1>1, <2>2, <2>4
<1>5. fin' >= 0 => fin' = NonMergeFileId' /\ merging' = NoThread
  BY <1>1, <1>2 DEF FilesChosen, NonMergeFileId
<1>6. MergeAt({"merge.scan"})' => scan'.fid \in mergeFiles'
  BY <1>1, <1>2, MergeAtStays DEF FilesChosen
<1> QED
  BY <1>3, <1>4, <1>5, <1>6 DEF FilesChosen

(* No record gets into a file that was chosen, and no key but a late one   *)
(* gets an index entry there.                                              *)
LEMMA OthersKeepLate ==
  ASSUME MergeInv, InFlightMoves, UNCHANGED mergeVars
  PROVE  OthersAreLate'
<1>1. mergeFiles' = mergeFiles /\ late' = late
  BY DEF mergeVars
<1>2. NoPos.fid \notin mergeFiles
  BY MergeTyped DEF NoPos, Pos
<1> SUFFICES ASSUME NEW t \in Threads
             PROVE  /\ pc'[t] \in {"put.index", "put.insert"} /\ rec'[t].key \notin late =>
                         pos'[t].fid \notin mergeFiles
                    /\ \A k \in Keys \ late : batchPos'[t][k].fid \notin mergeFiles
  BY <1>1 DEF OthersAreLate
<1>3. OthersAreLate
  BY DEF MergeInv
<1>4. ASSUME pc'[t] \in {"put.index", "put.insert"}, rec'[t].key \notin late
      PROVE  pos'[t].fid \notin mergeFiles
  <2>1. CASE pc[t] \in {"put.index", "put.insert"} /\ rec'[t] = rec[t] /\ pos'[t] = pos[t]
    BY <1>3, <1>4, <2>1 DEF OthersAreLate
  <2>2. CASE Fresh(pos'[t])
    BY <2>2, FreshNotMerged
  <2> QED
    BY <1>4, <2>1, <2>2 DEF InFlightMoves
<1>5. ASSUME NEW k \in Keys \ late
      PROVE  batchPos'[t][k].fid \notin mergeFiles
  <2>1. CASE batchPos'[t][k] = batchPos[t][k]
    BY <1>3, <2>1 DEF OthersAreLate
  <2>2. CASE batchPos'[t][k] = NoPos
    BY <1>2, <2>2
  <2>3. CASE Fresh(batchPos'[t][k])
    BY <2>3, FreshNotMerged
  <2> QED
    BY <2>1, <2>2, <2>3 DEF InFlightMoves
<1> QED
  BY <1>4, <1>5

(* So the copy keeps holding what the index needs.                         *)
LEMMA OthersKeepCopy ==
  ASSUME MergeInv, LogGrows, IndexMoves, MergeWaits, UNCHANGED mergeVars,
         disk' \subseteq Entries
  PROVE  CopySound' /\ CopyBehindScan'
<1>1. UNCHANGED <<mergeFiles, fin, scan, late, hint, mergeDisk, mergeActive, mergeOff>>
  BY DEF mergeVars, mergeDirVars
<1>2. CopyBehindScan'
  <2>1. CopyBehindScan
    BY DEF MergeInv
  <2>2. Chosen' => Chosen
    BY <1>1, MergeAtStays DEF Chosen
  <2> QED
    BY <1>1, <2>1, <2>2, MergeAtStays DEF CopyBehindScan
<1>3. ASSUME Chosen', NEW k \in Keys \ late, NEW e \in disk', index'[k] = PosOf(e),
             e.fid \in mergeFiles, Passed(e)'
      PROVE  CopyHolds(k, e.val)'
  <2>1. Chosen
    BY <1>1, <1>3, MergeAtStays DEF Chosen
  <2>2. Passed(e)
    BY <1>1, <1>3, MergeAtStays DEF Passed
  <2>3. e \in disk
    <3>1. \A f \in mergeFiles : f \in Nat /\ f < activeId
      BY MergeTyped DEF MergeInv, FilesChosen
    <3>2. activeId \in Nat
      BY MergeTyped
    <3> QED
      BY <1>3, <3>1, <3>2 DEF LogGrows
  <2>4. PosOf(e).fid = e.fid /\ PosOf(e) # NoPos
    BY NoPosNamesNothing
  <2>5. index'[k] = index[k]
    BY <1>3, <2>4 DEF IndexMoves, MergeInv, OthersAreLate
  <2>6. CopyHolds(k, e.val)
    BY <1>3, <2>1, <2>2, <2>3, <2>5 DEF MergeInv, CopySound
  <2> QED
    BY <1>1, <2>6 DEF CopyHolds
<1> QED
  BY <1>1, <1>2, <1>3 DEF CopySound

(* Whatever the other threads do preserves the invariant of the merge.     *)
LEMMA OthersPreserve ==
  ASSUME MergeInv, BatchNext \/ UNCHANGED <<engineVars, batchVars>>, UNCHANGED mergeVars
  PROVE  MergeInv'
<1>1. BatchCore /\ LogLaidOut /\ MergeTypeOK
  BY DEF MergeInv
<1>2. BatchCore'
  BY <1>1, BatchNextKeepsCore
<1>3. LogLaidOut' /\ LogGrows /\ IndexMoves /\ InFlightMoves /\ MergeWaits
  BY <1>1, OthersInMerge
<1>4. activeId' \in Nat /\ older' \subseteq Nat /\ disk' \subseteq Entries
  BY <1>2, DataFileAssumption DEF BatchCore, CoreInv, CoreTypeOK, FileIds
<1>5. MergeTypeOK'
  <2> DEFINE PCs == EnginePCs \cup BatchPCs \cup MergePCs
  <2>1. CoreTypeOK /\ pc \in [Threads -> PCs] /\ "idle" \in EnginePCs
    BY <1>1 DEF BatchCore, CoreInv, MergeTypeOK, EnginePCs
  <2>2. pc' \in [Threads -> PCs]
    <3>1. ASSUME NEW t \in Threads, EngineCall(t) \/ EngineStep(t)
          PROVE  pc' \in [Threads -> PCs]
      BY <2>1, <3>1, EngineStepPC
    <3>2. ASSUME NEW t \in Threads, BatchCall(t) \/ BatchStep(t)
          PROVE  pc' \in [Threads -> PCs]
      BY <2>1, <3>2, BatchStepPC
    <3>3. CASE UNCHANGED <<engineVars, batchVars>>
      BY <2>1, <3>3 DEF engineVars
    <3> QED
      BY <3>1, <3>2, <3>3 DEF BatchNext, EngineNext
  <2>3. \A t \in Threads : pc'[t] \in MergePCs <=> merging' = t
    BY <1>1, <1>3 DEF MergeTypeOK, MergeWaits, mergeVars
  <2> QED
    BY <1>1, <2>2, <2>3 DEF MergeTypeOK, mergeVars, mergeDirVars
<1> QED
  BY <1>2, <1>3, <1>4, <1>5, OthersKeepFiles, OthersKeepLate, OthersKeepCopy DEF MergeInv
-----------------------------------------------------------------------------
(* merging_lock lets in one thread, so a step of its own decides where the *)
(* merge is.                                                               *)
LEMMA MergeMoves ==
  ASSUME MergeInv, NEW t \in Threads, NEW to \in {"idle"} \cup MergePCs,
         pc[t] \in MergePCs \/ (pc[t] = "idle" /\ merging = NoThread),
         pc' = [pc EXCEPT ![t] = to],
         merging' = IF to = "idle" THEN NoThread ELSE t
  PROVE  /\ pc' \in [Threads -> EnginePCs \cup BatchPCs \cup MergePCs]
         /\ merging' \in Threads \cup {NoThread}
         /\ \A u \in Threads : pc'[u] \in MergePCs <=> merging' = u
         /\ MergeAt({"merge.scan"})' <=> to = "merge.scan"
         /\ MergeAt(CopyPCs)' <=> to \in CopyPCs
         /\ MergeAt({"merge.older", "merge.active"})' <=> to \in {"merge.older", "merge.active"}
         /\ pc[t] \in MergePCs => /\ fin < 0
                                  /\ MergeAt({"merge.scan"}) <=> pc[t] = "merge.scan"
                                  /\ MergeAt(CopyPCs) <=> pc[t] \in CopyPCs
                                  /\ MergeAt({"merge.older", "merge.active"}) <=>
                                       pc[t] \in {"merge.older", "merge.active"}
<1>1. /\ pc \in [Threads -> EnginePCs \cup BatchPCs \cup MergePCs]
      /\ merging \in Threads \cup {NoThread} /\ NoThread \notin Threads
      /\ \A u \in Threads : pc[u] \in MergePCs <=> merging = u
      /\ fin \in {NoFin, EmptyFin} \cup FileIds
      /\ fin >= 0 => merging = NoThread
  BY EngineAssumption DEF MergeInv, MergeTypeOK, FilesChosen
<1>2. \A u \in Threads : u # t => pc[u] \notin MergePCs
  BY <1>1
<1>3. pc'[t] = to /\ \A u \in Threads : u # t => pc'[u] = pc[u]
  BY <1>1
<1>4. pc' \in [Threads -> EnginePCs \cup BatchPCs \cup MergePCs]
  BY <1>1 DEF EnginePCs
<1>5. \A u \in Threads : pc'[u] \in MergePCs <=> merging' = u
  BY <1>1, <1>2, <1>3, MergePCsApart
<1>6. /\ MergeAt({"merge.scan"})' <=> to = "merge.scan"
      /\ MergeAt(CopyPCs)' <=> to \in CopyPCs
      /\ MergeAt({"merge.older", "merge.active"})' <=> to \in {"merge.older", "merge.active"}
  <2>1. /\ "merge.scan" \in MergePCs /\ CopyPCs \subseteq MergePCs
        /\ "merge.older" \in MergePCs /\ "merge.active" \in MergePCs
    BY DEF MergePCs, CopyPCs
  <2> QED
    BY <1>2, <1>3, <2>1 DEF MergeAt
<1>7. ASSUME pc[t] \in MergePCs
      PROVE  /\ fin < 0
             /\ MergeAt({"merge.scan"}) <=> pc[t] = "merge.scan"
             /\ MergeAt(CopyPCs) <=> pc[t] \in CopyPCs
             /\ MergeAt({"merge.older", "merge.active"}) <=> pc[t] \in {"merge.older", "merge.active"}
  <2>1. fin < 0
    BY <1>1, <1>7, DataFileAssumption DEF NoFin, EmptyFin, FileIds
  <2>2. /\ "merge.scan" \in MergePCs /\ CopyPCs \subseteq MergePCs
        /\ "merge.older" \in MergePCs /\ "merge.active" \in MergePCs
    BY DEF MergePCs, CopyPCs
  <2> QED
    BY <1>2, <2>1, <2>2 DEF MergeAt
<1> QED
  BY <1>1, <1>4, <1>5, <1>6, <1>7

(* A step of merge moves no record on its way to the index.                *)
LEMMA MergeLeavesLate ==
  ASSUME MergeInv, NEW t \in Threads, NEW to \in {"idle"} \cup MergePCs,
         pc' = [pc EXCEPT ![t] = to],
         UNCHANGED <<rec, pos, batchPos, mergeFiles, late>>
  PROVE  OthersAreLate'
<1>1. pc'[t] = to /\ \A u \in Threads : u # t => pc'[u] = pc[u]
  BY DEF MergeInv, MergeTypeOK
<1>2. pc'[t] \notin {"put.index", "put.insert"}
  BY <1>1, MergePCsApart DEF EnginePCs
<1> QED
  BY <1>1, <1>2 DEF MergeInv, OthersAreLate

(* A merge that ends without a merge-finished record leaves a copy that    *)
(* nobody installs.                                                        *)
LEMMA MergeEnds ==
  ASSUME MergeInv, BatchCore', NEW t \in Threads, pc[t] \in MergePCs,
         pc' = [pc EXCEPT ![t] = "idle"], EndMerge,
         activeId' = activeId \/ activeId' = activeId + 1,
         UNCHANGED <<disk, rec, pos, batchPos, mergeDir, mergeFiles, mergeDirVars, fin, late>>
  PROVE  MergeInv'
<1>1. /\ merging' = NoThread /\ scan' = NoScan
  BY DEF EndMerge
<1>2. /\ pc' \in [Threads -> EnginePCs \cup BatchPCs \cup MergePCs]
      /\ \A u \in Threads : pc'[u] \in MergePCs <=> merging' = u
      /\ ~MergeAt({"merge.scan"})' /\ ~MergeAt(CopyPCs)' /\ ~MergeAt({"merge.older", "merge.active"})'
      /\ fin < 0
  <2>1. /\ "idle" \in {"idle"} \cup MergePCs /\ "idle" \notin CopyPCs
        /\ merging' = IF "idle" = "idle" THEN NoThread ELSE t
    BY <1>1 DEF CopyPCs
  <2> QED
    BY <2>1, MergeMoves
<1>3. fin' < 0 /\ ~(fin' >= 0)
  <2>1. fin \in Int
    BY DataFileAssumption DEF MergeInv, MergeTypeOK, NoFin, EmptyFin, FileIds
  <2> QED
    BY <1>2, <2>1
<1>4. ~Chosen'
  BY <1>2, <1>3 DEF Chosen
<1>5. MergeTypeOK'
  <2>1. scan' \in [fid : FileIds, off : Nat]
    BY <1>1, DataFileAssumption DEF NoScan, FileIds
  <2> QED
    BY <1>1, <1>2, <2>1 DEF MergeInv, MergeTypeOK, mergeDirVars
<1>6. LogLaidOut'
  BY DEF MergeInv, LogLaidOut
<1>7. FilesChosen'
  <2>1. \A f \in mergeFiles : f < activeId'
    BY MergeTyped DEF MergeInv, FilesChosen
  <2> QED
    BY <1>2, <1>3, <1>4, <2>1 DEF MergeInv, FilesChosen
<1>8. OthersAreLate'
  BY MergeLeavesLate
<1>9. CopySound'
  BY <1>4 DEF CopySound
<1>10. CopyBehindScan'
  BY <1>2, <1>4 DEF MergeInv, CopyBehindScan, mergeDirVars
<1> QED
  BY <1>5, <1>6, <1>7, <1>8, <1>9, <1>10 DEF MergeInv

(* A merge starts with an empty copy and forgets the one before.           *)
LEMMA StartPreserves ==
  ASSUME MergeInv, NEW t \in Threads, MergeStart(t)
  PROVE  MergeInv'
<1>1. /\ pc[t] = "idle" /\ pc' = [pc EXCEPT ![t] = "merge.older"]
      /\ merging = NoThread /\ merging' = t /\ mergeDir' = TRUE
      /\ mergeDisk' = {} /\ mergeLen' = [f \in FileIds |-> 0]
      /\ mergeActive' = 0 /\ mergeOff' = 0 /\ hint' = <<>> /\ fin' = NoFin
      /\ UNCHANGED <<diskVars, fileVars, indexVars, lockVars, threadVars, quota, batchVars,
                     mergeFiles, scan, late>>
  BY DEF MergeStart, Goto, EmptyMergeDir
<1>2. "merge.older" \in MergePCs /\ "merge.older" \notin CopyPCs
  BY DEF MergePCs, CopyPCs
<1>3. /\ pc' \in [Threads -> EnginePCs \cup BatchPCs \cup MergePCs]
      /\ merging' \in Threads \cup {NoThread}
      /\ \A u \in Threads : pc'[u] \in MergePCs <=> merging' = u
      /\ ~MergeAt({"merge.scan"})' /\ ~MergeAt(CopyPCs)'
  BY <1>1, <1>2, MergeMoves
<1>4. ~(fin' >= 0)
  BY <1>1 DEF NoFin
<1>5. ~Chosen'
  BY <1>3, <1>4 DEF Chosen
<1>6. BatchCore'
  <2>1. olderW' \in Threads \cup {NoThread}
    BY <1>1 DEF MergeInv, BatchCore, CoreInv, CoreTypeOK, lockVars
  <2> QED
    BY <1>1, <1>2, <2>1, QuietMergeStep DEF MergeInv, lockVars
<1>7. MergeTypeOK'
  <2>1. 0 \in FileIds
    BY DataFileAssumption DEF FileIds
  <2>2. hint' \in Seq([key : Keys, pos : Positions])
    BY <1>1
  <2> QED
    BY <1>1, <1>3, <2>1, <2>2 DEF MergeInv, MergeTypeOK
<1>8. LogLaidOut'
  BY <1>1 DEF MergeInv, LogLaidOut, diskVars
<1>9. FilesChosen'
  BY <1>1, <1>3, <1>4, <1>5 DEF MergeInv, FilesChosen, fileVars
<1>10. OthersAreLate'
  BY <1>1, <1>2, MergeLeavesLate DEF threadVars, batchVars
<1>11. CopySound'
  BY <1>5 DEF CopySound
<1>12. CopyBehindScan'
  BY <1>1, <1>3, <1>5 DEF CopyBehindScan
<1> QED
  BY <1>6, <1>7, <1>8, <1>9, <1>10, <1>11, <1>12 DEF MergeInv

(* ratate_merge_files takes older_files.                                   *)
LEMMA LockOlderPreserves ==
  ASSUME MergeInv, NEW t \in Threads, MergeLockOlder(t)
  PROVE  MergeInv'
<1>1. /\ pc[t] = "merge.older" /\ pc' = [pc EXCEPT ![t] = "merge.active"]
      /\ olderW' = t
      /\ UNCHANGED <<diskVars, fileVars, indexVars, activeW, activeR, threadVars, quota,
                     batchVars, mergeVars>>
  BY DEF MergeLockOlder, Goto
<1>2. /\ pc[t] \in MergePCs /\ "merge.active" \in MergePCs /\ "merge.active" \notin CopyPCs
      /\ pc[t] \notin CopyPCs
  BY <1>1 DEF MergePCs, CopyPCs
<1>3. merging = t /\ merging' = t
  BY <1>1, <1>2 DEF MergeInv, MergeTypeOK, mergeVars
<1>4. /\ pc' \in [Threads -> EnginePCs \cup BatchPCs \cup MergePCs]
      /\ merging' \in Threads \cup {NoThread}
      /\ \A u \in Threads : pc'[u] \in MergePCs <=> merging' = u
      /\ ~MergeAt({"merge.scan"})' /\ ~MergeAt(CopyPCs)'
      /\ MergeAt({"merge.older", "merge.active"})
      /\ fin < 0
  BY <1>1, <1>2, <1>3, MergeMoves
<1>5. ~(fin' >= 0)
  <2>1. fin \in Int
    BY DataFileAssumption DEF MergeInv, MergeTypeOK, NoFin, EmptyFin, FileIds
  <2> QED
    BY <1>1, <1>4, <2>1 DEF mergeVars
<1>6. ~Chosen'
  BY <1>4, <1>5 DEF Chosen
<1>7. BatchCore'
  BY <1>1, <1>2, QuietMergeStep DEF MergeInv
<1>8. MergeTypeOK'
  BY <1>1, <1>4 DEF MergeInv, MergeTypeOK, mergeVars, mergeDirVars
<1>9. LogLaidOut'
  BY <1>1 DEF MergeInv, LogLaidOut, diskVars
<1>10. FilesChosen'
  BY <1>1, <1>4, <1>5, <1>6 DEF MergeInv, FilesChosen, fileVars, mergeVars
<1>11. OthersAreLate'
  BY <1>1, <1>2, MergeLeavesLate DEF threadVars, batchVars, mergeVars
<1>12. CopySound'
  BY <1>6 DEF CopySound
<1>13. CopyBehindScan'
  BY <1>1, <1>4, <1>6 DEF MergeInv, CopyBehindScan, mergeVars, mergeDirVars
<1> QED
  BY <1>7, <1>8, <1>9, <1>10, <1>11, <1>12, <1>13 DEF MergeInv
(* ratate_merge_files chooses all the files there are, and the copy starts *)
(* with the first: nothing is passed yet.  Whatever is in one of them and  *)
(* not in the index belongs to a late key.                                 *)
LEMMA RotatePreserves ==
  ASSUME MergeInv, OldFileReopens, NEW t \in Threads, NEW out \in RotateOutcomes,
         MergeRotate(t, out)
  PROVE  MergeInv'
<1>1. BatchCore'
  BY RotateKeepsBatches DEF MergeInv
<1>2. /\ pc[t] = "merge.active" /\ pc[t] \in MergePCs
      /\ UNCHANGED <<disk, threadVars, batchVars, mergeDir, mergeDirVars, fin>>
  BY DEF MergeRotate, Goto, MergePCs
<1>3. CASE out # "ok"
  <2>1. /\ pc' = [pc EXCEPT ![t] = "idle"] /\ EndMerge
        /\ activeId' = activeId \/ activeId' = activeId + 1
        /\ UNCHANGED <<mergeFiles, late>>
    BY <1>3 DEF MergeRotate, Goto
  <2> QED
    BY <1>1, <1>2, <2>1, MergeEnds DEF threadVars, batchVars
<1>4. CASE out = "ok"
  <2> DEFINE F == FilesToMerge
  <2>1. /\ pc' = [pc EXCEPT ![t] = "merge.scan"]
        /\ activeId' = activeId + 1 /\ older' = F /\ mergeFiles' = F
        /\ scan' = [fid |-> Min(F), off |-> 0] /\ late' = AppendedKeys
        /\ merging' = merging
    BY <1>4 DEF MergeRotate, Goto
  <2>2. merging = t /\ merging' = IF "merge.scan" = "idle" THEN NoThread ELSE t
    BY <1>2, <2>1 DEF MergeInv, MergeTypeOK
  <2>3. "merge.scan" \in {"idle"} \cup MergePCs /\ "merge.scan" \in CopyPCs
    BY DEF MergePCs, CopyPCs
  <2>4. /\ pc' \in [Threads -> EnginePCs \cup BatchPCs \cup MergePCs]
        /\ merging' \in Threads \cup {NoThread}
        /\ \A u \in Threads : pc'[u] \in MergePCs <=> merging' = u
        /\ MergeAt({"merge.scan"})'
        /\ ~MergeAt({"merge.older", "merge.active"})'
        /\ MergeAt({"merge.older", "merge.active"})
        /\ fin < 0
    BY <1>2, <2>1, <2>2, <2>3, MergeMoves
  <2>5. ~(fin' >= 0)
    <3>1. fin \in Int
      BY DataFileAssumption DEF MergeInv, MergeTypeOK, NoFin, EmptyFin, FileIds
    <3> QED
      BY <1>2, <2>4, <3>1
  <2>6. /\ activeId \in Nat /\ activeId \in F
        /\ F \in SUBSET FileIds
        /\ \A f \in F : f \in Nat /\ f <= activeId
    <3>1. older \subseteq FileIds /\ \A f \in older : f <= activeId
      BY DEF MergeInv, BatchCore, CoreInv, CoreTypeOK, LogWellFormed
    <3> QED
      BY <3>1, MergeTyped DEF FilesToMerge
  <2>7. Min(F) \in F /\ \A f \in F : Min(F) <= f
    BY <2>6, MinIsLeast
  <2>8. Min(F) \in Nat /\ scan'.fid = Min(F) /\ scan'.off = 0
    BY <2>1, <2>6, <2>7
  <2> HIDE DEF F
  <2>9. late' \subseteq Keys
    BY <2>1 DEF MergeInv, BatchCore, CoreInv, InFlightSound, AppendedKeys
  <2>10. MergeTypeOK'
    <3>1. scan' \in [fid : FileIds, off : Nat]
      BY <2>1, <2>6, <2>7
    <3> QED
      BY <1>2, <2>1, <2>4, <2>6, <2>9, <3>1 DEF MergeInv, MergeTypeOK, mergeDirVars
  <2>11. LogLaidOut'
    BY <1>2 DEF MergeInv, LogLaidOut
  <2>12. FilesChosen'
    <3>1. \A f \in mergeFiles' : f < activeId'
      BY <2>1, <2>6
    <3>2. /\ activeId \in mergeFiles'
          /\ \A f \in mergeFiles' : f <= activeId
          /\ \A f \in older' \cup {activeId'} : f <= activeId => f \in mergeFiles'
      BY <2>1, <2>6
    <3>3. scan'.fid \in mergeFiles'
      BY <2>1, <2>7, <2>8
    <3> QED
      BY <2>5, <3>1, <3>2, <3>3 DEF FilesChosen
  <2>13. OthersAreLate'
    <3>1. pc'[t] = "merge.scan" /\ \A u \in Threads : u # t => pc'[u] = pc[u]
      BY <2>1 DEF MergeInv, MergeTypeOK
    <3>2. ASSUME NEW u \in Threads, pc'[u] \in {"put.index", "put.insert"}
          PROVE  rec'[u].key \in late'
      BY <1>2, <2>1, <3>1, <3>2 DEF AppendedKeys, threadVars
    <3>3. ASSUME NEW u \in Threads, NEW k \in Keys \ late'
          PROVE  batchPos'[u][k].fid \notin mergeFiles'
      <4>1. batchPos'[u][k] = NoPos
        BY <1>2, <2>1, <3>3 DEF AppendedKeys, batchVars
      <4>2. NoPos.fid \notin Nat
        BY DEF NoPos, Pos
      <4> QED
        BY <2>1, <2>6, <4>1, <4>2
    <3> QED
      BY <3>2, <3>3 DEF OthersAreLate
  <2>14. CopySound'
    <3>1. ASSUME NEW e \in disk', e.fid \in mergeFiles', Passed(e)'
          PROVE  FALSE
      <4>1. e.fid < scan'.fid \/ (e.fid = scan'.fid /\ e.off < scan'.off)
        BY <2>4, <3>1 DEF Passed
      <4>2. e.off \in Nat /\ e.fid \in Nat /\ Min(F) <= e.fid
        BY <1>2, <2>1, <2>7, <3>1, MergeTyped
      <4> QED
        BY <2>8, <4>1, <4>2
    <3> QED
      BY <3>1 DEF CopySound
  <2>15. CopyBehindScan'
    <3>1. CopyBehindScan /\ mergeActive = 0 /\ mergeOff = 0
      BY <2>4 DEF MergeInv, CopyBehindScan
    <3>2. UNCHANGED <<mergeActive, mergeOff, mergeDisk>>
      BY <1>2 DEF mergeDirVars
    <3>3. \E f \in mergeFiles' : mergeActive' <= f
      BY <2>1, <2>6, <3>1, <3>2
    <3>4. mergeActive' < scan'.fid \/ (mergeActive' = scan'.fid /\ mergeOff' <= scan'.off)
      BY <2>8, <3>1, <3>2
    <3>5. \A e \in mergeDisk' : e.fid <= mergeActive'
      BY <3>1, <3>2 DEF CopyBehindScan
    <3>6. ~(mergeActive' > 0)
      BY <3>1, <3>2
    <3> QED
      BY <2>4, <3>3, <3>4, <3>5, <3>6 DEF CopyBehindScan
  <2> QED
    BY <1>1, <2>10, <2>11, <2>12, <2>13, <2>14, <2>15 DEF MergeInv
<1> QED
  BY <1>3, <1>4

(* A step of the merge that keeps the copy and the files it is made of.    *)
LEMMA CopyKept ==
  ASSUME MergeInv, NEW t \in Threads, pc[t] \in {"merge.sync", "merge.create", "merge.fin"},
         UNCHANGED <<disk, index, activeId, older, mergeFiles, late, mergeDirVars>>,
         ~MergeAt({"merge.scan"})', ~MergeAt({"merge.older", "merge.active"})',
         fin' >= 0 => fin' = NonMergeFileId /\ merging' = NoThread
  PROVE  LogLaidOut' /\ FilesChosen' /\ CopySound' /\ CopyBehindScan'
<1>1. Chosen
  BY DEF Chosen, MergeAt, CopyPCs
<1>2. ~MergeAt({"merge.scan"})
  <2>1. pc[t] \in MergePCs /\ pc[t] # "merge.scan"
    BY DEF MergePCs
  <2>2. \A u \in Threads : pc[u] \in MergePCs => u = t
    BY <2>1 DEF MergeInv, MergeTypeOK
  <2> QED
    BY <2>1, <2>2 DEF MergeAt, MergePCs
<1>3. LogLaidOut'
  BY DEF MergeInv, LogLaidOut
<1>4. FilesChosen'
  BY <1>1 DEF MergeInv, FilesChosen, NonMergeFileId
<1>5. CopySound'
  <2>1. ASSUME NEW k \in Keys \ late, NEW e \in disk, index[k] = PosOf(e), e.fid \in mergeFiles
        PROVE  CopyHolds(k, e.val)
    BY <1>1, <1>2, <2>1 DEF MergeInv, CopySound, Passed
  <2> QED
    BY <2>1 DEF CopySound, CopyHolds, mergeDirVars
<1>6. CopyBehindScan'
  BY <1>1 DEF MergeInv, CopyBehindScan, mergeDirVars
<1> QED
  BY <1>3, <1>4, <1>5, <1>6

(* The copy is synced, and the merge-finished file is created.             *)
LEMMA FinishStepsPreserve ==
  ASSUME MergeInv, NEW t \in Threads, NEW out, MergeSync(t, out) \/ MergeCreateFin(t, out)
  PROVE  MergeInv'
<1>1. /\ pc[t] \in {"merge.sync", "merge.create"} /\ pc[t] \in MergePCs
      /\ UNCHANGED <<diskVars, fileVars, indexVars, lockVars, threadVars, quota, batchVars,
                     mergeDir, mergeFiles, mergeDirVars, late>>
  BY DEF MergeSync, MergeCreateFin, Goto, MergePCs
<1>2. olderW' \in Threads \cup {NoThread}
  BY <1>1 DEF MergeInv, BatchCore, CoreInv, CoreTypeOK, lockVars
<1>3. CASE out # "ok"
  <2>1. pc' = [pc EXCEPT ![t] = "idle"] /\ EndMerge /\ fin' = fin
    BY <1>3 DEF MergeSync, MergeCreateFin, Goto
  <2>2. BatchCore'
    BY <1>1, <1>2, <2>1, QuietMergeStep DEF MergeInv, lockVars
  <2> QED
    BY <1>1, <2>1, <2>2, MergeEnds DEF diskVars, fileVars, threadVars, batchVars
<1>4. CASE out = "ok"
  <2>1. PICK to \in {"merge.create", "merge.fin"} :
          /\ pc' = [pc EXCEPT ![t] = to]
          /\ UNCHANGED <<merging, scan>>
          /\ fin' = fin \/ fin' = EmptyFin
    BY <1>4 DEF MergeSync, MergeCreateFin, Goto
  <2>2. /\ to \in {"idle"} \cup MergePCs /\ to \in CopyPCs /\ to # "merge.scan"
        /\ to \notin {"merge.older", "merge.active"}
    BY DEF MergePCs, CopyPCs
  <2>3. merging' = IF to = "idle" THEN NoThread ELSE t
    BY <1>1, <2>1 DEF MergeInv, MergeTypeOK
  <2>4. /\ pc' \in [Threads -> EnginePCs \cup BatchPCs \cup MergePCs]
        /\ merging' \in Threads \cup {NoThread}
        /\ \A u \in Threads : pc'[u] \in MergePCs <=> merging' = u
        /\ ~MergeAt({"merge.scan"})' /\ ~MergeAt({"merge.older", "merge.active"})'
        /\ fin < 0
    BY <1>1, <2>1, <2>2, <2>3, MergeMoves
  <2>5. ~(fin' >= 0) /\ fin' \in {NoFin, EmptyFin} \cup FileIds
    <3>1. fin \in Int /\ fin \in {NoFin, EmptyFin} \cup FileIds
      BY DataFileAssumption DEF MergeInv, MergeTypeOK, NoFin, EmptyFin, FileIds
    <3> QED
      BY <2>1, <2>4, <3>1 DEF EmptyFin
  <2>6. BatchCore'
    BY <1>1, <1>2, <2>1, <2>2, QuietMergeStep DEF MergeInv, lockVars
  <2>7. MergeTypeOK'
    BY <1>1, <2>1, <2>4, <2>5 DEF MergeInv, MergeTypeOK, mergeDirVars
  <2>8. OthersAreLate'
    BY <1>1, <2>1, <2>2, MergeLeavesLate DEF threadVars, batchVars
  <2>9. UNCHANGED <<disk, index, activeId, older>>
    BY <1>1 DEF diskVars, indexVars, fileVars
  <2>10. LogLaidOut' /\ FilesChosen' /\ CopySound' /\ CopyBehindScan'
    BY <1>1, <2>4, <2>5, <2>9, CopyKept
  <2> QED
    BY <2>6, <2>7, <2>8, <2>10 DEF MergeInv
<1> QED
  BY <1>3, <1>4

(* The merge-finished record names the first file that is not merged.      *)
LEMMA WriteFinPreserves ==
  ASSUME MergeInv, NEW t \in Threads, NEW out, MergeWriteFin(t, out)
  PROVE  MergeInv'
<1>1. /\ pc[t] = "merge.fin" /\ pc' = [pc EXCEPT ![t] = "idle"]
      /\ pc[t] \in MergePCs /\ pc[t] \in CopyPCs
      /\ fin' = IF out = "write" THEN fin ELSE NonMergeFileId
      /\ EndMerge /\ merging' = NoThread /\ scan' = NoScan
      /\ UNCHANGED <<diskVars, fileVars, indexVars, lockVars, threadVars, quota, batchVars,
                     mergeDir, mergeFiles, mergeDirVars, late>>
  BY DEF MergeWriteFin, Goto, EndMerge, MergePCs, CopyPCs
<1>2. olderW' \in Threads \cup {NoThread}
  BY <1>1 DEF MergeInv, BatchCore, CoreInv, CoreTypeOK, lockVars
<1>3. BatchCore'
  BY <1>1, <1>2, QuietMergeStep DEF MergeInv, lockVars
<1>4. CASE out = "write"
  BY <1>1, <1>3, <1>4, MergeEnds DEF diskVars, fileVars, threadVars, batchVars
<1>5. CASE out # "write"
  <2>1. /\ "idle" \in {"idle"} \cup MergePCs /\ "idle" \notin CopyPCs
        /\ merging' = IF "idle" = "idle" THEN NoThread ELSE t
    BY <1>1 DEF CopyPCs
  <2>2. /\ pc' \in [Threads -> EnginePCs \cup BatchPCs \cup MergePCs]
        /\ merging' \in Threads \cup {NoThread}
        /\ \A u \in Threads : pc'[u] \in MergePCs <=> merging' = u
        /\ ~MergeAt({"merge.scan"})' /\ ~MergeAt({"merge.older", "merge.active"})'
    BY <1>1, <2>1, MergeMoves
  <2>3. NonMergeFileId \in FileIds
    <3>1. Chosen
      BY <1>1 DEF Chosen, MergeAt
    <3>2. PICK g \in mergeFiles : \A f \in mergeFiles : f <= g
      BY <3>1 DEF MergeInv, FilesChosen
    <3>3. Max(mergeFiles) = g
      BY <3>2, MaxIsLast DEF MergeInv, MergeTypeOK
    <3>4. g \in Nat /\ activeId \in FileIds /\ g < activeId
      BY MergeTyped DEF MergeInv, FilesChosen
    <3> QED
      BY <3>3, <3>4, DataFileAssumption DEF NonMergeFileId, FileIds
  <2>4. MergeTypeOK'
    <3>1. scan' \in [fid : FileIds, off : Nat]
      BY <1>1, DataFileAssumption DEF NoScan, FileIds
    <3> QED
      BY <1>1, <1>5, <2>2, <2>3, <3>1 DEF MergeInv, MergeTypeOK, mergeDirVars
  <2>5. OthersAreLate'
    BY <1>1, MergeLeavesLate DEF threadVars, batchVars
  <2>6. UNCHANGED <<disk, index, activeId, older>>
    BY <1>1 DEF diskVars, indexVars, fileVars
  <2>7. LogLaidOut' /\ FilesChosen' /\ CopySound' /\ CopyBehindScan'
    BY <1>1, <1>5, <2>2, <2>6, CopyKept
  <2> QED
    BY <1>3, <2>4, <2>5, <2>7 DEF MergeInv
<1> QED
  BY <1>4, <1>5
-----------------------------------------------------------------------------
ScanRead == ReadLogRecord(disk, flen, scan.fid, scan.off)

(* What the scan reads is the record it has come to.                       *)
LEMMA ScanReadsRecord ==
  ASSUME ScanRead.status = "ok"
  PROVE  /\ ScanRead.entry \in disk
         /\ ScanRead.entry.fid = scan.fid /\ ScanRead.entry.off = scan.off
<1> DEFINE starts == StartsAt(disk, scan.fid, scan.off)
<1>1. starts # {}
  BY DEF ScanRead, ReadLogRecord
<1>2. ScanRead.entry = CHOOSE e \in starts : TRUE
  BY <1>1 DEF ScanRead, ReadLogRecord
<1>3. ScanRead.entry \in starts
  BY <1>1, <1>2
<1> QED
  BY <1>3 DEF StartsAt

(* A file that reads as ended has no record from there on: a last byte     *)
(* that is left over is too short for one.                                 *)
LEMMA ScanEndsFile ==
  ASSUME MergeInv, ScanRead.status = "eof", NEW e \in disk, e.fid = scan.fid
  PROVE  e.off < scan.off
<1>1. StartsAt(disk, scan.fid, scan.off) = {} /\ scan.off + 1 >= flen[scan.fid]
  BY DEF ScanRead, ReadLogRecord
<1>2. e.off # scan.off
  BY <1>1 DEF StartsAt
<1>3. e.off \in Nat /\ e.size \in Nat /\ scan.off \in Nat /\ flen[scan.fid] \in Nat
  BY MergeTyped DEF CoreTypeOK
<1>4. e.size > 0 /\ e.off + e.size <= flen[scan.fid]
  BY MergeTyped DEF LogWellFormed, EndOf
<1> QED
  BY <1>1, <1>2, <1>3, <1>4

(* A record the index points to is a put of that key, and no other key     *)
(* points to it.                                                           *)
LEMMA IndexedRecord ==
  ASSUME MergeInv, NEW k \in Keys, NEW e \in disk, index[k].fid = e.fid, index[k].off = e.off
  PROVE  /\ index[k] = PosOf(e) /\ e.key = k
         /\ e.type = "Normal" /\ ParseLogRecordKey(e) = [ok |-> TRUE, key |-> k, seq |-> e.seq]
<1>1. index[k] # NoPos
  <2>1. e.fid \in Nat
    BY MergeTyped
  <2>2. NoPos.fid \notin Nat
    BY DEF NoPos, Pos
  <2> QED
    BY <2>1, <2>2
<1>2. PICK d \in disk : PosOf(d) = index[k] /\ d.key = k /\ d.type = "Normal"
  BY <1>1 DEF MergeInv, BatchCore, CoreInv, IndexSound, Locates, Holds
<1>3. d.fid = e.fid /\ d.off = e.off
  BY <1>2 DEF PosOf, Pos
<1>4. d = e
  BY <1>3, MergeTyped DEF LogWellFormed
<1>5. e.seq # RawSeq
  BY <1>2, <1>4 DEF MergeInv, LogLaidOut
<1> QED
  BY <1>2, <1>4, <1>5 DEF ParseLogRecordKey

(* The end of a file.                                                      *)
LEMMA ScanNextFile ==
  ASSUME MergeInv, BatchCore', NEW t \in Threads, NEW to,
         pc[t] = "merge.scan", ScanRead.status = "eof",
         to = IF LaterFiles(scan.fid) = {} THEN "merge.sync" ELSE "merge.scan",
         pc' = [pc EXCEPT ![t] = to],
         scan' = IF LaterFiles(scan.fid) = {} THEN NoScan
                 ELSE [fid |-> Min(LaterFiles(scan.fid)), off |-> 0],
         UNCHANGED <<disk, index, activeId, older, rec, pos, batchPos, merging, mergeDir, mergeFiles,
                     mergeDirVars, fin, late>>
  PROVE  MergeInv'
<1> DEFINE later == LaterFiles(scan.fid)
<1>1. /\ pc[t] \in MergePCs /\ pc[t] \in CopyPCs /\ to \in {"idle"} \cup MergePCs /\ to \in CopyPCs
      /\ to \notin {"merge.older", "merge.active"}
  BY DEF MergePCs, CopyPCs
<1>2. merging' = IF to = "idle" THEN NoThread ELSE t
  BY <1>1 DEF MergeInv, MergeTypeOK, MergePCs
<1>3. /\ pc' \in [Threads -> EnginePCs \cup BatchPCs \cup MergePCs]
      /\ merging' \in Threads \cup {NoThread}
      /\ \A u \in Threads : pc'[u] \in MergePCs <=> merging' = u
      /\ MergeAt({"merge.scan"})' <=> to = "merge.scan"
      /\ ~MergeAt({"merge.older", "merge.active"})'
      /\ MergeAt(CopyPCs) /\ MergeAt({"merge.scan"})
  BY <1>1, <1>2, MergeMoves
<1>4. Chosen
  BY <1>3 DEF Chosen
<1>5. later \in SUBSET FileIds /\ \A f \in later : f > scan.fid /\ f \in mergeFiles /\ f \in Nat
  BY MergeTyped DEF LaterFiles, MergeInv, MergeTypeOK
<1>6. later # {} => /\ Min(later) \in later /\ \A f \in later : Min(later) <= f
                    /\ scan'.fid = Min(later) /\ scan'.off = 0
  <2>1. CASE later # {}
    <3>1. Min(later) \in later /\ \A f \in later : Min(later) <= f
      BY <1>5, <2>1, MinIsLeast
    <3> QED
      BY <2>1, <3>1
  <2> QED
    BY <2>1
<1>7. MergeTypeOK'
  <2>1. scan' \in [fid : FileIds, off : Nat]
    <3>1. CASE later = {}
      BY <3>1, DataFileAssumption DEF NoScan, FileIds
    <3>2. CASE later # {}
      BY <1>5, <1>6, <3>2
    <3> QED
      BY <3>1, <3>2
  <2> QED
    BY <1>3, <2>1 DEF MergeInv, MergeTypeOK, mergeDirVars
<1>8. LogLaidOut'
  BY DEF MergeInv, LogLaidOut
<1>9. FilesChosen'
  <2>1. to = "merge.scan" => scan'.fid \in mergeFiles
    BY <1>5, <1>6
  <2> QED
    BY <1>3, <1>4, <2>1 DEF MergeInv, FilesChosen, NonMergeFileId
<1>10. OthersAreLate'
  BY <1>1, MergeLeavesLate
<1>11. ASSUME NEW e \in disk, e.fid \in mergeFiles, Passed(e)'
       PROVE  Passed(e)
  <2>1. e.fid \in Nat /\ scan.fid \in Nat
    BY MergeTyped
  <2>2. e.fid <= scan.fid
    <3>1. CASE later = {}
      BY <1>11, <2>1, <3>1 DEF LaterFiles
    <3>2. CASE later # {}
      <4>1. to = "merge.scan"
        BY <3>2
      <4>2. e.fid < Min(later) \/ (e.fid = Min(later) /\ e.off < 0)
        BY <1>3, <1>6, <1>11, <3>2, <4>1 DEF Passed
      <4>3. e.off \in Nat /\ Min(later) \in Nat
        BY <1>5, <1>6, <3>2, MergeTyped
      <4>4. e.fid \notin later
        BY <1>5, <1>6, <2>1, <3>2, <4>2, <4>3
      <4> QED
        BY <1>11, <2>1, <4>4 DEF LaterFiles
    <3> QED
      BY <3>1, <3>2
  <2>3. e.fid = scan.fid => e.off < scan.off
    BY ScanEndsFile
  <2> QED
    BY <2>1, <2>2, <2>3 DEF Passed
<1>12. CopySound'
  <2>1. ASSUME NEW k \in Keys \ late, NEW e \in disk, index[k] = PosOf(e), e.fid \in mergeFiles,
               Passed(e)'
        PROVE  CopyHolds(k, e.val)
    BY <1>4, <1>11, <2>1 DEF MergeInv, CopySound
  <2> QED
    BY <2>1 DEF CopySound, CopyHolds, mergeDirVars
<1>13. CopyBehindScan'
  <2>1. UNCHANGED <<mergeActive, mergeOff, mergeDisk>>
    BY DEF mergeDirVars
  <2>2. mergeActive <= scan.fid /\ mergeActive \in Nat /\ scan.fid \in Nat
    BY <1>3, MergeTyped DEF MergeInv, CopyBehindScan
  <2>3. to = "merge.scan" => mergeActive < scan'.fid
    <3>1. to = "merge.scan" => later # {}
      OBVIOUS
    <3>2. later # {} => scan'.fid \in Nat /\ scan'.fid > scan.fid
      BY <1>5, <1>6
    <3> QED
      BY <2>2, <3>1, <3>2
  <2> QED
    BY <1>3, <1>4, <2>1, <2>3 DEF MergeInv, CopyBehindScan
<1> QED
  BY <1>7, <1>8, <1>9, <1>10, <1>12, <1>13 DEF MergeInv
(* The copy of a record is as long as the record.                          *)
CopyOf(e) == Rec(e.key, NON_TRANSACTION_SEQ_NO, e.val, e.type)

LEMMA CopyIsSameSize ==
  ASSUME MergeInv, NEW e \in disk
  PROVE  /\ CopyOf(e) \in LogRecord
         /\ EncodedLength(CopyOf(e)) = e.size
         /\ e.size \in Nat /\ e.size > 0
<1>1. e \in Entries
  BY MergeTyped
<1>2. CopyOf(e) \in LogRecord
  BY <1>1 DEF CopyOf, Rec, LogRecord, Entries, NON_TRANSACTION_SEQ_NO
<1>3. e.size = EncodedLength(e)
  BY DEF MergeInv, LogLaidOut
<1>4. EncodedLength(CopyOf(e)) = EncodedLength(e)
  BY DEF CopyOf, Rec, EncodedLength
<1> QED
  BY <1>2, <1>3, <1>4, RecordNotEmpty

(* append_log_record of merge_db appends the copy and a hint to it, where  *)
(* a reader of the hint file finds it as the last one of its key; it needs *)
(* no more room than the record took where it comes from.                  *)
LEMMA AppendCopies ==
  ASSUME MergeInv, MergeAt({"merge.scan"}), NEW e \in disk, e.fid = scan.fid, e.off = scan.off,
         e.key \in Keys, MergeAppend(e)
  PROVE  /\ mergeDisk' \subseteq Entries
         /\ mergeLen' \in [FileIds -> Nat]
         /\ mergeActive' \in FileIds /\ mergeOff' \in Nat
         /\ hint' \in Seq([key : Keys, pos : Positions])
         /\ \A k \in Keys : \A v : k # e.key /\ CopyHolds(k, v) => CopyHolds(k, v)'
         /\ CopyHolds(e.key, e.val)'
         /\ mergeActive' > 0 => mergeOff' > 0
         /\ \A d \in mergeDisk' : d.fid <= mergeActive'
         /\ \/ mergeActive' < scan.fid
            \/ mergeActive' = scan.fid /\ mergeOff' <= scan.off + e.size
<1> DEFINE r == CopyOf(e)
           size == e.size
           fid == IF MergeRotates(size) THEN mergeActive + 1 ELSE mergeActive
           off == IF MergeRotates(size) THEN 0 ELSE mergeOff
           new == Entry(fid, off, r)
           h == [key |-> e.key, pos |-> Pos(fid, off, size)]
<1>1. r \in LogRecord /\ EncodedLength(r) = size /\ size \in Nat /\ size > 0
  BY CopyIsSameSize
<1>2. /\ fid <= MaxFileId
      /\ mergeDisk' = mergeDisk \cup {new}
      /\ mergeLen' = [mergeLen EXCEPT ![fid] = off + size]
      /\ mergeActive' = fid
      /\ mergeOff' = off + size
      /\ hint' = Append(hint, h)
  BY <1>1 DEF MergeAppend, CopyOf
<1>3. /\ mergeActive \in Nat /\ mergeOff \in Nat /\ scan.fid \in Nat /\ scan.off \in Nat
      /\ mergeDisk \subseteq Entries /\ mergeLen \in [FileIds -> Nat]
      /\ hint \in Seq([key : Keys, pos : Positions])
  BY MergeTyped DEF MergeInv, MergeTypeOK
<1>4. /\ fid \in Nat /\ fid >= mergeActive /\ fid \in FileIds /\ off \in Nat
  <2>1. fid \in Nat /\ fid >= mergeActive /\ off \in Nat
    BY <1>3
  <2> HIDE DEF fid
  <2> QED
    BY <1>2, <2>1, DataFileAssumption DEF FileIds
<1>5. new \in Entries
  BY <1>1, <1>4, EntryTyped
<1>6. /\ new.fid = fid /\ new.key = e.key /\ new.val = e.val
      /\ PosOf(new) = Pos(fid, off, size)
  BY <1>1 DEF Entry, PosOf, Pos, CopyOf, Rec
<1>7. h \in [key : Keys, pos : Positions] /\ h.key = e.key /\ h.pos = Pos(fid, off, size)
  <2>1. Pos(fid, off, size) \in Positions
    BY <1>1, <1>4 DEF Pos, Positions
  <2> QED
    BY <2>1
<1>8. mergeActive < scan.fid \/ (mergeActive = scan.fid /\ mergeOff <= scan.off)
  BY DEF MergeInv, CopyBehindScan
<1>9. fid < scan.fid \/ (fid = scan.fid /\ off + size <= scan.off + size)
  <2>1. CASE ~MergeRotates(size)
    <3>1. fid = mergeActive /\ off = mergeOff
      BY <2>1
    <3> HIDE DEF fid, off, size
    <3> QED
      BY <1>1, <1>3, <1>8, <3>1
  <2>2. CASE MergeRotates(size)
    <3>1. fid = mergeActive + 1 /\ off = 0
      BY <2>2
    <3>2. mergeActive < scan.fid
      <4>1. SUFFICES ASSUME mergeActive = scan.fid, mergeOff <= scan.off PROVE FALSE
        BY <1>8
      <4>2. mergeOff + size > DataFileSize /\ DataFileSize \in Nat
        BY <2>2, EngineAssumption DEF MergeRotates
      <4>3. EndOf(e) <= DataFileSize \/ (e.off = 0 /\ e.fid > 0)
        BY DEF MergeInv, LogLaidOut
      <4>4. EndOf(e) = scan.off + size
        BY DEF EndOf
      <4>5. mergeActive > 0 => mergeOff > 0
        BY DEF MergeInv, CopyBehindScan
      <4> HIDE DEF size
      <4> QED
        BY <1>1, <1>3, <4>1, <4>2, <4>3, <4>4, <4>5
    <3> HIDE DEF fid, off, size
    <3> QED
      BY <1>1, <1>3, <3>1, <3>2
  <2> QED
    BY <2>1, <2>2
<1> HIDE DEF r, size, fid, off, new, h
<1>10. /\ hint' \in Seq([key : Keys, pos : Positions])
       /\ Len(hint') = Len(hint) + 1 /\ Len(hint) \in Nat
       /\ hint'[Len(hint) + 1] = h
       /\ \A i \in 1..Len(hint) : hint'[i] = hint[i]
       /\ DOMAIN hint = 1..Len(hint) /\ DOMAIN hint' = 1..Len(hint) + 1
  BY <1>2, <1>3, <1>7
<1>11. ASSUME NEW k \in Keys, NEW v, k # e.key, CopyHolds(k, v)
       PROVE  CopyHolds(k, v)'
  <2>1. PICK i \in DOMAIN hint :
          /\ hint[i].key = k
          /\ \A j \in DOMAIN hint : hint[j].key = k => j <= i
          /\ \E d \in mergeDisk : PosOf(d) = hint[i].pos /\ d.key = k /\ d.val = v
    BY <1>11 DEF CopyHolds
  <2>2. i \in DOMAIN hint' /\ hint'[i] = hint[i]
    BY <1>10
  <2>3. ASSUME NEW j \in DOMAIN hint', hint'[j].key = k
        PROVE  j <= i
    <3>1. j # Len(hint) + 1
      BY <1>7, <1>10, <1>11, <2>3
    <3>2. j \in DOMAIN hint /\ hint'[j] = hint[j]
      BY <1>10, <3>1
    <3> QED
      BY <2>1, <2>3, <3>2
  <2> QED
    BY <1>2, <2>1, <2>2, <2>3 DEF CopyHolds
<1>12. CopyHolds(e.key, e.val)'
  <2> DEFINE i == Len(hint) + 1
  <2>1. i \in DOMAIN hint' /\ hint'[i].key = e.key /\ hint'[i].pos = PosOf(new)
    BY <1>6, <1>7, <1>10
  <2>2. \A j \in DOMAIN hint' : j <= i
    BY <1>10
  <2>3. new \in mergeDisk'
    BY <1>2
  <2> HIDE DEF i
  <2> QED
    BY <1>6, <2>1, <2>2, <2>3 DEF CopyHolds
<1>13. mergeOff' \in Nat /\ mergeOff' > 0
  BY <1>1, <1>2, <1>4
<1>14. \A d \in mergeDisk' : d.fid <= mergeActive'
  <2>1. \A d \in mergeDisk : d.fid \in Nat /\ d.fid <= mergeActive
    <3>1. \A d \in Entries : d.fid \in Nat
      BY DataFileAssumption DEF Entries, FileIds
    <3> QED
      BY <1>3, <3>1 DEF MergeInv, CopyBehindScan
  <2> QED
    BY <1>2, <1>3, <1>4, <1>6, <2>1
<1>15. mergeLen' \in [FileIds -> Nat]
  BY <1>1, <1>2, <1>3, <1>4
<1>16. mergeActive' < scan.fid \/ (mergeActive' = scan.fid /\ mergeOff' <= scan.off + e.size)
  BY <1>2, <1>9 DEF size
<1>17. mergeDisk' \subseteq Entries /\ mergeActive' \in FileIds
  BY <1>2, <1>3, <1>4, <1>5
<1> QED
  BY <1>10, <1>11, <1>12, <1>13, <1>14, <1>15, <1>16, <1>17
(* One record: the scan passes it, and no other, and when the index points *)
(* to it the copy has it.                                                  *)
LEMMA ScanPassesRecord ==
  ASSUME MergeInv, BatchCore', NEW t \in Threads, pc[t] = "merge.scan",
         NEW e \in disk, e.fid = scan.fid, e.off = scan.off,
         IF IsLive(e) THEN MergeAppend(e) ELSE UNCHANGED mergeDirVars,
         scan' = [scan EXCEPT !.off = @ + e.size],
         UNCHANGED <<pc, disk, index, activeId, older, rec, pos, batchPos, merging, mergeDir,
                     mergeFiles, fin, late>>
  PROVE  MergeInv'
<1>1. MergeAt({"merge.scan"}) /\ MergeAt(CopyPCs)
  BY DEF MergeAt, CopyPCs
<1>2. UNCHANGED <<MergeAt({"merge.scan"}), MergeAt(CopyPCs), MergeAt({"merge.older", "merge.active"})>>
  BY DEF MergeAt
<1>3. Chosen /\ Chosen'
  BY <1>1, <1>2 DEF Chosen
<1>4. /\ scan.fid \in Nat /\ scan.off \in Nat /\ e.size \in Nat /\ e.size > 0
      /\ scan'.fid = scan.fid /\ scan'.off = scan.off + e.size
      /\ scan' \in [fid : FileIds, off : Nat]
  <2>1. scan \in [fid : FileIds, off : Nat]
    BY DEF MergeInv, MergeTypeOK
  <2>2. scan.fid \in Nat /\ scan.off \in Nat /\ e.size \in Nat /\ e.size > 0
    BY MergeTyped, CopyIsSameSize
  <2> QED
    BY <2>1, <2>2
<1>5. IsLive(e) => e.key \in Keys /\ index[e.key] = PosOf(e) /\ MergeAppend(e)
  BY IndexedRecord DEF IsLive
<1>6. ASSUME NEW k \in Keys, index[k] = PosOf(e)
      PROVE  IsLive(e) /\ e.key = k
  <2>1. index[k].fid = e.fid /\ index[k].off = e.off
    BY <1>6 DEF PosOf, Pos
  <2> QED
    BY <2>1, IndexedRecord DEF IsLive
<1>7. /\ mergeDisk' \subseteq Entries
      /\ mergeLen' \in [FileIds -> Nat]
      /\ mergeActive' \in FileIds /\ mergeOff' \in Nat
      /\ hint' \in Seq([key : Keys, pos : Positions])
      /\ mergeActive' > 0 => mergeOff' > 0
      /\ \A d \in mergeDisk' : d.fid <= mergeActive'
      /\ \/ mergeActive' < scan.fid
         \/ mergeActive' = scan.fid /\ mergeOff' <= scan.off + e.size
  <2>1. CASE IsLive(e)
    BY <1>1, <1>5, <2>1, AppendCopies
  <2>2. CASE ~IsLive(e)
    <3>1. UNCHANGED <<mergeDisk, mergeLen, mergeActive, mergeOff, hint>>
      BY <2>2 DEF mergeDirVars
    <3>2. mergeActive \in Nat /\ mergeOff \in Nat
      BY MergeTyped
    <3>3. mergeActive < scan.fid \/ (mergeActive = scan.fid /\ mergeOff <= scan.off)
      BY <1>1 DEF MergeInv, CopyBehindScan
    <3>4. mergeActive < scan.fid \/ (mergeActive = scan.fid /\ mergeOff <= scan.off + e.size)
      BY <1>4, <3>2, <3>3
    <3> QED
      BY <3>1, <3>4 DEF MergeInv, MergeTypeOK, CopyBehindScan
  <2> QED
    BY <2>1, <2>2
<1>8. MergeTypeOK'
  BY <1>4, <1>7 DEF MergeInv, MergeTypeOK
<1>9. LogLaidOut'
  BY DEF MergeInv, LogLaidOut
<1>10. FilesChosen'
  BY <1>2, <1>3, <1>4 DEF MergeInv, FilesChosen, NonMergeFileId
<1>11. OthersAreLate'
  BY DEF MergeInv, OthersAreLate
<1>12. CopySound'
  <2>1. ASSUME NEW k \in Keys \ late, NEW d \in disk, index[k] = PosOf(d), d.fid \in mergeFiles,
               Passed(d)'
        PROVE  CopyHolds(k, d.val)'
    <3>1. d.fid \in Nat /\ d.off \in Nat
      BY MergeTyped
    <3>2. d.fid < scan.fid \/ (d.fid = scan.fid /\ d.off < scan.off + e.size)
      BY <1>1, <1>2, <1>4, <2>1 DEF Passed
    <3>3. CASE d = e
      BY <1>1, <1>5, <1>6, <2>1, <3>3, AppendCopies
    <3>4. CASE d # e
      <4>1. ~(d.fid = scan.fid /\ d.off >= scan.off)
        <5>1. SUFFICES ASSUME d.fid = scan.fid, d.off >= scan.off PROVE FALSE
          OBVIOUS
        <5>2. d.off < EndOf(e)
          BY <1>4, <3>2, <5>1 DEF EndOf
        <5>3. ~(e.off < d.off)
          <6>1. e.off < d.off => EndOf(e) <= d.off
            BY <5>1 DEF MergeInv, LogLaidOut
          <6>2. EndOf(e) \in Nat
            BY <1>4 DEF EndOf
          <6> QED
            BY <3>1, <5>2, <6>1, <6>2
        <5>4. d.off = e.off
          BY <1>4, <3>1, <5>1, <5>3
        <5> QED
          BY <3>4, <5>1, <5>4, MergeTyped DEF LogWellFormed
      <4>2. Passed(d)
        BY <1>4, <3>1, <3>2, <4>1 DEF Passed
      <4>3. CopyHolds(k, d.val)
        BY <1>3, <2>1, <4>2 DEF MergeInv, CopySound
      <4>4. CASE IsLive(e)
        <5>1. k # e.key
          BY <1>5, <2>1, <3>4, <4>4, PosUnique, MergeTyped
        <5> QED
          BY <1>1, <1>5, <4>3, <4>4, <5>1, AppendCopies
      <4>5. CASE ~IsLive(e)
        BY <4>3, <4>5 DEF CopyHolds, mergeDirVars
      <4> QED
        BY <4>4, <4>5
    <3> QED
      BY <3>3, <3>4
  <2> QED
    BY <2>1 DEF CopySound
<1>13. CopyBehindScan'
  <2>1. ~MergeAt({"merge.older", "merge.active"})
    <3>1. \A u \in Threads : pc[u] \in MergePCs => u = t
      BY DEF MergeInv, MergeTypeOK, MergePCs
    <3> QED
      BY <3>1 DEF MergeAt, MergePCs
  <2>2. mergeActive' <= scan.fid
    <3>1. mergeActive' \in Nat
      BY <1>7, MergeTyped
    <3> QED
      BY <1>4, <1>7, <3>1
  <2>3. scan.fid \in mergeFiles
    BY <1>1 DEF MergeInv, FilesChosen
  <2> QED
    BY <1>2, <1>4, <1>7, <2>1, <2>2, <2>3 DEF CopyBehindScan
<1> QED
  BY <1>8, <1>9, <1>10, <1>11, <1>12, <1>13 DEF MergeInv

(* A turn of the loop over the records preserves the invariant.            *)
LEMMA ScanPreserves ==
  ASSUME MergeInv, NEW t \in Threads, NEW out, MergeScan(t, out)
  PROVE  MergeInv'
<1>1. /\ pc[t] = "merge.scan" /\ pc[t] \in MergePCs
      /\ UNCHANGED <<diskVars, fileVars, indexVars, lockVars, threadVars, quota, batchVars,
                     mergeDir, mergeFiles, fin, late>>
  BY DEF MergeScan, MergePCs
<1>2. UNCHANGED <<disk, index, activeId, older, rec, pos, batchPos>>
  BY <1>1 DEF diskVars, fileVars, indexVars, threadVars, batchVars
<1>3. ASSUME NEW to \in {"idle"} \cup MergePCs, pc' = [pc EXCEPT ![t] = to]
      PROVE  BatchCore'
  <2>1. olderW' \in Threads \cup {NoThread}
    BY <1>1 DEF MergeInv, BatchCore, CoreInv, CoreTypeOK, lockVars
  <2> QED
    BY <1>1, <1>3, <2>1, QuietMergeStep DEF MergeInv, lockVars
<1> DEFINE later == LaterFiles(scan.fid)
<1>4. CASE /\ ScanRead.status = "eof"
           /\ scan' = IF later = {} THEN NoScan ELSE [fid |-> Min(later), off |-> 0]
           /\ pc' = [pc EXCEPT ![t] = IF later = {} THEN "merge.sync" ELSE "merge.scan"]
           /\ UNCHANGED <<merging, mergeDirVars>>
  <2> DEFINE to == IF later = {} THEN "merge.sync" ELSE "merge.scan"
  <2>1. to \in {"idle"} \cup MergePCs
    BY DEF MergePCs
  <2>2. BatchCore'
    BY <1>3, <1>4, <2>1
  <2> QED
    BY <1>1, <1>2, <1>4, <2>2, ScanNextFile
<1>5. CASE /\ pc' = [pc EXCEPT ![t] = "idle"]
           /\ EndMerge
           /\ UNCHANGED mergeDirVars
  <2>1. BatchCore'
    BY <1>3, <1>5
  <2> QED
    BY <1>1, <1>2, <1>5, <2>1, MergeEnds
<1>6. CASE /\ ScanRead.status = "ok" /\ ParseLogRecordKey(ScanRead.entry).ok
           /\ IF IsLive(ScanRead.entry) THEN MergeAppend(ScanRead.entry) ELSE UNCHANGED mergeDirVars
           /\ scan' = [scan EXCEPT !.off = @ + ScanRead.entry.size]
           /\ UNCHANGED <<pc, merging>>
  <2>1. BatchCore'
    <3>1. pc' = [pc EXCEPT ![t] = "merge.scan"]
      BY <1>1, <1>6 DEF MergeInv, MergeTypeOK
    <3> QED
      BY <1>3, <3>1 DEF MergePCs
  <2>2. /\ ScanRead.entry \in disk
        /\ ScanRead.entry.fid = scan.fid /\ ScanRead.entry.off = scan.off
    BY <1>6, ScanReadsRecord
  <2> QED
    BY <1>1, <1>2, <1>6, <2>1, <2>2, ScanPassesRecord
<1> QED
  BY <1>4, <1>5, <1>6 DEF MergeScan, ScanRead

-----------------------------------------------------------------------------
(* The state an engine is opened in.                                       *)
LEMMA MergeInitSatisfies == EngineInit /\ BatchInit /\ MergeInit => MergeInv
<1> SUFFICES ASSUME EngineInit, BatchInit, MergeInit PROVE MergeInv
  OBVIOUS
<1>1. BatchCore
  BY BatchInitSatisfies DEF BatchInv
<1>2. \A u \in Threads : pc[u] = "idle" /\ \A k \in Keys : batchPos[u][k] = NoPos
  BY DEF EngineInit, BatchInit, NoPositions
<1>3. /\ ~MergeAt({"merge.scan"}) /\ ~MergeAt(CopyPCs) /\ ~MergeAt({"merge.older", "merge.active"})
  BY <1>2 DEF MergeAt, CopyPCs
<1>4. ~(fin >= 0)
  BY DEF MergeInit, NoFin
<1>5. ~Chosen
  BY <1>3, <1>4 DEF Chosen
<1>6. MergeTypeOK
  <2>1. pc \in [Threads -> EnginePCs \cup BatchPCs \cup MergePCs]
    BY DEF EngineInit, EnginePCs
  <2>2. \A t \in Threads : pc[t] \in MergePCs <=> merging = t
    BY <1>2, EngineAssumption, MergePCsApart DEF MergeInit
  <2>3. 0 \in FileIds
    BY DataFileAssumption DEF FileIds
  <2>4. hint \in Seq([key : Keys, pos : Positions])
    BY DEF MergeInit
  <2>5. scan \in [fid : FileIds, off : Nat]
    BY <2>3 DEF MergeInit, NoScan
  <2> QED
    BY <2>1, <2>2, <2>3, <2>4, <2>5 DEF MergeInit, MergeTypeOK
<1>7. LogLaidOut
  BY DEF EngineInit, LogLaidOut
<1>8. FilesChosen
  BY <1>3, <1>4, <1>5 DEF MergeInit, FilesChosen
<1>9. OthersAreLate
  BY <1>2 DEF MergeInit, OthersAreLate
<1>10. CopySound
  BY <1>5 DEF CopySound
<1>11. CopyBehindScan
  BY <1>3, <1>5 DEF MergeInit, CopyBehindScan
<1> QED
  BY <1>1, <1>6, <1>7, <1>8, <1>9, <1>10, <1>11 DEF MergeInv

(* Every step of the merge and of every other thread preserves the         *)
(* invariant.                                                              *)
LEMMA MergeNextPreserves ==
  ASSUME OldFileReopens
  PROVE  MergeInv /\ [MergeNext]_<<engineVars, batchVars, mergeVars>> => MergeInv'
<1> SUFFICES ASSUME MergeInv, [MergeNext]_<<engineVars, batchVars, mergeVars>> PROVE MergeInv'
  OBVIOUS
<1>1. CASE (BatchNext \/ UNCHANGED <<engineVars, batchVars>>) /\ UNCHANGED mergeVars
  BY <1>1, OthersPreserve
<1>2. ASSUME NEW t \in Threads, MergeStart(t) \/ MergeStep(t)
      PROVE  MergeInv'
  BY <1>2, StartPreserves, LockOlderPreserves, RotatePreserves, ScanPreserves,
     FinishStepsPreserve, WriteFinPreserves DEF MergeStep
<1> QED
  BY <1>1, <1>2 DEF MergeNext

(* The inductive invariant of merge holds whatever other threads put,      *)
(* delete and commit between any two of its steps, whichever call of it    *)
(* fails but the one that opens the file that was active again             *)
(* (ratate_merge_files), and through any number of merges.                 *)
THEOREM MergeInvariant ==
  ASSUME OldFileReopens
  PROVE  MergeSpec => []MergeInv
BY MergeInitSatisfies, MergeNextPreserves, PTL DEF MergeSpec

(* The state of merge is always well typed, and merging_lock is held by    *)
(* exactly the thread inside merge, through every early return.            *)
THEOREM MergeTypeCorrect ==
  ASSUME OldFileReopens
  PROVE  MergeSpec => []MergeTypeOK
<1>1. MergeInv => MergeTypeOK
  BY DEF MergeInv
<1> QED
  BY <1>1, MergeInvariant, PTL

(* A merge never leaves the index of the running engine with an entry that *)
(* points to anything but a put of its key, unless it fails to open the    *)
(* file that was active again: then that file is lost to every reader.     *)
THEOREM IndexSoundDuringMerge ==
  ASSUME OldFileReopens
  PROVE  MergeSpec => []IndexSound
<1>1. MergeInv => IndexSound
  BY DEF MergeInv, BatchCore, CoreInv
<1> QED
  BY <1>1, MergeInvariant, PTL

(* A finished merge loses no key that was settled when its files were      *)
(* chosen: what the index needs of the files the copy replaces is in the   *)
(* copy, and the hint file leads to it; unless a merge, this or an earlier *)
(* one, failed to open the file that was active again.                     *)
THEOREM MergeNeverLosesSettledKeys ==
  ASSUME OldFileReopens
  PROVE  MergeSpec => []MergeKeepsSettledKeys
<1>1. MergeInv => MergeKeepsSettledKeys
  <2> SUFFICES ASSUME MergeInv, NEW k \in Keys \ late, Replaced(index[k])
               PROVE  CopyHolds(k, ValueAt(index[k]))
    BY DEF MergeKeepsSettledKeys
  <2>1. fin >= 0 /\ Chosen /\ index[k].fid \in 0..fin - 1
    BY DEF Replaced, Chosen
  <2>2. PICK g \in mergeFiles :
          /\ \A f \in mergeFiles : f <= g
          /\ \A f \in older \cup {activeId} : f <= g => f \in mergeFiles
    BY <2>1 DEF MergeInv, FilesChosen
  <2>3. fin = g + 1 /\ g \in Nat /\ merging = NoThread
    <3>1. Max(mergeFiles) = g
      BY <2>2, MaxIsLast DEF MergeInv, MergeTypeOK
    <3> QED
      BY <2>1, <3>1, MergeTyped DEF MergeInv, FilesChosen, NonMergeFileId
  <2>4. index[k].fid \in Nat /\ index[k].fid <= g
    BY <2>1, <2>3
  <2>5. index[k] # NoPos
    BY <2>4 DEF NoPos, Pos
  <2>6. PICK v \in Values : Holds(index[k], k, v)
    BY <2>5 DEF MergeInv, BatchCore, CoreInv, IndexSound, Locates
  <2>7. ValueAt(index[k]) = v
    BY <2>6, HeldValue, MergeTyped
  <2>8. PICK e \in disk : /\ PosOf(e) = index[k] /\ e.val = v
                          /\ e.fid = activeId \/ e.fid \in older
    BY <2>6 DEF Holds
  <2>9. e.fid = index[k].fid
    BY <2>8 DEF PosOf, Pos
  <2>10. e.fid \in mergeFiles
    BY <2>2, <2>4, <2>8, <2>9
  <2>11. Passed(e)
    <3>1. ~MergeAt({"merge.scan"})
      BY <2>3, EngineAssumption DEF MergeAt, MergeInv, MergeTypeOK, MergePCs
    <3> QED
      BY <3>1 DEF Passed
  <2>12. CopyHolds(k, e.val)
    BY <2>1, <2>8, <2>10, <2>11 DEF MergeInv, CopySound
  <2> QED
    BY <2>7, <2>8, <2>12
<1> QED
  BY <1>1, MergeInvariant, PTL

(* The copy of a finished merge never has more files than it replaces, and *)
(* it replaces no file that is still written to, if no merge has failed to *)
(* open the file that was active again.                                    *)
THEOREM InstallAlwaysSafe ==
  ASSUME OldFileReopens
  PROVE  MergeSpec => []InstallIsSafe
<1>1. MergeInv => InstallIsSafe
  <2> SUFFICES ASSUME MergeInv, fin >= 0
               PROVE  fin <= activeId /\ \A e \in mergeDisk : e.fid < fin
    BY DEF InstallIsSafe
  <2>1. Chosen
    BY DEF Chosen
  <2>2. PICK g \in mergeFiles : \A f \in mergeFiles : f <= g
    BY <2>1 DEF MergeInv, FilesChosen
  <2>3. fin = g + 1
    <3>1. Max(mergeFiles) = g
      BY <2>2, MaxIsLast DEF MergeInv, MergeTypeOK
    <3> QED
      BY <3>1 DEF MergeInv, FilesChosen, NonMergeFileId
  <2>4. g \in Nat /\ activeId \in Nat /\ g < activeId /\ mergeActive \in Nat
    BY MergeTyped DEF MergeInv, FilesChosen
  <2>5. PICK f \in mergeFiles : mergeActive <= f
    BY <2>1 DEF MergeInv, CopyBehindScan
  <2>6. mergeActive <= g
    BY <2>2, <2>4, <2>5, MergeTyped
  <2>7. ASSUME NEW e \in mergeDisk PROVE e.fid \in Nat /\ e.fid <= mergeActive
    <3>1. e \in Entries /\ FileIds \subseteq Nat
      BY MergeTyped DEF MergeInv, MergeTypeOK
    <3> QED
      BY <3>1 DEF Entries, MergeInv, CopyBehindScan
  <2> QED
    BY <2>3, <2>4, <2>6, <2>7
<1> QED
  BY <1>1, MergeInvariant, PTL
=============================================================================
