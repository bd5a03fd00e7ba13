-------------------------- MODULE WriteBatchProofs --------------------------
(***************************************************************************)
(* Proofs about write batches over the running engine, for every set of    *)
(* threads, keys and values, every option and every I/O failure.           *)
(***************************************************************************)
EXTENDS WriteBatch, EngineProofs, FiniteSetTheorems

(* The HashMap yields every pending key once.                              *)
LEMMA OrderFacts ==
  ASSUME NEW S, NEW n \in Nat, NEW o \in Bijection(1..n, S)
  PROVE  /\ o \in [1..n -> S]
         /\ \A i, j \in 1..n : o[i] = o[j] => i = j
         /\ \A k \in S : \E i \in 1..n : o[i] = k
BY DEF Bijection, Injection, Surjection, IsInjective

(* The order a commit goes through is a sequence of keys.                  *)
LEMMA OrderTyped ==
  ASSUME NEW S \in SUBSET Keys, NEW n \in Nat, NEW o \in Bijection(1..n, S)
  PROVE  o \in Seq(Keys) /\ Len(o) = n
<1>1. o \in [1..n -> Keys]
  BY OrderFacts
<1> QED
  BY <1>1

(* Position and record determine each other.                               *)
LEMMA PosUnique ==
  ASSUME LogWellFormed, NEW d \in disk, NEW e \in disk, PosOf(d) = PosOf(e)
  PROVE  d = e
BY DEF LogWellFormed, PosOf, Pos

(* What is pending can be counted.                                         *)
LEMMA PendingCount ==
  ASSUME PendingSound, NEW t \in Threads
  PROVE  /\ IsFiniteSet(PendingKeys(t))
         /\ Cardinality(PendingKeys(t)) \in Nat
BY FS_CardinalityType DEF PendingSound

(* A batch that has something pending has a record to write.               *)
LEMMA PendingNotEmpty ==
  ASSUME PendingSound, NEW t \in Threads, PendingKeys(t) # {}
  PROVE  Cardinality(PendingKeys(t)) > 0
BY PendingCount, FS_EmptySet

-----------------------------------------------------------------------------
(* The log has grown by nothing, or by a record outside any batch.         *)
PlainGrowth ==
  \/ disk' = disk
  \/ \E new \in Entries :
       /\ disk' = disk \cup {new}
       /\ new.seq \in {NON_TRANSACTION_SEQ_NO, RawSeq}
       /\ new.type # "TxnFinished"
       /\ \A d \in disk : Precedes(d, new)

(* What a file has synced stays synced.                                    *)
SyncedGrowth ==
  \A f \in FileIds : durable'[f] = durable[f] \/ durable'[f] = flen'[f]

(* A record outside any batch belongs to no batch.                         *)
LEMMA PlainEntries ==
  ASSUME PlainGrowth, NEW s \in Nat, s > 0
  PROVE  /\ {e \in disk' : e.seq = s /\ e.type # "TxnFinished"} = BatchEntries(s)
         /\ {e \in disk' : e.seq = s /\ e.type = "TxnFinished"} = Seals(s)
         /\ disk \subseteq disk'
BY DEF PlainGrowth, BatchEntries, Seals, NON_TRANSACTION_SEQ_NO, RawSeq

(* So a commit in progress is not disturbed by it.                         *)
LEMMA CommitUndisturbed ==
  ASSUME NEW t \in Threads, CommitSound(t), BatchShape, PendingSound, PlainGrowth,
         pending'[t] = pending[t], order'[t] = order[t],
         batchSeq'[t] = batchSeq[t], batchPos'[t] = batchPos[t], seqNo' = seqNo,
         pc[t] \in BatchPCs,
         \/ pc'[t] = pc[t]
         \/ pc[t] = "batch.lock" /\ pc'[t] = "batch.write"
         \/ pc[t] = "batch.sync" /\ pc'[t] = "batch.index",
         \/ item'[t] = item[t]
         \/ /\ pc[t] = "batch.index"
            /\ item'[t] \in 1..Cardinality(PendingKeys(t))
  PROVE  CommitSound(t)'
<1> DEFINE s == batchSeq[t]
<1>1. s \in Nat /\ s > 0
  BY DEF CommitSound, BatchShape, NON_TRANSACTION_SEQ_NO
<1>2. /\ {e \in disk' : e.seq = s /\ e.type # "TxnFinished"} = BatchEntries(s)
      /\ {e \in disk' : e.seq = s /\ e.type = "TxnFinished"} = Seals(s)
      /\ disk \subseteq disk'
  BY <1>1, PlainEntries
<1>3. PendingKeys(t)' = PendingKeys(t)
  BY DEF PendingKeys
<1>4. WrittenKeys(t)' = WrittenKeys(t)
  BY <1>3 DEF WrittenKeys, BatchPCs
<1>5. \A e, k : IsRecordOf(e, t, k)' <=> IsRecordOf(e, t, k)
  BY DEF IsRecordOf
<1>6. BatchEntries(batchSeq[t])' = BatchEntries(batchSeq[t])
  BY <1>2 DEF BatchEntries
<1>7. Seals(batchSeq[t])' = Seals(batchSeq[t])
  BY <1>2 DEF Seals
<1>8. /\ item'[t] \in 1..Cardinality(PendingKeys(t)) + 1
      /\ pc'[t] \in {"batch.sync", "batch.index"} => item'[t] <= Cardinality(PendingKeys(t))
  BY PendingCount DEF CommitSound, BatchPCs
<1> QED
  BY <1>2, <1>3, <1>4, <1>5, <1>6, <1>7, <1>8 DEF CommitSound, BatchPCs

(* Nor are the seals and the order of the batches in the log.              *)
LEMMA LogOrderUndisturbed ==
  ASSUME CoreTypeOK, SeqNosDrawn, SealsFollow, BatchesSerial, PlainGrowth,
         seqNo \in Nat \ {0}, seqNo' \in Nat, seqNo' >= seqNo
  PROVE  SeqNosDrawn' /\ SealsFollow' /\ BatchesSerial'
<1> USE DEF NON_TRANSACTION_SEQ_NO, RawSeq
<1>1. \A e \in disk : e.seq \in Int
  BY DEF CoreTypeOK, Entries
<1>2. CASE disk' = disk
  BY <1>1, <1>2 DEF SeqNosDrawn, SealsFollow, BatchesSerial, BatchEntries
<1>3. ASSUME NEW new \in Entries,
             disk' = disk \cup {new},
             new.seq \in {NON_TRANSACTION_SEQ_NO, RawSeq},
             new.type # "TxnFinished",
             \A d \in disk : Precedes(d, new)
      PROVE  SeqNosDrawn' /\ SealsFollow' /\ BatchesSerial'
  <2>1. SeqNosDrawn'
    BY <1>1, <1>3 DEF SeqNosDrawn
  <2>2. SealsFollow'
    BY <1>1, <1>3 DEF SealsFollow, BatchEntries, SeqNosDrawn
  <2>3. BatchesSerial'
    BY <1>1, <1>3 DEF BatchesSerial
  <2> QED
    BY <2>1, <2>2, <2>3
<1> QED
  BY <1>2, <1>3 DEF PlainGrowth

(* A batch that is durable stays durable.                                  *)
LEMMA DurabilityUndisturbed ==
  ASSUME CoreTypeOK, LogWellFormed', BatchShape, SealedBatchDurable, PlainGrowth, SyncedGrowth,
         \A t \in Threads : pc'[t] = "batch.index" =>
           pc[t] = "batch.index" /\ batchSeq'[t] = batchSeq[t] /\ batchSeq[t] > 0
  PROVE  SealedBatchDurable'
<1> SUFFICES ASSUME BatchSyncWrites, NEW t \in Threads, pc'[t] = "batch.index",
                    NEW e \in disk', e.seq = batchSeq'[t]
             PROVE  EndOf(e) <= durable'[e.fid]
  BY DEF SealedBatchDurable, EndOf
<1>1. batchSeq'[t] = batchSeq[t] /\ batchSeq[t] > 0 /\ batchSeq[t] \in Nat
  BY DEF BatchShape
<1>2. e \in disk
  BY <1>1 DEF PlainGrowth, NON_TRANSACTION_SEQ_NO, RawSeq
<1>3. EndOf(e) <= durable[e.fid] /\ e.fid \in FileIds
  BY <1>1, <1>2 DEF SealedBatchDurable, CoreTypeOK, Entries
<1>4. EndOf(e) <= flen'[e.fid]
  BY DEF LogWellFormed, EndOf
<1> QED
  BY <1>3, <1>4 DEF SyncedGrowth

(* An index that has not moved names sealed batches only.                  *)
LEMMA SealedUndisturbed ==
  ASSUME CoreInv, LogWellFormed', IndexedBatchesSealed, BatchShape, PlainGrowth,
         NEW k \in Keys, index'[k] = index[k], NEW e \in disk',
         index'[k] = PosOf(e), e.seq > NON_TRANSACTION_SEQ_NO
  PROVE  {f \in disk' : f.seq = e.seq /\ f.type = "TxnFinished"} # {}
<1>1. e \in disk
  BY DEF PlainGrowth, NON_TRANSACTION_SEQ_NO, RawSeq
<1>2. Seals(e.seq) # {}
  BY <1>1 DEF IndexedBatchesSealed
<1>3. disk \subseteq disk'
  BY DEF PlainGrowth
<1> QED
  BY <1>2, <1>3 DEF Seals

(* Positions are those of records: NoPos names none.                       *)
LEMMA NoPosNamesNothing ==
  ASSUME NEW e \in Entries
  PROVE  PosOf(e) # NoPos /\ PosOf(e).fid = e.fid
BY DataFileAssumption DEF PosOf, NoPos, Pos, Entries, FileIds

(* A record that Engine::put or Engine::delete appends is of no batch.     *)
LEMMA EngineStepIsPlain ==
  ASSUME BatchCore, NEW t \in Threads, EngineCall(t) \/ EngineStep(t)
  PROVE  PlainGrowth /\ SyncedGrowth
<1> USE DEF BatchCore, CoreInv
<1>1. ASSUME NEW out \in Outcomes, AppendLogRecord(t, rec[t], out),
             pc[t] \in {"put.write", "del.write"}
      PROVE  PlainGrowth /\ SyncedGrowth
  <2>1. /\ rec[t] \in LogRecord
        /\ rec[t].seq \in {NON_TRANSACTION_SEQ_NO, RawSeq}
        /\ rec[t].type # "TxnFinished"
    BY <1>1 DEF CoreTypeOK, InFlightSound, PlainPuts
  <2>2. SyncedGrowth
    BY <1>1, <2>1, AppendFollows DEF SyncedGrowth
  <2>3. PlainGrowth
    BY <1>1, <2>1, AppendFollows DEF PlainGrowth
  <2> QED
    BY <2>2, <2>3
<1>2. ASSUME UNCHANGED disk,
             \A f \in FileIds : durable'[f] = durable[f] \/ durable'[f] = flen'[f]
      PROVE  PlainGrowth /\ SyncedGrowth
  BY <1>2 DEF PlainGrowth, SyncedGrowth
<1> QED
  BY <1>1, <1>2, EngineStepEffect

(* What a plain put has in hand stays a record of no batch.                *)
LEMMA PlainPutsKept ==
  ASSUME BatchCore, NEW t \in Threads, EngineCall(t) \/ EngineStep(t)
  PROVE  PlainPuts'
<1> USE DEF BatchCore, CoreInv
<1>1. disk \subseteq disk'
  BY EngineStepIsPlain DEF PlainGrowth
<1> DEFINE Kept(u) ==
      /\ pc'[u] \in {"put.lock", "put.write"} => rec'[u].seq = NON_TRANSACTION_SEQ_NO
      /\ pc'[u] \in {"del.lock", "del.write"} => rec'[u].seq = RawSeq
      /\ pc'[u] \in {"put.index", "put.insert"} =>
           \E e \in disk' : PosOf(e) = pos'[u] /\ e.seq = NON_TRANSACTION_SEQ_NO
<1>2. SUFFICES ASSUME NEW u \in Threads PROVE Kept(u)
  BY DEF PlainPuts, PosOf
<1>3. ASSUME u # t, rec'[u] = rec[u], pos'[u] = pos[u], pc'[u] = pc[u]
      PROVE  Kept(u)
  BY <1>1, <1>3 DEF PlainPuts
<1>4. CASE u # t
  <2>1. pc'[u] = pc[u]
    BY <1>4, EngineStepPC
  <2>2. rec'[u] = rec[u] /\ pos'[u] = pos[u]
    BY <1>4 DEF CoreTypeOK, EngineCall, EngineStep, PutIndex, PutStart, DeleteStart, GetStart, Sync,
         PutLock, PutWrite, TreePut, SkipListGet, SkipListRemove, SkipListInsert, DeleteLock,
         DeleteWrite, DeleteIndex, GetLock, GetRead, GetReturn, AppendLogRecord, threadVars
  <2> QED
    BY <1>3, <1>4, <2>1, <2>2
<1>5. CASE u = t
  <2> USE <1>5 DEF Goto
  <2>1. ASSUME NEW k \in Keys, NEW v \in Values, PutStart(t, k, v) \/ DeleteStart(t, k)
        PROVE  Kept(t)
    BY <2>1 DEF PutStart, DeleteStart, CoreTypeOK, Rec
  <2>2. CASE PutLock(t) \/ DeleteLock(t) \/ SkipListGet(t) \/ SkipListRemove(t)
    <3>1. rec'[t] = rec[t] /\ pos'[t] = pos[t] /\ disk' = disk
      BY <2>2 DEF PutLock, DeleteLock, SkipListGet, SkipListRemove, threadVars, diskVars
    <3> QED
      BY <2>2, <3>1
      DEF PutLock, DeleteLock, SkipListGet, SkipListRemove, CoreTypeOK, PlainPuts
  <2>3. ASSUME NEW out \in Outcomes, PutWrite(t, out)
        PROVE  Kept(t)
    <3>1. CASE out # "ok"
      BY <2>3, <3>1 DEF PutWrite, CoreTypeOK
    <3>2. CASE out = "ok"
      <4>1. rec[t] \in LogRecord /\ rec[t].seq = NON_TRANSACTION_SEQ_NO /\ pc'[t] = "put.index"
        BY <2>3, <3>2 DEF PutWrite, CoreTypeOK, PlainPuts
      <4>2. \E e \in disk' : PosOf(e) = pos'[t] /\ e.seq = NON_TRANSACTION_SEQ_NO
        BY <2>3, <3>2, <4>1, AppendFollows DEF PutWrite
      <4> QED
        BY <4>1, <4>2
    <3> QED
      BY <3>1, <3>2
  <2>4. ASSUME \/ \E k \in Keys : GetStart(t, k)
               \/ Sync(t) \/ TreePut(t) \/ SkipListInsert(t) \/ DeleteIndex(t)
               \/ GetLock(t) \/ (\E out \in ReadOutcomes : GetRead(t, out)) \/ GetReturn(t)
               \/ \E out \in Outcomes : DeleteWrite(t, out)
        PROVE  Kept(t)
    BY <2>4 DEF GetStart, Sync, TreePut, SkipListInsert, DeleteIndex, GetLock, GetRead, GetReturn,
                DeleteWrite, CoreTypeOK
  <2>5. EmptyValue \in Values
    BY DataFileAssumption
  <2> QED
    BY <2>1, <2>2, <2>3, <2>4, <2>5 DEF EngineCall, EngineStep, PutIndex
<1> QED
  BY <1>4, <1>5

(* A plain put or delete moves an index entry to a record of no batch or   *)
(* takes it away.                                                          *)
LEMMA IndexedStaySealed ==
  ASSUME BatchCore, CoreInv', NEW t \in Threads, EngineCall(t) \/ EngineStep(t)
  PROVE  IndexedBatchesSealed'
<1> USE DEF BatchCore, CoreInv
<1>1. PlainGrowth /\ disk \subseteq disk'
  BY EngineStepIsPlain DEF PlainGrowth
<1>2. SUFFICES ASSUME NEW k \in Keys, NEW e \in disk',
                      index'[k] = PosOf(e), e.seq > NON_TRANSACTION_SEQ_NO
               PROVE  {f \in disk' : f.seq = e.seq /\ f.type = "TxnFinished"} # {}
  BY DEF IndexedBatchesSealed, Seals, PosOf
<1>3. CASE index'[k] = index[k]
  BY <1>1, <1>2, <1>3, SealedUndisturbed
<1>4. CASE pc[t] \in {"put.index", "put.insert"} /\ index'[k] = pos[t]
  <2>1. PICK d \in disk : PosOf(d) = pos[t] /\ d.seq = NON_TRANSACTION_SEQ_NO
    BY <1>4 DEF PlainPuts
  <2>2. d \in disk' /\ d.fid = e.fid /\ d.off = e.off
    BY <1>1, <1>2, <1>4, <2>1 DEF PosOf, Pos
  <2>3. d = e
    BY <2>2 DEF LogWellFormed
  <2> QED
    BY <1>2, <2>1, <2>3 DEF NON_TRANSACTION_SEQ_NO
<1>5. CASE index'[k] = NoPos
  BY <1>2, <1>5, NoPosNamesNothing DEF CoreTypeOK
<1> QED
  BY <1>3, <1>4, <1>5, EngineStepEffect DEF CoreTypeOK

(* Puts, gets, deletes and syncs of any thread preserve the invariant.     *)
LEMMA EngineStepsKeepBatches ==
  ASSUME BatchCore, NEW t \in Threads, EngineCall(t) \/ EngineStep(t), UNCHANGED batchVars
  PROVE  BatchCore'
<1> USE DEF batchVars
<1>1. CoreInv'
  BY EngineStepPreserves DEF BatchCore
<1>2. PlainGrowth /\ SyncedGrowth
  BY EngineStepIsPlain
<1>3. /\ pc[t] \in EnginePCs /\ pc'[t] \in EnginePCs
      /\ \A u \in Threads : u # t => pc'[u] = pc[u]
      /\ pc' = [u \in Threads |-> pc'[u]]
  BY EngineStepPC DEF BatchCore, CoreInv
<1>4. \A u \in Threads : pc[u] \in BatchPCs \/ pc'[u] \in BatchPCs => pc'[u] = pc[u]
  BY <1>3 DEF EnginePCs, BatchPCs
<1>5. BatchShape'
  BY <1>3 DEF BatchCore, BatchShape
<1>6. CommitsExclude'
  BY <1>4 DEF BatchCore, CommitsExclude
<1>7. PendingSound'
  BY DEF BatchCore, PendingSound, PendingKeys
<1>8. SeqNosDrawn' /\ SealsFollow' /\ BatchesSerial'
  BY <1>2, LogOrderUndisturbed DEF BatchCore, CoreInv, BatchShape
<1>9. PlainPuts'
  BY PlainPutsKept
<1>10. ASSUME NEW u \in Threads, pc'[u] \in BatchPCs
       PROVE  CommitSound(u)'
  <2>1. pc'[u] = pc[u] /\ CommitSound(u)
    BY <1>4, <1>10 DEF BatchCore
  <2>2. /\ pending'[u] = pending[u] /\ order'[u] = order[u] /\ item'[u] = item[u]
        /\ batchSeq'[u] = batchSeq[u] /\ batchPos'[u] = batchPos[u] /\ seqNo' = seqNo
        /\ pc[u] \in BatchPCs /\ pc'[u] = pc[u]
    BY <1>10, <2>1
  <2> QED
    BY <1>2, <1>10, <2>1, <2>2, CommitUndisturbed DEF BatchCore
<1>11. IndexedBatchesSealed'
  BY <1>1, IndexedStaySealed
<1>12. SealedBatchDurable'
  <2>1. \A u \in Threads : pc'[u] = "batch.index" =>
          pc[u] = "batch.index" /\ batchSeq'[u] = batchSeq[u] /\ batchSeq[u] > 0
    BY <1>4 DEF BatchCore, BatchPCs, CommitSound, NON_TRANSACTION_SEQ_NO
  <2> QED
    BY <1>1, <1>2, <2>1, DurabilityUndisturbed DEF BatchCore, CoreInv
<1> QED
  BY <1>1, <1>5, <1>6, <1>7, <1>8, <1>9, <1>10, <1>11, <1>12 DEF BatchCore

-----------------------------------------------------------------------------
(* What is pending is a record of its key.                                 *)
LEMMA PendingRecord ==
  ASSUME NEW k \in Keys, NEW v \in Values, NEW ty \in {"Normal", "Delete"}
  PROVE  /\ Rec(k, RawSeq, v, ty) \in LogRecord
         /\ Rec(k, RawSeq, v, ty) # NoRec
         /\ Rec(k, RawSeq, v, ty).key = k
         /\ Rec(k, RawSeq, v, ty).seq = RawSeq
         /\ Rec(k, RawSeq, v, ty).type = ty
BY DEF Rec, NoRec, LogRecord, RawSeq, RecordTypes, NON_TRANSACTION_SEQ_NO

(* One more key pending, or one less, keeps what is pending finite.        *)
LEMMA PendingChange ==
  ASSUME BatchCore, NEW t \in Threads, NEW k \in Keys, NEW r,
         r = NoRec \/ \E v \in Values, ty \in {"Normal", "Delete"} : r = Rec(k, RawSeq, v, ty),
         pending' = [pending EXCEPT ![t][k] = r]
  PROVE  pending' \in [Threads -> [Keys -> LogRecord]] /\ PendingSound'
<1> USE DEF BatchCore
<1>1. /\ r \in LogRecord
      /\ r # NoRec => r.key = k /\ r.seq = RawSeq /\ r.type \in {"Normal", "Delete"}
  BY PendingRecord, NoRecTyped
<1>2. pending \in [Threads -> [Keys -> LogRecord]]
  BY DEF BatchShape
<1>3. pending' \in [Threads -> [Keys -> LogRecord]]
  BY <1>1, <1>2
<1>4. ASSUME NEW u \in Threads
      PROVE  /\ IsFiniteSet(PendingKeys(u)')
             /\ \A j \in PendingKeys(u)' :
                  /\ pending'[u][j].key = j
                  /\ pending'[u][j].seq = RawSeq
                  /\ pending'[u][j].type \in {"Normal", "Delete"}
  <2>1. CASE u # t
    <3>1. pending'[u] = pending[u]
      BY <1>2, <2>1
    <3>2. PendingKeys(u)' = PendingKeys(u)
      BY <3>1 DEF PendingKeys
    <3> QED
      BY <3>1, <3>2 DEF PendingSound
  <2>2. CASE u = t
    <3>1. \A j \in Keys : pending'[t][j] = IF j = k THEN r ELSE pending[t][j]
      BY <1>2
    <3>2. PendingKeys(t)' \subseteq PendingKeys(t) \cup {k}
      BY <3>1 DEF PendingKeys
    <3>3. IsFiniteSet(PendingKeys(t) \cup {k})
      BY FS_AddElement DEF PendingSound
    <3>4. IsFiniteSet(PendingKeys(t)')
      BY <3>2, <3>3, FS_Subset
    <3>5. ASSUME NEW j \in PendingKeys(t)'
          PROVE  /\ pending'[t][j].key = j
                 /\ pending'[t][j].seq = RawSeq
                 /\ pending'[t][j].type \in {"Normal", "Delete"}
      <4>1. j \in Keys /\ pending'[t][j] # NoRec
        BY DEF PendingKeys
      <4>2. CASE j = k
        BY <1>1, <3>1, <4>1, <4>2
      <4>3. CASE j # k
        <5>1. pending'[t][j] = pending[t][j] /\ j \in PendingKeys(t)
          BY <3>1, <4>1, <4>3 DEF PendingKeys
        <5> QED
          BY <5>1 DEF PendingSound
      <4> QED
        BY <4>2, <4>3
    <3> QED
      BY <2>2, <3>4, <3>5
  <2> QED
    BY <2>1, <2>2
<1> QED
  BY <1>3, <1>4 DEF PendingSound

(* A step that touches neither the log nor the index, and leaves every     *)
(* commit where it is, keeps what is known of the log.                     *)
LEMMA QuietBatchStep ==
  ASSUME BatchCore, UNCHANGED <<disk, index>>, seqNo' \in Nat, seqNo' >= seqNo
  PROVE  /\ PlainGrowth
         /\ SeqNosDrawn' /\ SealsFollow' /\ BatchesSerial'
         /\ IndexedBatchesSealed'
<1>1. PlainGrowth
  BY DEF PlainGrowth
<1>2. SeqNosDrawn' /\ SealsFollow' /\ BatchesSerial'
  BY <1>1, LogOrderUndisturbed DEF BatchCore, CoreInv, BatchShape
<1>3. IndexedBatchesSealed'
  BY DEF BatchCore, IndexedBatchesSealed, Seals
<1> QED
  BY <1>1, <1>2, <1>3

(* WriteBatch::put and WriteBatch::delete preserve the invariant.          *)
LEMMA PendingStepsPreserve ==
  ASSUME BatchCore, NEW t \in Threads, NEW k \in Keys,
         \/ \E v \in Values : BatchPut(t, k, v)
         \/ \E out \in ReadOutcomes : BatchDelete(t, k, out)
  PROVE  BatchCore'
<1>1. PICK r : /\ r = NoRec \/ \E v \in Values, ty \in {"Normal", "Delete"} :
                                r = Rec(k, RawSeq, v, ty)
               /\ pending' = [pending EXCEPT ![t][k] = r]
  BY DataFileAssumption DEF BatchPut, BatchDelete
<1>2. /\ pc[t] = "idle" /\ quota > 0 /\ quota' = quota - 1
      /\ UNCHANGED <<diskVars, fileVars, indexVars, lockVars, threadVars, pc,
                     batchLock, seqNo, commitVars>>
  BY DEF BatchPut, BatchDelete
<1>3. pending' \in [Threads -> [Keys -> LogRecord]] /\ PendingSound'
  BY <1>1, PendingChange
<1>4. CoreInv'
  <2>1. CoreTypeOK'
    BY <1>2 DEF BatchCore, CoreInv, CoreTypeOK, diskVars, fileVars, indexVars, lockVars, threadVars
  <2>2. LogWellFormed' /\ OlderFilesDurable' /\ PositionsStable
    BY <1>2, QuietStep DEF BatchCore, CoreInv
  <2>3. IndexSound'
    BY <1>2, <2>2, IndexKept DEF BatchCore, CoreInv, indexVars
  <2> QED
    BY <1>2, <2>1, <2>2, <2>3, OtherStepPreserves DEF BatchCore, EnginePCs, threadVars
<1>5. BatchShape'
  BY <1>2, <1>3 DEF BatchCore, BatchShape, commitVars
<1>6. CommitsExclude'
  BY <1>2 DEF BatchCore, CommitsExclude
<1>7. /\ PlainGrowth
      /\ SeqNosDrawn' /\ SealsFollow' /\ BatchesSerial'
      /\ IndexedBatchesSealed'
  BY <1>2, QuietBatchStep DEF BatchCore, BatchShape, diskVars, indexVars
<1>8. PlainPuts'
  BY <1>2 DEF BatchCore, PlainPuts, diskVars, threadVars
<1>9. ASSUME NEW u \in Threads, pc'[u] \in BatchPCs
      PROVE  CommitSound(u)'
  <2>1. u # t /\ pc'[u] = pc[u]
    BY <1>2, <1>9 DEF BatchPCs
  <2>2. pending'[u] = pending[u]
    BY <1>1, <2>1 DEF BatchCore, BatchShape
  <2>3. CommitSound(u)
    BY <1>9, <2>1 DEF BatchCore
  <2>4. /\ order'[u] = order[u] /\ item'[u] = item[u]
        /\ batchSeq'[u] = batchSeq[u] /\ batchPos'[u] = batchPos[u] /\ seqNo' = seqNo
        /\ pc[u] \in BatchPCs /\ pc'[u] = pc[u]
    BY <1>2, <1>9, <2>1 DEF commitVars
  <2> QED
    BY <1>7, <1>9, <2>2, <2>3, <2>4, CommitUndisturbed DEF BatchCore
<1>10. SealedBatchDurable'
  BY <1>2 DEF BatchCore, SealedBatchDurable, EndOf, diskVars, commitVars
<1> QED
  BY <1>3, <1>4, <1>5, <1>6, <1>7, <1>8, <1>9, <1>10 DEF BatchCore

(* The start of a commit preserves the invariant: its sequence number is   *)
(* on no record yet.                                                       *)
LEMMA CommitStartPreserves ==
  ASSUME BatchCore, NEW t \in Threads, CommitStart(t)
  PROVE  BatchCore'
<1> DEFINE n == Cardinality(PendingKeys(t))
<1>1. /\ pc[t] = "idle" /\ pc' = [pc EXCEPT ![t] = "batch.lock"]
      /\ batchLock = NoThread /\ batchLock' = t
      /\ PendingKeys(t) # {}
      /\ batchSeq' = [batchSeq EXCEPT ![t] = seqNo]
      /\ seqNo' = seqNo + 1
      /\ item' = [item EXCEPT ![t] = 1]
      /\ UNCHANGED <<diskVars, fileVars, indexVars, lockVars, threadVars, quota, pending, batchPos>>
  BY DEF CommitStart, Goto
<1>2. PICK o \in Bijection(1..n, PendingKeys(t)) : order' = [order EXCEPT ![t] = o]
  BY DEF CommitStart
<1>3. n \in Nat /\ n > 0
  BY <1>1, PendingCount, PendingNotEmpty DEF BatchCore
<1>4. /\ pc' = [u \in Threads |-> pc'[u]] /\ pc'[t] = "batch.lock"
      /\ \A u \in Threads : u # t => pc'[u] = pc[u]
  BY <1>1, PCMoves DEF BatchCore, CoreInv
<1>5. CoreInv'
  <2>1. CoreTypeOK'
    BY <1>1, <1>4 DEF BatchCore, CoreInv, CoreTypeOK, diskVars, fileVars, indexVars, lockVars, threadVars
  <2>2. LogWellFormed' /\ OlderFilesDurable' /\ PositionsStable
    BY <1>1, QuietStep DEF BatchCore, CoreInv
  <2>3. IndexSound'
    BY <1>1, <2>2, IndexKept DEF BatchCore, CoreInv, indexVars
  <2> QED
    BY <1>1, <1>4, <2>1, <2>2, <2>3, OtherStepPreserves DEF BatchCore, EnginePCs, threadVars
<1>6. BatchShape'
  <2>1. o \in Seq(Keys) /\ Len(o) = n
    BY <1>3, OrderTyped DEF PendingKeys
  <2>2. ASSUME NEW u \in Threads
        PROVE  order'[u] \in Seq(Keys) /\ item'[u] \in Nat /\ item'[u] <= Len(order'[u]) + 1
    BY <1>1, <1>2, <1>3, <2>1 DEF BatchCore, BatchShape
  <2>3. order' \in [Threads -> Seq(Keys)] /\ item' \in [Threads -> Nat]
    BY <1>1, <1>2, <2>1 DEF BatchCore, BatchShape
  <2>4. /\ batchLock' \in Threads \cup {NoThread} /\ seqNo' \in Nat \ {0}
        /\ batchSeq' \in [Threads -> Nat]
    BY <1>1 DEF BatchCore, BatchShape
  <2> QED
    BY <1>1, <2>2, <2>3, <2>4 DEF BatchCore, BatchShape
<1>7. CommitsExclude'
  BY <1>1, <1>4, EngineAssumption DEF BatchCore, CommitsExclude, BatchPCs
<1>8. PendingSound'
  BY <1>1 DEF BatchCore, PendingSound, PendingKeys
<1>9. /\ PlainGrowth
      /\ SeqNosDrawn' /\ SealsFollow' /\ BatchesSerial'
      /\ IndexedBatchesSealed'
  BY <1>1, QuietBatchStep DEF BatchCore, BatchShape, diskVars, indexVars
<1>10. PlainPuts'
  BY <1>1, <1>4 DEF BatchCore, PlainPuts, diskVars, threadVars
<1>11. ASSUME NEW u \in Threads, pc'[u] \in BatchPCs
       PROVE  CommitSound(u)'
  <2>1. u = t
    BY <1>1, <1>4, <1>11, EngineAssumption DEF BatchCore, CommitsExclude
  <2>2. order'[t] = o /\ item'[t] = 1 /\ batchSeq'[t] = seqNo
    BY <1>1, <1>2 DEF BatchCore, BatchShape
  <2>3. PendingKeys(t)' = PendingKeys(t)
    BY <1>1 DEF PendingKeys
  <2>4. WrittenKeys(t)' = {}
    BY <1>4, <2>2 DEF WrittenKeys
  <2>5. BatchEntries(batchSeq[t])' = {} /\ Seals(batchSeq[t])' = {}
    <3>1. \A e \in disk : e.seq \in Int /\ e.seq < seqNo
      BY DEF BatchCore, SeqNosDrawn, CoreInv, CoreTypeOK, Entries, RawSeq
    <3>2. disk' = disk /\ seqNo \in Nat
      BY <1>1 DEF BatchCore, BatchShape, diskVars
    <3>3. \A e \in disk' : e.seq # batchSeq'[t]
      BY <2>2, <3>1, <3>2
    <3> QED
      BY <3>3 DEF BatchEntries, Seals
  <2>6. seqNo \in Nat /\ seqNo > 0
    BY DEF BatchCore, BatchShape
  <2> QED
    BY <1>1, <1>3, <1>4, <2>1, <2>2, <2>3, <2>4, <2>5, <2>6
    DEF CommitSound, NON_TRANSACTION_SEQ_NO
<1>12. SealedBatchDurable'
  <2>1. \A u \in Threads : pc'[u] # "batch.index"
    BY <1>1, <1>4, EngineAssumption DEF BatchCore, CommitsExclude, BatchPCs
  <2> QED
    BY <2>1 DEF SealedBatchDurable
<1> QED
  BY <1>5, <1>6, <1>7, <1>8, <1>9, <1>10, <1>11, <1>12 DEF BatchCore

(* Only the thread that holds batch_commit_lock is in a commit.            *)
LEMMA OneCommit ==
  ASSUME CommitsExclude, NEW t \in Threads, pc[t] \in BatchPCs
  PROVE  batchLock = t /\ \A u \in Threads : u # t => pc[u] \notin BatchPCs
BY DEF CommitsExclude

(* Taking active_file for the next record preserves the invariant.         *)
LEMMA BatchLockPreserves ==
  ASSUME BatchCore, NEW t \in Threads, BatchLock(t)
  PROVE  BatchCore'
<1>1. /\ pc[t] = "batch.lock" /\ pc' = [pc EXCEPT ![t] = "batch.write"]
      /\ activeW' = t
      /\ UNCHANGED <<diskVars, fileVars, indexVars, activeR, olderW, threadVars, quota, batchVars>>
  BY DEF BatchLock, Goto, LockActive
<1>2. /\ pc' = [u \in Threads |-> pc'[u]] /\ pc'[t] = "batch.write"
      /\ \A u \in Threads : u # t => pc'[u] = pc[u]
  BY <1>1, PCMoves DEF BatchCore, CoreInv
<1>3. CoreInv'
  <2>1. CoreTypeOK'
    BY <1>1, <1>2 DEF BatchCore, CoreInv, CoreTypeOK, diskVars, fileVars, indexVars, threadVars
  <2>2. LogWellFormed' /\ OlderFilesDurable' /\ PositionsStable
    BY <1>1, QuietStep DEF BatchCore, CoreInv
  <2>3. IndexSound'
    BY <1>1, <2>2, IndexKept DEF BatchCore, CoreInv, indexVars
  <2> QED
    BY <1>1, <1>2, <2>1, <2>2, <2>3, OtherStepPreserves DEF BatchCore, EnginePCs, threadVars
<1>4. BatchShape'
  BY <1>1 DEF BatchCore, BatchShape, BatchPCs, batchVars
<1>5. CommitsExclude'
  BY <1>1, <1>2 DEF BatchCore, CommitsExclude, BatchPCs, batchVars
<1>6. PendingSound'
  BY <1>1 DEF BatchCore, PendingSound, PendingKeys, batchVars
<1>7. /\ PlainGrowth
      /\ SeqNosDrawn' /\ SealsFollow' /\ BatchesSerial'
      /\ IndexedBatchesSealed'
  BY <1>1, QuietBatchStep DEF BatchCore, BatchShape, diskVars, indexVars, batchVars
<1>8. PlainPuts'
  BY <1>1, <1>2 DEF BatchCore, PlainPuts, diskVars, threadVars
<1>9. ASSUME NEW u \in Threads, pc'[u] \in BatchPCs
      PROVE  CommitSound(u)'
  <2>1. u = t
    BY <1>1, <1>2, <1>9, OneCommit DEF BatchCore, BatchPCs
  <2>2. CommitSound(t) /\ pc[t] \in BatchPCs
    BY <1>1 DEF BatchCore, BatchPCs
  <2> QED
    BY <1>1, <1>2, <1>7, <2>1, <2>2, CommitUndisturbed DEF BatchCore, batchVars
<1>10. SealedBatchDurable'
  BY <1>1, <1>2 DEF BatchCore, SealedBatchDurable, EndOf, diskVars, batchVars
<1> QED
  BY <1>3, <1>4, <1>5, <1>6, <1>7, <1>8, <1>9, <1>10 DEF BatchCore

(* A commit that ends, with or without success, leaves nothing behind but  *)
(* what is pending.                                                        *)
LEMMA EndCommitTyped ==
  ASSUME CoreTypeOK, BatchShape, CommitsExclude, NEW t \in Threads, pc[t] \in BatchPCs,
         pc' = [pc EXCEPT ![t] = "idle"], EndCommit(t),
         pending' \in [Threads -> [Keys -> LogRecord]], seqNo' = seqNo
  PROVE  BatchShape' /\ CommitsExclude' /\ \A u \in Threads : pc'[u] \notin BatchPCs
<1>1. \A u \in Threads : pc'[u] \notin BatchPCs
  BY OneCommit, PCMoves DEF BatchPCs
<1>2. /\ batchLock' = NoThread /\ batchSeq' \in [Threads -> Nat]
      /\ order' \in [Threads -> Seq(Keys)] /\ item' \in [Threads -> Nat]
      /\ batchPos' \in [Threads -> [Keys -> MaybePositions]]
  BY DEF EndCommit, BatchShape, NoPositions, MaybePositions
<1>3. ASSUME NEW u \in Threads
      PROVE  item'[u] <= Len(order'[u]) + 1
  BY DEF EndCommit, BatchShape
<1>4. BatchShape'
  BY <1>2, <1>3 DEF BatchShape
<1>5. CommitsExclude'
  BY <1>1, <1>2, EngineAssumption DEF CommitsExclude
<1> QED
  BY <1>1, <1>4, <1>5

(* The sync inside commit preserves the invariant: whatever file each      *)
(* record of the batch is in, it is durable afterwards.                    *)
LEMMA BatchSyncPreserves ==
  ASSUME BatchCore, NEW t \in Threads, NEW out \in {"ok", "sync"}, BatchSync(t, out)
  PROVE  BatchCore'
<1> DEFINE to == IF out = "ok" THEN "batch.index" ELSE "idle"
<1>1. /\ pc[t] = "batch.sync" /\ pc' = [pc EXCEPT ![t] = to]
      /\ IF out = "ok"
         THEN /\ durable' = SyncFiles({activeId}, flen)
              /\ UNCHANGED <<batchLock, commitVars, pos>>
         ELSE EndCommit(t) /\ UNCHANGED durable
      /\ UNCHANGED <<disk, flen, fileVars, indexVars, lockVars, rec, old, got, quota,
                     pending, seqNo>>
  BY DEF BatchSync, Goto
<1>2. /\ pc' = [u \in Threads |-> pc'[u]] /\ pc'[t] = to
      /\ \A u \in Threads : u # t => pc'[u] = pc[u]
  BY <1>1, PCMoves DEF BatchCore, CoreInv
<1>3. pc[t] \in BatchPCs
  BY <1>1 DEF BatchPCs
<1>4. CoreInv'
  <2>1. pos' \in [Threads -> MaybePositions] /\ \A u \in Threads : u # t => pos'[u] = pos[u]
    BY <1>1 DEF BatchCore, CoreInv, CoreTypeOK, EndCommit, MaybePositions
  <2>2. durable' \in [FileIds -> Nat]
    BY <1>1 DEF BatchCore, CoreInv, CoreTypeOK, SyncFiles
  <2>3. CoreTypeOK'
    BY <1>1, <1>2, <2>1, <2>2 DEF BatchCore, CoreInv, CoreTypeOK, fileVars, indexVars, lockVars
  <2>4. LogWellFormed'
    BY <1>1 DEF BatchCore, CoreInv, LogWellFormed, EndOf, fileVars
  <2>5. PositionsStable
    BY <1>1, GrowingFilesKeepPositions DEF fileVars
  <2>6. IndexSound'
    BY <1>1, <2>5, IndexKept DEF BatchCore, CoreInv, indexVars
  <2>7. OlderFilesDurable'
    BY <1>1 DEF BatchCore, CoreInv, CoreTypeOK, OlderFilesDurable, SyncFiles, fileVars
  <2> QED
    BY <1>1, <1>2, <2>1, <2>3, <2>4, <2>5, <2>6, <2>7, OtherStepPreserves
    DEF BatchCore, EnginePCs
<1>5. /\ PlainGrowth
      /\ SeqNosDrawn' /\ SealsFollow' /\ BatchesSerial'
      /\ IndexedBatchesSealed'
  BY <1>1, QuietBatchStep DEF BatchCore, BatchShape, indexVars
<1>6. PendingSound'
  BY <1>1 DEF BatchCore, PendingSound, PendingKeys
<1>7. PlainPuts'
  <2>1. \A u \in Threads : u # t => pos'[u] = pos[u]
    BY <1>1 DEF EndCommit, BatchCore, CoreInv, CoreTypeOK
  <2> QED
    BY <1>1, <1>2, <2>1 DEF BatchCore, PlainPuts
<1>8. CASE out = "ok"
  <2>1. BatchShape'
    BY <1>1, <1>8 DEF BatchCore, BatchShape, BatchPCs, commitVars
  <2>2. CommitsExclude'
    BY <1>1, <1>2, <1>8 DEF BatchCore, CommitsExclude, BatchPCs
  <2>3. ASSUME NEW u \in Threads, pc'[u] \in BatchPCs
        PROVE  u = t
    BY <1>2, <1>3, <2>3, OneCommit DEF BatchCore
  <2>4. CommitSound(t)'
    <3>1. CommitSound(t) /\ pc'[t] = "batch.index"
      BY <1>2, <1>3, <1>8 DEF BatchCore
    <3>2. /\ pending'[t] = pending[t] /\ order'[t] = order[t] /\ item'[t] = item[t]
          /\ batchSeq'[t] = batchSeq[t] /\ batchPos'[t] = batchPos[t] /\ seqNo' = seqNo
      BY <1>1, <1>8 DEF commitVars
    <3> QED
      BY <1>1, <1>3, <1>5, <3>1, <3>2, CommitUndisturbed DEF BatchCore
  <2>5. SealedBatchDurable'
    <3>1. ASSUME NEW e \in disk'
          PROVE  EndOf(e) <= durable'[e.fid]
      <4>1. e \in disk /\ e.fid \in FileIds /\ EndOf(e) <= flen[e.fid]
        BY <1>1 DEF BatchCore, CoreInv, CoreTypeOK, LogWellFormed, EndOf, Entries
      <4>2. durable'[e.fid] = flen[e.fid]
        BY <1>1, <1>8, <4>1
        DEF SyncFiles, BatchCore, CoreInv, OlderFilesDurable, LogWellFormed
      <4> QED
        BY <4>1, <4>2
    <3> QED
      BY <3>1 DEF SealedBatchDurable, EndOf
  <2> QED
    BY <1>4, <1>5, <1>6, <1>7, <2>1, <2>2, <2>3, <2>4, <2>5 DEF BatchCore
<1>9. CASE out # "ok"
  <2>1. BatchShape' /\ CommitsExclude' /\ \A u \in Threads : pc'[u] \notin BatchPCs
    <3>1. pending' \in [Threads -> [Keys -> LogRecord]]
      BY <1>1 DEF BatchCore, BatchShape
    <3> QED
      BY <1>1, <1>3, <1>9, <3>1, EndCommitTyped DEF BatchCore, CoreInv
  <2>2. SealedBatchDurable'
    BY <2>1 DEF SealedBatchDurable, BatchPCs
  <2> QED
    BY <1>4, <1>5, <1>6, <1>7, <2>1, <2>2 DEF BatchCore
<1> QED
  BY <1>8, <1>9

(* The record of the batch that the loop is at: where it is in the log and *)
(* what it holds.                                                          *)
LEMMA ItemInLog ==
  ASSUME BatchCore, NEW t \in Threads, pc[t] = "batch.index"
  PROVE  /\ ItemKey(t) \in Keys /\ ItemKey(t) \in PendingKeys(t)
         /\ \E e \in disk : IsRecordOf(e, t, ItemKey(t))
         /\ \E f \in disk : Seals(batchSeq[t]) = {f}
<1> DEFINE n == Cardinality(PendingKeys(t))
<1>1. CommitSound(t)
  BY DEF BatchCore, BatchPCs
<1>2. n \in Nat /\ item[t] \in 1..n
  BY <1>1, PendingCount DEF BatchCore, CommitSound
<1>3. order[t] \in Bijection(1..n, PendingKeys(t))
  BY <1>1 DEF CommitSound
<1>4. ItemKey(t) \in PendingKeys(t)
  BY <1>2, <1>3, OrderFacts DEF ItemKey
<1>5. WrittenKeys(t) = PendingKeys(t)
  BY DEF WrittenKeys
<1> QED
  BY <1>1, <1>4, <1>5 DEF CommitSound, PendingKeys

(* The loop of commit that updates the index preserves the invariant: each *)
(* entry moves to a record of the sealed batch, or goes with a tombstone.  *)
LEMMA BatchIndexPreserves ==
  ASSUME BatchCore, NEW t \in Threads, BatchIndex(t)
  PROVE  BatchCore'
<1> DEFINE k == ItemKey(t)
           n == Cardinality(PendingKeys(t))
           last == item[t] = n
           p == IF pending[t][k].type = "Normal" THEN batchPos[t][k] ELSE NoPos
<1>1. /\ pc[t] = "batch.index"
      /\ pc' = [pc EXCEPT ![t] = IF last THEN "idle" ELSE "batch.index"]
      /\ index' = [index EXCEPT ![k] = p]
      /\ reclaim' = reclaim + index[k].size \/ reclaim' = reclaim + 0 + index[k].size
      /\ IF last
         THEN /\ pending' = [pending EXCEPT ![t] = NoPending]
              /\ EndCommit(t)
         ELSE /\ item' = [item EXCEPT ![t] = @ + 1]
              /\ UNCHANGED <<pending, batchLock, batchSeq, order, batchPos, pos>>
      /\ UNCHANGED <<diskVars, fileVars, lockVars, rec, old, got, quota, seqNo>>
  BY DEF BatchIndex, Goto, IndexPut, IndexDelete
<1>2. /\ pc' = [u \in Threads |-> pc'[u]] /\ pc'[t] = IF last THEN "idle" ELSE "batch.index"
      /\ \A u \in Threads : u # t => pc'[u] = pc[u]
  BY <1>1, PCMoves DEF BatchCore, CoreInv
<1>3. pc[t] \in BatchPCs /\ CommitSound(t)
  BY <1>1 DEF BatchCore, BatchPCs
<1>4. k \in Keys /\ k \in PendingKeys(t)
  BY <1>1, ItemInLog
<1>5. PICK e \in disk : IsRecordOf(e, t, k)
  BY <1>1, ItemInLog
<1>6. PICK f \in disk : Seals(batchSeq[t]) = {f}
  BY <1>1, ItemInLog
<1> HIDE DEF k
<1>7. LogWellFormed' /\ OlderFilesDurable' /\ PositionsStable
  BY <1>1, QuietStep DEF BatchCore, CoreInv
<1>8. pos' \in [Threads -> MaybePositions] /\ \A u \in Threads : u # t => pos'[u] = pos[u]
  BY <1>1 DEF BatchCore, CoreInv, CoreTypeOK, EndCommit, MaybePositions
<1>9. CoreInv'
  <2>0. batchPos[t][k] \in MaybePositions /\ index[k] \in MaybePositions /\ reclaim \in Nat
    BY <1>4 DEF BatchCore, CoreInv, CoreTypeOK, BatchShape
  <2>1. p \in MaybePositions /\ reclaim' \in Nat
    <3>1. index[k].size \in Nat
      BY <2>0 DEF MaybePositions, Positions, NoPos, Pos
    <3>2. NoPos \in MaybePositions
      BY DEF MaybePositions
    <3> QED
      BY <1>1, <2>0, <3>1, <3>2
  <2>2. index' \in [Keys -> MaybePositions]
    BY <1>1, <2>1 DEF BatchCore, CoreInv, CoreTypeOK
  <2>3. CoreTypeOK'
    BY <1>1, <1>2, <1>8, <2>1, <2>2 DEF BatchCore, CoreInv, CoreTypeOK, diskVars, fileVars, lockVars
  <2>4. p # NoPos => Locates(p, k)
    <3>1. /\ PosOf(e) = batchPos[t][k] /\ e.key = k /\ e.val \in Values
          /\ e.type = pending[t][k].type
          /\ e.fid = activeId \/ e.fid \in older
      BY <1>5 DEF IsRecordOf, BatchCore, CoreInv, CoreTypeOK, Entries, LogWellFormed
    <3> QED
      BY <3>1 DEF Locates, Holds
  <2>5. IndexSound'
    <3> SUFFICES ASSUME NEW j \in Keys, index'[j] # NoPos
                 PROVE  \A q : q = index'[j] => Locates(q, j)'
      BY DEF IndexSound, Locates, Holds
    <3> QED
      BY <1>1, <1>4, <1>7, <2>4 DEF BatchCore, CoreInv, IndexSound, CoreTypeOK, PositionsStable
  <2> QED
    BY <1>1, <1>2, <1>7, <1>8, <2>3, <2>5, OtherStepPreserves DEF BatchCore, EnginePCs
<1>10. PlainGrowth
  BY <1>1 DEF PlainGrowth, diskVars
<1>11. SeqNosDrawn' /\ SealsFollow' /\ BatchesSerial'
  BY <1>1, <1>10, LogOrderUndisturbed DEF BatchCore, CoreInv, BatchShape
<1>12. PlainPuts'
  BY <1>1, <1>2, <1>8 DEF BatchCore, PlainPuts, diskVars
<1>13. IndexedBatchesSealed'
  <2>1. SUFFICES ASSUME NEW j \in Keys, NEW d \in disk,
                        index'[j] = PosOf(d), d.seq > NON_TRANSACTION_SEQ_NO
                 PROVE  Seals(d.seq) # {}
    BY <1>1 DEF IndexedBatchesSealed, Seals, PosOf, diskVars
  <2>2. CASE j # k
    BY <1>1, <2>1, <2>2 DEF BatchCore, IndexedBatchesSealed, CoreInv, CoreTypeOK
  <2>3. CASE j = k
    <3>1. index'[j] = p /\ d \in Entries
      BY <1>1, <1>4, <2>3 DEF BatchCore, CoreInv, CoreTypeOK
    <3>2. PosOf(d) = batchPos[t][k]
      BY <2>1, <3>1, NoPosNamesNothing
    <3>3. d = e
      BY <1>5, <3>2, PosUnique DEF IsRecordOf, BatchCore, CoreInv
    <3> QED
      BY <1>5, <1>6, <3>3 DEF IsRecordOf
  <2> QED
    BY <2>2, <2>3
<1>14. CASE last
  <2>1. pending' \in [Threads -> [Keys -> LogRecord]]
    <3>1. NoPending \in [Keys -> LogRecord]
      BY NoRecTyped DEF NoPending
    <3> QED
      BY <1>1, <1>14, <3>1 DEF BatchCore, BatchShape
  <2>2. BatchShape' /\ CommitsExclude' /\ \A u \in Threads : pc'[u] \notin BatchPCs
    BY <1>1, <1>3, <1>14, <2>1, EndCommitTyped DEF BatchCore, CoreInv
  <2>3. PendingSound'
    <3>1. ASSUME NEW u \in Threads
          PROVE  u # t => pending'[u] = pending[u] /\ PendingKeys(u)' = PendingKeys(u)
      BY <1>1, <1>14 DEF PendingKeys, BatchCore, BatchShape
    <3>2. PendingKeys(t)' = {}
      BY <1>1, <1>14 DEF PendingKeys, NoPending, BatchCore, BatchShape
    <3>3. IsFiniteSet({})
      BY FS_EmptySet
    <3>4. ASSUME NEW u \in Threads
          PROVE  /\ IsFiniteSet(PendingKeys(u)')
                 /\ \A j \in PendingKeys(u)' :
                      /\ pending'[u][j].key = j
                      /\ pending'[u][j].seq = RawSeq
                      /\ pending'[u][j].type \in {"Normal", "Delete"}
      <4>1. CASE u = t
        BY <3>2, <3>3, <4>1
      <4>2. CASE u # t
        BY <3>1, <4>2 DEF BatchCore, PendingSound
      <4> QED
        BY <4>1, <4>2
    <3> QED
      BY <3>4 DEF PendingSound
  <2>4. SealedBatchDurable'
    BY <2>2 DEF SealedBatchDurable, BatchPCs
  <2> QED
    BY <1>9, <1>11, <1>12, <1>13, <2>2, <2>3, <2>4 DEF BatchCore
<1>15. CASE ~last
  <2>1. n \in Nat /\ item[t] \in 1..n /\ item'[t] = item[t] + 1 /\ item'[t] \in 1..n
    BY <1>1, <1>3, <1>15, PendingCount DEF BatchCore, CommitSound, BatchShape
  <2>2. BatchShape'
    <3>1. order[t] \in Bijection(1..n, PendingKeys(t))
      BY <1>3 DEF CommitSound
    <3>2. Len(order[t]) = n
      BY <2>1, <3>1, OrderTyped DEF PendingKeys
    <3>3. item' \in [Threads -> Nat]
      <4>1. item \in [Threads -> Nat] /\ item' = [item EXCEPT ![t] = item[t] + 1]
        BY <1>1, <1>15 DEF BatchCore, BatchShape
      <4> QED
        BY <4>1
    <3>4. ASSUME NEW u \in Threads
          PROVE  item'[u] <= Len(order[u]) + 1
      <4>1. CASE u = t
        BY <2>1, <3>2, <4>1
      <4>2. CASE u # t
        BY <1>1, <1>15, <4>2 DEF BatchCore, BatchShape
      <4> QED
        BY <4>1, <4>2
    <3> QED
      BY <1>1, <1>15, <3>3, <3>4 DEF BatchCore, BatchShape, BatchPCs
  <2>3. CommitsExclude'
    BY <1>1, <1>2, <1>3, <1>15 DEF BatchCore, CommitsExclude
  <2>4. PendingSound'
    BY <1>1, <1>15 DEF BatchCore, PendingSound, PendingKeys
  <2>5. ASSUME NEW u \in Threads, pc'[u] \in BatchPCs
        PROVE  CommitSound(u)'
    <3>1. u = t
      BY <1>2, <1>3, <2>5, OneCommit DEF BatchCore
    <3>2. /\ pending'[t] = pending[t] /\ order'[t] = order[t] /\ pc'[t] = pc[t]
          /\ batchSeq'[t] = batchSeq[t] /\ batchPos'[t] = batchPos[t] /\ seqNo' = seqNo
      BY <1>1, <1>2, <1>15
    <3> QED
      BY <1>1, <1>3, <1>10, <2>1, <3>1, <3>2, CommitUndisturbed DEF BatchCore
  <2>6. SealedBatchDurable'
    BY <1>1, <1>2, <1>15 DEF BatchCore, SealedBatchDurable, EndOf, diskVars
  <2> QED
    BY <1>9, <1>11, <1>12, <1>13, <2>2, <2>3, <2>4, <2>5, <2>6 DEF BatchCore
<1> QED
  BY <1>14, <1>15

-----------------------------------------------------------------------------
(* What commit hands to append_log_record: the record of a pending key     *)
(* under the sequence number it has drawn, or the seal.                    *)
LEMMA BatchRecordTyped ==
  ASSUME BatchCore, NEW t \in Threads, pc[t] = "batch.write"
  PROVE  /\ BatchRecord(t) \in LogRecord
         /\ BatchRecord(t).seq = batchSeq[t]
         /\ batchSeq[t] \in Nat /\ batchSeq[t] > 0 /\ batchSeq[t] = seqNo - 1
         /\ Seals(batchSeq[t]) = {}
         /\ MoreItems(t) =>
              /\ ItemKey(t) \in PendingKeys(t)
              /\ ItemKey(t) \notin WrittenKeys(t)
              /\ BatchRecord(t).key = ItemKey(t)
              /\ BatchRecord(t).val = pending[t][ItemKey(t)].val
              /\ BatchRecord(t).type = pending[t][ItemKey(t)].type
              /\ BatchRecord(t).type # "TxnFinished"
         /\ ~MoreItems(t) => /\ BatchRecord(t).type = "TxnFinished"
                            /\ WrittenKeys(t) = PendingKeys(t)
<1> DEFINE n == Cardinality(PendingKeys(t))
<1>1. CommitSound(t)
  BY DEF BatchCore, BatchPCs
<1>2. /\ batchSeq[t] \in Nat /\ batchSeq[t] > 0 /\ batchSeq[t] = seqNo - 1
      /\ Seals(batchSeq[t]) = {}
  BY <1>1 DEF CommitSound, NON_TRANSACTION_SEQ_NO, BatchCore, BatchShape
<1>3. n \in Nat /\ item[t] \in 1..n + 1
  BY <1>1, PendingCount DEF BatchCore, CommitSound
<1>4. /\ order[t] \in [1..n -> PendingKeys(t)]
      /\ \A i, j \in 1..n : order[t][i] = order[t][j] => i = j
      /\ \A k \in PendingKeys(t) : \E i \in 1..n : order[t][i] = k
  <2>1. order[t] \in Bijection(1..n, PendingKeys(t))
    BY <1>1 DEF CommitSound
  <2> HIDE DEF n
  <2> QED
    BY <2>1 DEF Bijection, Injection, Surjection, IsInjective
<1>5. WrittenKeys(t) = {order[t][i] : i \in 1..item[t] - 1}
  BY DEF WrittenKeys
<1>6. CASE MoreItems(t)
  <2>1. item[t] \in 1..n
    BY <1>3, <1>6 DEF MoreItems
  <2>2. ItemKey(t) \in PendingKeys(t)
    BY <1>4, <2>1 DEF ItemKey
  <2>3. ItemKey(t) \notin WrittenKeys(t)
    <3>1. SUFFICES ASSUME NEW i \in 1..item[t] - 1, order[t][i] = order[t][item[t]]
                   PROVE  FALSE
      BY <1>5 DEF ItemKey
    <3>2. i \in 1..n /\ i # item[t]
      BY <1>3, <2>1
    <3> QED
      BY <1>4, <2>1, <3>1, <3>2
  <2>4. /\ pending[t][ItemKey(t)] \in LogRecord
        /\ pending[t][ItemKey(t)].key = ItemKey(t)
        /\ pending[t][ItemKey(t)].type \in {"Normal", "Delete"}
    BY <2>2 DEF BatchCore, BatchShape, PendingSound, PendingKeys
  <2>5. BatchRecord(t) = Rec(pending[t][ItemKey(t)].key, batchSeq[t],
                             pending[t][ItemKey(t)].val, pending[t][ItemKey(t)].type)
    BY <1>6 DEF BatchRecord
  <2>6. BatchRecord(t) \in LogRecord
    BY <1>2, <2>4, <2>5 DEF Rec, LogRecord
  <2> QED
    BY <1>2, <1>6, <2>2, <2>3, <2>4, <2>5, <2>6 DEF Rec
<1>7. CASE ~MoreItems(t)
  <2>1. item[t] = n + 1
    BY <1>3, <1>7 DEF MoreItems
  <2>2. BatchRecord(t) = Rec(TxnFinKey, batchSeq[t], EmptyValue, "TxnFinished")
    BY <1>7 DEF BatchRecord
  <2>3. BatchRecord(t) \in LogRecord
    BY <1>2, <2>2, DataFileAssumption DEF Rec, LogRecord, RecordTypes
  <2>4. item[t] - 1 = n
    BY <1>3, <2>1
  <2>5. WrittenKeys(t) = PendingKeys(t)
    <3>1. WrittenKeys(t) = {order[t][i] : i \in 1..n}
      BY <1>5, <2>4
    <3>2. ASSUME NEW k \in WrittenKeys(t) PROVE k \in PendingKeys(t)
      <4>1. PICK i \in 1..n : k = order[t][i]
        BY <3>1
      <4> QED
        BY <1>4, <4>1
    <3>3. ASSUME NEW k \in PendingKeys(t) PROVE k \in WrittenKeys(t)
      BY <1>4, <3>1
    <3> QED
      BY <3>2, <3>3
  <2> QED
    BY <1>2, <1>7, <2>2, <2>3, <2>5 DEF Rec
<1> QED
  BY <1>6, <1>7

(* The log has grown by nothing, or by a record of the batch of thread t.  *)
BatchGrowth(t, new) ==
  /\ new \in Entries
  /\ disk' = disk \cup {new}
  /\ new.key = BatchRecord(t).key /\ new.seq = batchSeq[t]
  /\ new.val = BatchRecord(t).val /\ new.type = BatchRecord(t).type
  /\ \A d \in disk : Precedes(d, new)

(* No record follows itself, so a record that follows all is new.          *)
LEMMA NewIsNew ==
  ASSUME CoreTypeOK, NEW t, NEW new, BatchGrowth(t, new)
  PROVE  new \notin disk /\ \A d \in disk : PosOf(d) # PosOf(new)
<1>1. new.fid \in Int /\ new.off \in Int
  BY DataFileAssumption DEF BatchGrowth, Entries, FileIds
<1>2. ASSUME NEW d \in disk, d.fid = new.fid, d.off = new.off
      PROVE  FALSE
  BY <1>1, <1>2 DEF BatchGrowth, Precedes
<1> QED
  BY <1>2 DEF PosOf, Pos

(* The record of a batch that is not sealed goes to the end of the log     *)
(* with the highest sequence number.                                       *)
LEMMA BatchGrowthKeepsOrder ==
  ASSUME BatchCore, NEW t \in Threads, pc[t] = "batch.write",
         seqNo' = seqNo, UNCHANGED index,
         disk' = disk \/ \E new : BatchGrowth(t, new)
  PROVE  SeqNosDrawn' /\ SealsFollow' /\ BatchesSerial' /\ IndexedBatchesSealed'
<1>1. CASE disk' = disk
  <2>1. PlainGrowth /\ seqNo \in Nat /\ seqNo' >= seqNo
    BY <1>1 DEF PlainGrowth, BatchCore, BatchShape
  <2> QED
    BY <1>1, <2>1, QuietBatchStep
<1>2. ASSUME NEW new, BatchGrowth(t, new)
      PROVE  SeqNosDrawn' /\ SealsFollow' /\ BatchesSerial' /\ IndexedBatchesSealed'
  <2>1. /\ new.seq \in Nat /\ new.seq > 0 /\ new.seq = seqNo - 1 /\ seqNo \in Nat
        /\ Seals(new.seq) = {}
        /\ \A d \in disk : d.seq \in Int /\ d.seq < seqNo
    <3>1. new.seq = batchSeq[t]
      BY <1>2, BatchRecordTyped DEF BatchGrowth
    <3>2. \A d \in disk : d.seq \in Int /\ d.seq < seqNo
      BY DEF BatchCore, CoreInv, CoreTypeOK, Entries, RawSeq, SeqNosDrawn
    <3>3. seqNo \in Nat
      BY DEF BatchCore, BatchShape
    <3> QED
      BY <3>1, <3>2, <3>3, BatchRecordTyped
  <2>2. disk' = disk \cup {new} /\ \A d \in disk : Precedes(d, new)
    BY <1>2 DEF BatchGrowth
  <2>3. SeqNosDrawn'
    BY <2>1, <2>2 DEF SeqNosDrawn, BatchCore, NON_TRANSACTION_SEQ_NO
  <2>4. SealsFollow'
    <3>1. SUFFICES ASSUME NEW f \in disk', f.type = "TxnFinished",
                          NEW e \in disk', e.seq = f.seq, e.type # "TxnFinished"
                   PROVE  Precedes(e, f)
      BY DEF SealsFollow, BatchEntries, Precedes
    <3>2. CASE f \in disk /\ e \in disk
      BY <3>1, <3>2 DEF BatchCore, SealsFollow, BatchEntries
    <3>3. CASE f \in disk /\ e = new
      BY <2>1, <3>1, <3>3 DEF Seals
    <3>4. CASE f = new /\ e \in disk
      BY <2>2, <3>4
    <3> QED
      BY <2>2, <3>1, <3>2, <3>3, <3>4
  <2>5. BatchesSerial'
    <3>1. SUFFICES ASSUME NEW d \in disk', NEW e \in disk', d.seq > 0, d.seq < e.seq
                   PROVE  Precedes(d, e)
      BY DEF BatchesSerial, Precedes, NON_TRANSACTION_SEQ_NO
    <3>2. CASE d \in disk /\ e \in disk
      BY <3>1, <3>2 DEF BatchCore, BatchesSerial, NON_TRANSACTION_SEQ_NO
    <3>3. CASE d \in disk /\ e = new
      BY <2>2, <3>3
    <3>4. CASE d = new
      BY <2>1, <2>2, <3>1, <3>4
    <3> QED
      BY <2>2, <3>2, <3>3, <3>4
  <2>6. IndexedBatchesSealed'
    <3>1. SUFFICES ASSUME NEW k \in Keys, NEW e \in disk',
                          index[k] = PosOf(e), e.seq > NON_TRANSACTION_SEQ_NO
                   PROVE  {f \in disk' : f.seq = e.seq /\ f.type = "TxnFinished"} # {}
      BY DEF IndexedBatchesSealed, Seals, PosOf
    <3>2. e # new
      <4>1. SUFFICES ASSUME e = new PROVE FALSE
        OBVIOUS
      <4>2. index[k] # NoPos
        BY <1>2, <3>1, <4>1, NoPosNamesNothing DEF BatchGrowth
      <4>3. PICK d \in disk : PosOf(d) = index[k]
        BY <4>2 DEF BatchCore, CoreInv, IndexSound, Locates, Holds
      <4> QED
        BY <1>2, <3>1, <4>1, <4>3, NewIsNew DEF BatchCore, CoreInv
    <3>3. Seals(e.seq) # {}
      BY <2>2, <3>1, <3>2 DEF BatchCore, IndexedBatchesSealed
    <3> QED
      BY <2>2, <3>3 DEF Seals
  <2> QED
    BY <2>3, <2>4, <2>5, <2>6
<1> QED
  BY <1>1, <1>2

(* The record just written is the record of its key, and the records       *)
(* written before stay where they are.                                     *)
LEMMA RecordAdded ==
  ASSUME BatchCore, NEW t \in Threads, pc[t] = "batch.write", MoreItems(t),
         pc'[t] = "batch.lock", pending'[t] = pending[t], order'[t] = order[t],
         batchSeq'[t] = batchSeq[t], seqNo' = seqNo,
         item'[t] = item[t] + 1, batchPos' = [batchPos EXCEPT ![t][ItemKey(t)] = pos'[t]],
         NEW new, BatchGrowth(t, new), PosOf(new) = pos'[t]
  PROVE  CommitSound(t)'
<1> DEFINE n == Cardinality(PendingKeys(t))
<1>0. PICK k : k = ItemKey(t)
  OBVIOUS
<1>1. CommitSound(t)
  BY DEF BatchCore, BatchPCs
<1>2. /\ k \in PendingKeys(t) /\ k \notin WrittenKeys(t)
      /\ BatchRecord(t).key = k /\ BatchRecord(t).val = pending[t][k].val
      /\ BatchRecord(t).type = pending[t][k].type /\ BatchRecord(t).type # "TxnFinished"
      /\ batchSeq[t] \in Nat /\ batchSeq[t] > 0 /\ Seals(batchSeq[t]) = {}
  BY <1>0, BatchRecordTyped
<1>3. n \in Nat /\ item[t] \in 1..n
  BY <1>1, PendingCount DEF BatchCore, CommitSound, MoreItems
<1>4. PendingKeys(t)' = PendingKeys(t)
  BY DEF PendingKeys
<1>5. WrittenKeys(t) = {order[t][i] : i \in 1..item[t] - 1}
  BY DEF WrittenKeys
<1>6. WrittenKeys(t)' = {order[t][i] : i \in 1..item[t]}
  BY <1>3 DEF WrittenKeys
<1>7. WrittenKeys(t)' = WrittenKeys(t) \cup {k}
  <2>1. k = order[t][item[t]]
    BY <1>0 DEF ItemKey
  <2>2. 1..item[t] = (1..item[t] - 1) \cup {item[t]}
    BY <1>3
  <2> QED
    BY <1>5, <1>6, <2>1, <2>2
<1>8. disk' = disk \cup {new} /\ new.seq = batchSeq[t] /\ new.type # "TxnFinished"
  BY <1>2 DEF BatchGrowth
<1>9. /\ BatchEntries(batchSeq[t])' = BatchEntries(batchSeq[t]) \cup {new}
      /\ Seals(batchSeq[t])' = {}
  BY <1>2, <1>8 DEF BatchEntries, Seals
<1>10. \A j \in Keys : batchPos'[t][j] = IF j = k THEN pos'[t] ELSE batchPos[t][j]
  BY <1>0 DEF BatchCore, BatchShape
<1>11. IsRecordOf(new, t, k)'
  BY <1>2, <1>10 DEF IsRecordOf, BatchGrowth, PendingKeys
<1>12. ASSUME NEW j \in WrittenKeys(t), NEW e, IsRecordOf(e, t, j)
       PROVE  IsRecordOf(e, t, j)'
  <2>1. j \in Keys /\ j # k
    <3>1. j \in PendingKeys(t)
      <4>1. order[t] \in [1..n -> PendingKeys(t)]
        BY <1>1, <1>3, OrderFacts DEF CommitSound
      <4>2. PICK i \in 1..item[t] - 1 : j = order[t][i]
        BY <1>5
      <4>3. i \in 1..n
        BY <1>3
      <4> QED
        BY <4>1, <4>2, <4>3
    <3> QED
      BY <1>2, <3>1 DEF PendingKeys
  <2> QED
    BY <1>10, <1>12, <2>1 DEF IsRecordOf
<1>13. ASSUME NEW j \in WrittenKeys(t)'
       PROVE  \E e \in disk' : IsRecordOf(e, t, j)'
  <2>1. CASE j = k
    BY <1>8, <1>11, <2>1
  <2>2. CASE j \in WrittenKeys(t)
    <3>1. PICK e \in disk : IsRecordOf(e, t, j)
      BY <1>1, <2>2 DEF CommitSound
    <3> QED
      BY <1>8, <1>12, <2>2, <3>1
  <2> QED
    BY <1>7, <2>1, <2>2
<1>14. ASSUME NEW e \in BatchEntries(batchSeq[t])'
       PROVE  \E j \in WrittenKeys(t)' : IsRecordOf(e, t, j)'
  <2>1. CASE e = new
    BY <1>7, <1>11, <2>1
  <2>2. CASE e \in BatchEntries(batchSeq[t])
    <3>1. PICK j \in WrittenKeys(t) : IsRecordOf(e, t, j)
      BY <1>1, <2>2 DEF CommitSound
    <3> QED
      BY <1>7, <1>12, <3>1
  <2> QED
    BY <1>9, <2>1, <2>2
<1>15. item'[t] \in 1..n + 1
  BY <1>3
<1> QED
  BY <1>1, <1>4, <1>9, <1>13, <1>14, <1>15 DEF CommitSound

(* After the seal all the records of the batch are in the log, and one     *)
(* seal.                                                                   *)
LEMMA SealAdded ==
  ASSUME BatchCore, NEW t \in Threads, pc[t] = "batch.write", ~MoreItems(t),
         pc'[t] \in {"batch.sync", "batch.index"},
         pending'[t] = pending[t], order'[t] = order[t],
         batchSeq'[t] = batchSeq[t], seqNo' = seqNo, item'[t] = 1, batchPos'[t] = batchPos[t],
         NEW new, BatchGrowth(t, new)
  PROVE  CommitSound(t)'
<1> DEFINE n == Cardinality(PendingKeys(t))
<1>1. CommitSound(t)
  BY DEF BatchCore, BatchPCs
<1>2. /\ BatchRecord(t).type = "TxnFinished" /\ WrittenKeys(t) = PendingKeys(t)
      /\ batchSeq[t] \in Nat /\ batchSeq[t] > 0 /\ Seals(batchSeq[t]) = {}
  BY BatchRecordTyped
<1>3. n \in Nat /\ n > 0
  BY <1>1, PendingCount, PendingNotEmpty DEF BatchCore, CommitSound
<1>4. PendingKeys(t)' = PendingKeys(t)
  BY DEF PendingKeys
<1>5. WrittenKeys(t)' = WrittenKeys(t)
  BY <1>2, <1>4 DEF WrittenKeys
<1>6. disk' = disk \cup {new} /\ new.seq = batchSeq[t] /\ new.type = "TxnFinished"
  BY <1>2 DEF BatchGrowth
<1>7. /\ BatchEntries(batchSeq[t])' = BatchEntries(batchSeq[t])
      /\ Seals(batchSeq[t])' = {new} /\ new \in disk'
  BY <1>2, <1>6 DEF BatchEntries, Seals
<1>8. \A e, j : IsRecordOf(e, t, j)' <=> IsRecordOf(e, t, j)
  BY DEF IsRecordOf
<1>9. item'[t] \in 1..n + 1 /\ item'[t] <= n
  BY <1>3
<1> QED
  BY <1>1, <1>4, <1>5, <1>6, <1>7, <1>8, <1>9 DEF CommitSound

(* Each append of a commit preserves the invariant: the records of the     *)
(* loop, the seal, and an append that fails.                               *)
LEMMA BatchWritePreserves ==
  ASSUME BatchCore, NEW t \in Threads, NEW out \in Outcomes, BatchWrite(t, out)
  PROVE  BatchCore'
<1> DEFINE to == IF out # "ok" THEN "idle" ELSE IF MoreItems(t) THEN "batch.lock" ELSE AfterSeal
<1>1. /\ pc[t] = "batch.write" /\ pc' = [pc EXCEPT ![t] = to]
      /\ AppendLogRecord(t, BatchRecord(t), out)
      /\ IF out # "ok" THEN EndCommit(t)
         ELSE /\ IF MoreItems(t)
                 THEN /\ item' = [item EXCEPT ![t] = @ + 1]
                      /\ batchPos' = [batchPos EXCEPT ![t][ItemKey(t)] = pos'[t]]
                 ELSE /\ item' = [item EXCEPT ![t] = 1]
                      /\ UNCHANGED batchPos
              /\ UNCHANGED <<batchLock, batchSeq, order>>
      /\ UNCHANGED <<indexVars, rec, old, got, quota, pending, seqNo>>
  BY DEF BatchWrite, Goto
<1>2. to \in BatchPCs \cup {"idle"}
  BY DEF AfterSeal, BatchPCs
<1>3. /\ pc' = [u \in Threads |-> pc'[u]] /\ pc'[t] = to
      /\ \A u \in Threads : u # t => pc'[u] = pc[u]
  BY <1>1, PCMoves DEF BatchCore, CoreInv
<1>4. pc[t] \in BatchPCs /\ CommitSound(t)
  BY <1>1 DEF BatchCore, BatchPCs
<1>5. BatchRecord(t) \in LogRecord /\ BatchRecord(t).seq = batchSeq[t]
  BY <1>1, BatchRecordTyped
<1>6. CoreTypeOK /\ LogWellFormed /\ OlderFilesDurable
  BY DEF BatchCore, CoreInv
<1>7. /\ disk' \subseteq Entries
      /\ flen' \in [FileIds -> Nat]
      /\ durable' \in [FileIds -> Nat]
      /\ activeId' \in FileIds
      /\ writeOff' \in Nat
      /\ older' \subseteq FileIds
      /\ bytesWrite' \in Nat
      /\ pos' \in [Threads -> MaybePositions]
      /\ activeW' = NoThread
      /\ activeR' = activeR /\ olderW' = olderW
  BY <1>1, <1>5, <1>6, AppendTyped
<1>8. PositionsStable /\ \A u \in Threads : u # t => pos'[u] = pos[u]
  BY <1>1, <1>5, <1>6, AppendLocates
<1>9. CoreInv'
  <2>1. CoreTypeOK'
    BY <1>1, <1>3, <1>6, <1>7 DEF CoreTypeOK, indexVars
  <2>2. LogWellFormed' /\ OlderFilesDurable'
    BY <1>1, <1>5, <1>6, AppendWellFormed, AppendDurable
  <2>3. IndexSound'
    BY <1>1, <1>8, IndexKept DEF BatchCore, CoreInv, indexVars
  <2>4. pc'[t] \notin EnginePCs \ {"idle"}
    BY <1>2, <1>3 DEF EnginePCs, BatchPCs
  <2> QED
    BY <1>1, <1>3, <1>8, <2>1, <2>2, <2>3, <2>4, OtherStepPreserves DEF BatchCore
<1>10. \/ out # "ok" /\ disk' = disk
       \/ \E new : BatchGrowth(t, new) /\ (out = "ok" => PosOf(new) = pos'[t])
  BY <1>1, <1>5, <1>6, AppendFollows DEF BatchGrowth
<1>11. SeqNosDrawn' /\ SealsFollow' /\ BatchesSerial' /\ IndexedBatchesSealed'
  BY <1>1, <1>10, BatchGrowthKeepsOrder DEF indexVars
<1>12. PendingSound'
  BY <1>1 DEF BatchCore, PendingSound, PendingKeys
<1>13. PlainPuts'
  <2>1. disk \subseteq disk'
    BY <1>10 DEF BatchGrowth
  <2>2. pc'[t] \notin {"put.lock", "put.write", "put.index", "put.insert", "del.lock", "del.write"}
    BY <1>2, <1>3 DEF BatchPCs
  <2> QED
    BY <1>1, <1>3, <1>8, <2>1, <2>2 DEF BatchCore, PlainPuts
<1>14. CASE out # "ok"
  <2>1. BatchShape' /\ CommitsExclude' /\ \A u \in Threads : pc'[u] \notin BatchPCs
    <3>1. pending' \in [Threads -> [Keys -> LogRecord]]
      BY <1>1 DEF BatchCore, BatchShape
    <3> QED
      BY <1>1, <1>4, <1>14, <3>1, EndCommitTyped DEF BatchCore, CoreInv
  <2>2. SealedBatchDurable'
    BY <2>1 DEF SealedBatchDurable, BatchPCs
  <2> QED
    BY <1>9, <1>11, <1>12, <1>13, <2>1, <2>2 DEF BatchCore
<1>15. CASE out = "ok"
  <2>1. PICK new : BatchGrowth(t, new) /\ PosOf(new) = pos'[t]
    BY <1>10, <1>15
  <2>2. pc'[t] \in BatchPCs
    BY <1>2, <1>3, <1>15 DEF AfterSeal, BatchPCs
  <2>3. ASSUME NEW u \in Threads, pc'[u] \in BatchPCs
        PROVE  u = t
    BY <1>3, <1>4, <2>3, OneCommit DEF BatchCore
  <2>4. CommitsExclude'
    BY <1>1, <1>3, <1>4, <1>15, <2>2 DEF BatchCore, CommitsExclude
  <2>5. SealedBatchDurable'
    BY <1>3, <1>15, <2>3 DEF SealedBatchDurable, AfterSeal, BatchPCs
  <2>6. /\ pending'[t] = pending[t] /\ order'[t] = order[t]
        /\ batchSeq'[t] = batchSeq[t] /\ seqNo' = seqNo
    BY <1>1, <1>15
  <2>7. CommitSound(t)'
    <3>1. CASE MoreItems(t)
      <4>1. item'[t] = item[t] + 1 /\ pc'[t] = "batch.lock"
            /\ batchPos' = [batchPos EXCEPT ![t][ItemKey(t)] = pos'[t]]
        BY <1>1, <1>3, <1>15, <3>1 DEF BatchCore, BatchShape
      <4> QED
        BY <1>1, <2>1, <2>6, <3>1, <4>1, RecordAdded
    <3>2. CASE ~MoreItems(t)
      <4>1. item'[t] = 1 /\ pc'[t] \in {"batch.sync", "batch.index"} /\ batchPos'[t] = batchPos[t]
        BY <1>1, <1>3, <1>15, <3>2 DEF BatchCore, BatchShape, AfterSeal
      <4> QED
        BY <1>1, <2>1, <2>6, <3>2, <4>1, SealAdded
    <3> QED
      BY <3>1, <3>2
  <2>8. BatchShape'
    <3>0. item \in [Threads -> Nat] /\ batchPos \in [Threads -> [Keys -> MaybePositions]]
      BY DEF BatchCore, BatchShape
    <3>1. item' \in [Threads -> Nat]
      <4>1. item' = [item EXCEPT ![t] = item[t] + 1] \/ item' = [item EXCEPT ![t] = 1]
        BY <1>1, <1>15
      <4> QED
        BY <3>0, <4>1
    <3>2. batchPos' \in [Threads -> [Keys -> MaybePositions]]
      <4>1. pos'[t] \in MaybePositions
        BY <1>7
      <4>2. batchPos' = batchPos \/ batchPos' = [batchPos EXCEPT ![t][ItemKey(t)] = pos'[t]]
        BY <1>1, <1>15
      <4>3. [batchPos[t] EXCEPT ![ItemKey(t)] = pos'[t]] \in [Keys -> MaybePositions]
        BY <3>0, <4>1
      <4> QED
        BY <3>0, <4>2, <4>3
    <3>3. ASSUME NEW u \in Threads
          PROVE  item'[u] <= Len(order'[u]) + 1
      <4>1. CASE u # t
        <5>1. item'[u] = item[u] /\ order'[u] = order[u]
          BY <1>1, <1>15, <4>1 DEF BatchCore, BatchShape
        <5> QED
          BY <5>1 DEF BatchCore, BatchShape
      <4>2. CASE u = t
        <5> DEFINE n == Cardinality(PendingKeys(t))
        <5>1. n \in Nat /\ order[t] \in Bijection(1..n, PendingKeys(t))
          BY <1>4, PendingCount DEF BatchCore, CommitSound
        <5>2. Len(order[t]) = n
          BY <5>1, OrderTyped DEF PendingKeys
        <5>3. PendingKeys(t)' = PendingKeys(t)
          BY <1>1 DEF PendingKeys
        <5>4. item'[t] \in 1..n + 1
          BY <2>7, <5>3 DEF CommitSound
        <5> HIDE DEF n
        <5> QED
          BY <2>6, <4>2, <5>1, <5>2, <5>4
      <4> QED
        BY <4>1, <4>2
    <3> QED
      BY <1>1, <1>15, <3>1, <3>2, <3>3 DEF BatchCore, BatchShape
  <2> QED
    BY <1>9, <1>11, <1>12, <1>13, <2>3, <2>4, <2>5, <2>7, <2>8 DEF BatchCore
<1> QED
  BY <1>14, <1>15

-----------------------------------------------------------------------------
(* An engine with empty batches satisfies the invariant.                   *)
LEMMA BatchInitSatisfies == EngineInit /\ BatchInit => BatchInv
<1> SUFFICES ASSUME EngineInit, BatchInit PROVE BatchInv
  OBVIOUS
<1>1. CoreInv
  BY InitCore
<1>2. /\ pc = [t \in Threads |-> "idle"] /\ disk = {} /\ index = [k \in Keys |-> NoPos]
      /\ pos = [t \in Threads |-> NoPos] /\ rec = [t \in Threads |-> NoRec]
  BY DEF EngineInit
<1>3. \A t \in Threads : PendingKeys(t) = {}
  BY DEF BatchInit, PendingKeys, NoPending
<1>4. BatchTypeOK
  <2>1. NoPending \in [Keys -> LogRecord] /\ NoPositions \in [Keys -> MaybePositions]
    BY NoRecTyped DEF NoPending, NoPositions, MaybePositions
  <2>2. pc \in [Threads -> EnginePCs \cup BatchPCs]
    BY <1>2 DEF EnginePCs
  <2>3. order \in [Threads -> Seq(Keys)] /\ \A t \in Threads : item[t] <= Len(order[t]) + 1
    BY DEF BatchInit
  <2> QED
    BY <2>1, <2>2, <2>3 DEF BatchInit, BatchTypeOK, BatchShape
<1>5. CommitsExclude
  BY <1>2, EngineAssumption DEF BatchInit, CommitsExclude, BatchPCs
<1>6. PendingSound
  BY <1>3, FS_EmptySet DEF PendingSound
<1>7. SeqNosDrawn /\ SealsFollow /\ BatchesSerial /\ IndexedBatchesSealed /\ SealedBatchDurable
  BY <1>2 DEF SeqNosDrawn, SealsFollow, BatchesSerial, IndexedBatchesSealed, SealedBatchDurable
<1>8. PlainPuts /\ \A t \in Threads : pc[t] \notin BatchPCs
  BY <1>2 DEF PlainPuts, BatchPCs
<1> QED
  BY <1>1, <1>4, <1>5, <1>6, <1>7, <1>8 DEF BatchInv, BatchCore, BatchTypeOK

(* The invariant reads only the variables of the engine and the batches.   *)
LEMMA BatchStutterPreserves ==
  ASSUME BatchCore, UNCHANGED <<engineVars, batchVars>>
  PROVE  BatchCore'
<1>1. CoreInv'
  BY StutterKeepsCore DEF BatchCore
<1>2. /\ UNCHANGED <<disk, index, pc, rec, pos, durable>>
      /\ UNCHANGED <<pending, batchLock, seqNo, batchSeq, order, item, batchPos>>
  BY DEF engineVars, batchVars, diskVars, indexVars, threadVars
<1>3. BatchShape' /\ CommitsExclude' /\ PendingSound' /\ PlainPuts' /\ SealedBatchDurable'
  <2>1. BatchShape'
    BY <1>2 DEF BatchCore, BatchShape
  <2>2. CommitsExclude'
    BY <1>2 DEF BatchCore, CommitsExclude
  <2>3. PendingSound'
    BY <1>2 DEF BatchCore, PendingSound, PendingKeys
  <2>4. PlainPuts'
    BY <1>2 DEF BatchCore, PlainPuts
  <2>5. SealedBatchDurable'
    BY <1>2 DEF BatchCore, SealedBatchDurable, EndOf
  <2> QED
    BY <2>1, <2>2, <2>3, <2>4, <2>5
<1>4. PlainGrowth /\ SeqNosDrawn' /\ SealsFollow' /\ BatchesSerial' /\ IndexedBatchesSealed'
  BY <1>2, QuietBatchStep DEF BatchCore, BatchShape
<1>5. ASSUME NEW u \in Threads, pc'[u] \in BatchPCs
      PROVE  CommitSound(u)'
  <2>1. CommitSound(u) /\ pc[u] \in BatchPCs
    BY <1>2, <1>5 DEF BatchCore
  <2> QED
    BY <1>2, <1>4, <2>1, CommitUndisturbed DEF BatchCore
<1> QED
  BY <1>1, <1>3, <1>4, <1>5 DEF BatchCore

(* Every step of every thread preserves what is known of the batches.      *)
LEMMA BatchNextKeepsCore ==
  ASSUME BatchCore, BatchNext \/ UNCHANGED <<engineVars, batchVars>>
  PROVE  BatchCore'
<1>1. ASSUME NEW t \in Threads, EngineCall(t) \/ EngineStep(t), UNCHANGED batchVars
      PROVE  BatchCore'
  BY <1>1, EngineStepsKeepBatches
<1>2. ASSUME NEW t \in Threads, BatchCall(t)
      PROVE  BatchCore'
  BY <1>2, PendingStepsPreserve, CommitStartPreserves DEF BatchCall
<1>3. ASSUME NEW t \in Threads, BatchStep(t)
      PROVE  BatchCore'
  BY <1>3, BatchLockPreserves, BatchWritePreserves, BatchSyncPreserves, BatchIndexPreserves
  DEF BatchStep
<1>4. CASE UNCHANGED <<engineVars, batchVars>>
  BY <1>4, BatchStutterPreserves
<1> QED
  BY <1>1, <1>2, <1>3, <1>4 DEF BatchNext, EngineNext

(* A step of a batch or a commit moves its own thread, from idle or inside *)
(* the commit.                                                             *)
LEMMA BatchStepPC ==
  ASSUME CoreTypeOK, NEW t \in Threads, BatchCall(t) \/ BatchStep(t)
  PROVE  /\ pc[t] \in {"idle"} \cup BatchPCs /\ pc'[t] \in {"idle"} \cup BatchPCs
         /\ \A u \in Threads : u # t => pc'[u] = pc[u]
         /\ pc' = [u \in Threads |-> pc'[u]]
<1>1. ASSUME NEW from \in {"idle"} \cup BatchPCs, NEW to \in {"idle"} \cup BatchPCs,
             Goto(t, from, to)
      PROVE  /\ pc[t] \in {"idle"} \cup BatchPCs /\ pc'[t] \in {"idle"} \cup BatchPCs
             /\ \A u \in Threads : u # t => pc'[u] = pc[u]
             /\ pc' = [u \in Threads |-> pc'[u]]
  BY <1>1, PCMoves DEF Goto
<1>2. \/ \E from, to \in {"idle"} \cup BatchPCs : Goto(t, from, to)
      \/ pc[t] = "idle" /\ pc' = pc
  BY DEF BatchPCs, BatchCall, BatchStep, BatchPut, BatchDelete, CommitStart, BatchLock,
         BatchWrite, AfterSeal, BatchSync, BatchIndex
<1> QED
  BY <1>1, <1>2 DEF CoreTypeOK

(* Every step of every thread preserves the invariant.                     *)
LEMMA BatchNextPreserves ==
  BatchInv /\ [BatchNext]_<<engineVars, batchVars>> => BatchInv'
<1> SUFFICES ASSUME BatchInv, [BatchNext]_<<engineVars, batchVars>> PROVE BatchInv'
  OBVIOUS
<1>1. BatchCore'
  BY BatchNextKeepsCore DEF BatchInv
<1>2. pc' \in [Threads -> EnginePCs \cup BatchPCs]
  <2>1. /\ CoreTypeOK /\ pc \in [Threads -> EnginePCs \cup BatchPCs] /\ "idle" \in EnginePCs
    BY DEF BatchInv, BatchCore, CoreInv, BatchTypeOK, EnginePCs
  <2>2. ASSUME NEW t \in Threads, EngineCall(t) \/ EngineStep(t)
        PROVE  pc' \in [Threads -> EnginePCs \cup BatchPCs]
    BY <2>1, <2>2, EngineStepPC
  <2>3. ASSUME NEW t \in Threads, BatchCall(t) \/ BatchStep(t)
        PROVE  pc' \in [Threads -> EnginePCs \cup BatchPCs]
    BY <2>1, <2>3, BatchStepPC
  <2>4. CASE UNCHANGED <<engineVars, batchVars>>
    BY <2>1, <2>4 DEF engineVars
  <2> QED
    BY <2>2, <2>3, <2>4 DEF BatchNext, EngineNext
<1> QED
  BY <1>1, <1>2 DEF BatchInv, BatchCore, BatchTypeOK

(* The inductive invariant of commit holds whatever other threads put,     *)
(* delete, sync and commit in between and whichever append or sync fails.  *)
THEOREM BatchInvariant == BatchSpec => []BatchInv
BY BatchInitSatisfies, BatchNextPreserves, PTL DEF BatchSpec

(* The state of the batches is always well typed; in particular the engine *)
(* never hands sequence number 0, which means "no batch", to a commit.     *)
THEOREM BatchTypeCorrect == BatchSpec => []BatchTypeOK
<1>1. BatchInv => BatchTypeOK
  BY DEF BatchInv
<1> QED
  BY <1>1, BatchInvariant, PTL

(* WriteBatch::commit keeps the index sound although it updates it record  *)
(* by record from positions it has collected.                              *)
THEOREM IndexSoundWithBatches == BatchSpec => []IndexSound
<1>1. BatchInv => IndexSound
  BY DEF BatchInv, BatchCore, CoreInv
<1> QED
  BY <1>1, BatchInvariant, PTL

(* WriteBatch::commit seals a batch once, after all its records, and with  *)
(* exactly the records that were pending.                                  *)
THEOREM BatchesAlwaysSealed == BatchSpec => []BatchSealed
<1>1. ASSUME BatchCore, NEW t \in Threads, pc[t] \in {"batch.sync", "batch.index"}
      PROVE  /\ Cardinality(Seals(batchSeq[t])) = 1
             /\ {Rec(e.key, RawSeq, e.val, e.type) : e \in BatchEntries(batchSeq[t])}
                  = {pending[t][k] : k \in PendingKeys(t)}
  <2>1. CommitSound(t) /\ WrittenKeys(t) = PendingKeys(t)
    BY <1>1 DEF BatchCore, BatchPCs, WrittenKeys
  <2>2. Cardinality(Seals(batchSeq[t])) = 1
    BY <1>1, <2>1, FS_Singleton DEF CommitSound
  <2>3. ASSUME NEW k \in PendingKeys(t), NEW e \in disk, IsRecordOf(e, t, k)
        PROVE  pending[t][k] = Rec(e.key, RawSeq, e.val, e.type)
    <3>1. /\ pending[t][k] \in LogRecord
          /\ pending[t][k].key = k /\ pending[t][k].seq = RawSeq
      BY <1>1 DEF BatchCore, BatchShape, PendingSound, PendingKeys
    <3> QED
      BY <2>3, <3>1 DEF IsRecordOf, Rec, LogRecord
  <2>4. ASSUME NEW k \in PendingKeys(t)
        PROVE  \E e \in BatchEntries(batchSeq[t]) : IsRecordOf(e, t, k)
    <3>1. PICK e \in disk : IsRecordOf(e, t, k)
      BY <2>1 DEF CommitSound
    <3>2. pending[t][k].type # "TxnFinished"
      BY <1>1 DEF BatchCore, PendingSound
    <3> QED
      BY <3>1, <3>2 DEF IsRecordOf, BatchEntries
  <2>5. ASSUME NEW e \in BatchEntries(batchSeq[t])
        PROVE  e \in disk /\ \E k \in PendingKeys(t) : IsRecordOf(e, t, k)
    BY <2>1 DEF CommitSound, BatchEntries
  <2> QED
    BY <2>2, <2>3, <2>4, <2>5
<1>2. BatchInv => BatchSealed
  BY <1>1 DEF BatchInv, BatchCore, BatchSealed
<1> QED
  BY <1>2, BatchInvariant, PTL

(* No get sees a record of a batch that commit has not sealed.             *)
THEOREM OnlySealedBatchesVisible == BatchSpec => []IndexedBatchesSealed
<1>1. BatchInv => IndexedBatchesSealed
  BY DEF BatchInv, BatchCore
<1> QED
  BY <1>1, BatchInvariant, PTL

(* With WriteBatchOptions.sync_writes, what commit makes visible is        *)
(* durable, in whichever files its records are.                            *)
THEOREM VisibleBatchesDurable == BatchSpec => []SealedBatchDurable
<1>1. BatchInv => SealedBatchDurable
  BY DEF BatchInv, BatchCore
<1> QED
  BY <1>1, BatchInvariant, PTL

(* batch_commit_lock orders the batches of the log by sequence number.     *)
THEOREM BatchesAlwaysSerial == BatchSpec => []BatchesSerial
<1>1. BatchInv => BatchesSerial
  BY DEF BatchInv, BatchCore
<1> QED
  BY <1>1, BatchInvariant, PTL
=============================================================================
