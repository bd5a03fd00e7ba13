----------------------------- MODULE WriteBatch -----------------------------
(***************************************************************************)
(* Write batches (bitcask-rs/src/batch.rs) over the running engine.  Every *)
(* thread owns one WriteBatch; commits are serialised by batch_commit_lock *)
(* but interleave with plain puts, gets and deletes at every append and at *)
(* every update of the index.                                              *)
(***************************************************************************)
EXTENDS Engine, Functions, Sequences

CONSTANTS
  BatchSyncWrites,  \* WriteBatchOptions.sync_writes
  MaxBatchNum,      \* WriteBatchOptions.max_batch_num
  MaxBatches        \* bound: how many commits are started

ASSUME WriteBatchAssumption ==
  /\ BatchSyncWrites \in BOOLEAN
  /\ MaxBatchNum \in Nat
  /\ MaxBatches \in Nat
  /\ ~PutInTwoSteps          \* an index update of a batch is one step

VARIABLES
  pending,    \* pending_write of every batch: key -> record, or NoRec
  batchLock,  \* the thread that holds batch_commit_lock
  seqNo,      \* the engine's seq_no
  batchSeq,   \* the sequence number a commit has drawn
  order,      \* the order in which the HashMap yields the pending records
  item,       \* the next record of the loop a commit is in
  batchPos    \* positions: where the records of the batch have been written

batchVars == <<pending, batchLock, seqNo, batchSeq, order, item, batchPos>>
commitVars == <<batchSeq, order, item, batchPos>>

NoPending == [k \in Keys |-> NoRec]
NoPositions == [k \in Keys |-> NoPos]

(* Faulty: sequence numbers start at the one that means "no batch".        *)
BatchInitAtZero ==
  /\ pending = [t \in Threads |-> NoPending]
  /\ batchLock = NoThread
  /\ seqNo = 0
  /\ batchSeq = [t \in Threads |-> 0]
  /\ order = [t \in Threads |-> <<>>]
  /\ item = [t \in Threads |-> 0]
  /\ batchPos = [t \in Threads |-> NoPositions]

BatchInit ==
  /\ pending = [t \in Threads |-> NoPending]
  /\ batchLock = NoThread
  /\ seqNo = 1
  /\ batchSeq = [t \in Threads |-> 0]
  /\ order = [t \in Threads |-> <<>>]
  /\ item = [t \in Threads |-> 0]
  /\ batchPos = [t \in Threads |-> NoPositions]

PendingKeys(t) == {k \in Keys : pending[t][k] # NoRec}

-----------------------------------------------------------------------------
(* WriteBatch::put                                                         *)
BatchPut(t, k, v) ==
  /\ "batch" \in Calls
  /\ pc[t] = "idle"
  /\ quota > 0
  /\ quota' = quota - 1
  /\ pending' = [pending EXCEPT ![t][k] = Rec(k, RawSeq, v, "Normal")]
  /\ UNCHANGED <<diskVars, fileVars, indexVars, lockVars, threadVars, pc,
                 batchLock, seqNo, commitVars>>

(* WriteBatch::delete asks the engine for the key.  What is pending for a  *)
(* key the engine does not have, or cannot read, is dropped; otherwise a   *)
(* tombstone is kept, also for a key that is neither stored nor pending.   *)
BatchDelete(t, k, out) ==
  /\ "batch" \in Calls
  /\ pc[t] = "idle"
  /\ quota > 0
  /\ quota' = quota - 1
  /\ index[k] # NoPos => activeW = NoThread /\ olderW = NoThread
  /\ LET missing == \/ index[k] = NoPos
                    \/ GetValueByPosition(index[k], out) \in {"Error", "KeyNotFound"}
     IN  pending' = [pending EXCEPT ![t][k] =
                       IF missing /\ k \in PendingKeys(t)
                       THEN NoRec ELSE Rec(k, RawSeq, EmptyValue, "Delete")]
  /\ UNCHANGED <<diskVars, fileVars, indexVars, lockVars, threadVars, pc,
                 batchLock, seqNo, commitVars>>

-----------------------------------------------------------------------------
(* Faulty: commits do not wait for each other.                             *)
CommitStartUnlocked(t) ==
  LET keys == PendingKeys(t)
  IN
  /\ Goto(t, "idle", "batch.lock")
  /\ keys # {}
  /\ Cardinality(keys) <= MaxBatchNum
  /\ seqNo <= MaxBatches
  /\ batchLock' = t
  /\ batchSeq' = [batchSeq EXCEPT ![t] = seqNo]
  /\ seqNo' = seqNo + 1
  /\ \E o \in Bijection(1..Cardinality(keys), keys) : order' = [order EXCEPT ![t] = o]
  /\ item' = [item EXCEPT ![t] = 1]
  /\ UNCHANGED <<diskVars, fileVars, indexVars, lockVars, threadVars, quota, pending, batchPos>>

(* WriteBatch::commit.  It returns at once when there is nothing pending,  *)
(* and with an error when there is too much.                               *)
CommitStart(t) ==
  LET keys == PendingKeys(t)
  IN
  /\ Goto(t, "idle", "batch.lock")
  /\ keys # {}
  /\ Cardinality(keys) <= MaxBatchNum
  /\ batchLock = NoThread
  /\ seqNo <= MaxBatches
  /\ batchLock' = t
  /\ batchSeq' = [batchSeq EXCEPT ![t] = seqNo]
  /\ seqNo' = seqNo + 1
  /\ \E o \in Bijection(1..Cardinality(keys), keys) : order' = [order EXCEPT ![t] = o]
  /\ item' = [item EXCEPT ![t] = 1]
  /\ UNCHANGED <<diskVars, fileVars, indexVars, lockVars, threadVars, quota, pending, batchPos>>

(* append_log_record waits for the active file, for each record anew.      *)
BatchLock(t) ==
  /\ Goto(t, "batch.lock", "batch.write")
  /\ LockActive(t)
  /\ UNCHANGED <<diskVars, fileVars, indexVars, activeR, olderW, threadVars, quota, batchVars>>

ItemKey(t) == order[t][item[t]]

(* Faulty: the loop ends one record early.                                 *)
MoreItemsShort(t) == item[t] < Cardinality(PendingKeys(t))

MoreItems(t) == item[t] <= Cardinality(PendingKeys(t))

(* Faulty: the record that seals the batch carries no sequence number.     *)
BatchRecordUnnumberedSeal(t) ==
  IF MoreItems(t)
  THEN LET r == pending[t][ItemKey(t)] IN Rec(r.key, batchSeq[t], r.val, r.type)
  ELSE Rec(TxnFinKey, NON_TRANSACTION_SEQ_NO, EmptyValue, "TxnFinished")

(* The record of the loop, and after the last one the record that seals    *)
(* the batch.                                                              *)
BatchRecord(t) ==
  IF MoreItems(t)
  THEN LET r == pending[t][ItemKey(t)] IN Rec(r.key, batchSeq[t], r.val, r.type)
  ELSE Rec(TxnFinKey, batchSeq[t], EmptyValue, "TxnFinished")

(* Leaving commit drops batch_commit_lock and the positions; an error      *)
(* keeps what is pending.                                                  *)
EndCommit(t) ==
  /\ batchLock' = NoThread
  /\ pos' = [pos EXCEPT ![t] = NoPos]
  /\ batchSeq' = [batchSeq EXCEPT ![t] = 0]
  /\ order' = [order EXCEPT ![t] = <<>>]
  /\ item' = [item EXCEPT ![t] = 0]
  /\ batchPos' = [batchPos EXCEPT ![t] = NoPositions]

(* Faulty: the sync of the commit is forgotten.                            *)
AfterSealNoSync == "batch.index"

AfterSeal == IF BatchSyncWrites THEN "batch.sync" ELSE "batch.index"

BatchWrite(t, out) ==
  /\ Goto(t, "batch.write",
          IF out # "ok" THEN "idle" ELSE IF MoreItems(t) THEN "batch.lock" ELSE AfterSeal)
  /\ AppendLogRecord(t, BatchRecord(t), out)
  /\ IF out # "ok" THEN EndCommit(t)
     ELSE /\ IF MoreItems(t)
             THEN /\ item' = [item EXCEPT ![t] = @ + 1]
                  /\ batchPos' = [batchPos EXCEPT ![t][ItemKey(t)] = pos'[t]]
             ELSE /\ item' = [item EXCEPT ![t] = 1]
                  /\ UNCHANGED batchPos
          /\ UNCHANGED <<batchLock, batchSeq, order>>
  /\ UNCHANGED <<indexVars, rec, old, got, quota, pending, seqNo>>

(* engine.sync() inside commit: the active file, whichever it is by now.   *)
BatchSync(t, out) ==
  /\ Goto(t, "batch.sync", IF out = "ok" THEN "batch.index" ELSE "idle")
  /\ activeW = NoThread
  /\ IF out = "ok"
     THEN /\ durable' = SyncFiles({activeId}, flen)
          /\ UNCHANGED <<batchLock, commitVars, pos>>
     ELSE EndCommit(t) /\ UNCHANGED durable
  /\ UNCHANGED <<disk, flen, fileVars, indexVars, lockVars, rec, old, got, quota,
                 pending, seqNo>>

(* Faulty: a tombstone of the batch is indexed like a put.                 *)
BatchIndexIgnoresType(t) ==
  LET k == ItemKey(t)
      last == item[t] = Cardinality(PendingKeys(t))
  IN
  /\ Goto(t, "batch.index", IF last THEN "idle" ELSE "batch.index")
  /\ IndexPut(k, batchPos[t][k])
  /\ IF last
     THEN /\ pending' = [pending EXCEPT ![t] = NoPending]
          /\ EndCommit(t)
     ELSE /\ item' = [item EXCEPT ![t] = @ + 1]
          /\ UNCHANGED <<pending, batchLock, batchSeq, order, batchPos, pos>>
  /\ UNCHANGED <<diskVars, fileVars, lockVars, rec, old, got, quota, seqNo>>

(* The index is updated record by record; after the last one the batch is  *)
(* emptied and the next commit may start.                                  *)
BatchIndex(t) ==
  LET k == ItemKey(t)
      last == item[t] = Cardinality(PendingKeys(t))
  IN
  /\ Goto(t, "batch.index", IF last THEN "idle" ELSE "batch.index")
  /\ IF pending[t][k].type = "Normal" THEN IndexPut(k, batchPos[t][k]) ELSE IndexDelete(k, 0)
  /\ IF last
     THEN /\ pending' = [pending EXCEPT ![t] = NoPending]
          /\ EndCommit(t)
     ELSE /\ item' = [item EXCEPT ![t] = @ + 1]
          /\ UNCHANGED <<pending, batchLock, batchSeq, order, batchPos, pos>>
  /\ UNCHANGED <<diskVars, fileVars, lockVars, rec, old, got, quota, seqNo>>

BatchCall(t) ==
  \/ \E k \in Keys, v \in Values : BatchPut(t, k, v)
  \/ \E k \in Keys, out \in ReadOutcomes : BatchDelete(t, k, out)
  \/ CommitStart(t)

BatchStep(t) ==
  \/ BatchLock(t)
  \/ \E out \in Outcomes : BatchWrite(t, out)
  \/ \E out \in Outcomes \cap {"ok", "sync"} : BatchSync(t, out)
  \/ BatchIndex(t)

BatchNext ==
  \/ EngineNext /\ UNCHANGED batchVars
  \/ \E t \in Threads : BatchCall(t) \/ BatchStep(t)

BatchSpec == EngineInit /\ BatchInit /\ [][BatchNext]_<<engineVars, batchVars>>
-----------------------------------------------------------------------------
BatchPCs == {"batch.lock", "batch.write", "batch.sync", "batch.index"}

(* What is left of the shape of the batch state when other operations add  *)
(* program counters.                                                       *)
BatchShape ==
  /\ pending \in [Threads -> [Keys -> LogRecord]]
  /\ batchLock \in Threads \cup {NoThread}
  /\ seqNo \in Nat \ {0}
  /\ batchSeq \in [Threads -> Nat]
  /\ order \in [Threads -> Seq(Keys)]
  /\ item \in [Threads -> Nat]
  /\ \A t \in Threads : item[t] <= Len(order[t]) + 1
  /\ batchPos \in [Threads -> [Keys -> MaybePositions]]

(* The shape of the batch state; sequence number 0 stays reserved for      *)
(* records outside any batch.                                              *)
BatchTypeOK == BatchShape /\ pc \in [Threads -> EnginePCs \cup BatchPCs]

(* The records of a batch, and the record that seals it.                   *)
BatchEntries(s) == {e \in disk : e.seq = s /\ e.type # "TxnFinished"}
Seals(s) == {e \in disk : e.seq = s /\ e.type = "TxnFinished"}

(* Nothing of a batch follows its seal.                                    *)
SealsFollow ==
  \A f \in disk : f.type = "TxnFinished" => \A e \in BatchEntries(f.seq) : Precedes(e, f)

(* A batch is sealed only after every pending record of it is in the log,  *)
(* once, and nothing of it follows the seal: a restart applies all of the  *)
(* batch or none of it, whatever other threads wrote in between and        *)
(* whichever earlier attempt to commit it failed.                          *)
BatchSealed ==
  /\ \A t \in Threads : pc[t] \in {"batch.sync", "batch.index"} =>
       /\ Cardinality(Seals(batchSeq[t])) = 1
       /\ pc[t] = "batch.sync" =>
            {Rec(e.key, RawSeq, e.val, e.type) : e \in BatchEntries(batchSeq[t])}
              = {pending[t][k] : k \in PendingKeys(t)}
  /\ SealsFollow

(* No reader sees a record of a batch that is not sealed: the index is     *)
(* updated after the seal is in the log.                                   *)
IndexedBatchesSealed ==
  \A k \in Keys, e \in disk :
    index[k] = PosOf(e) /\ e.seq > NON_TRANSACTION_SEQ_NO => Seals(e.seq) # {}

(* With sync_writes, a batch whose records become visible is durable in    *)
(* all the files it has been spread over, although commit syncs the active *)
(* file only.                                                              *)
SealedBatchDurable ==
  BatchSyncWrites =>
    \A t \in Threads : pc[t] = "batch.index" =>
      \A e \in disk : e.seq = batchSeq[t] => EndOf(e) <= durable[e.fid]

(* batch_commit_lock orders batches in the log by sequence number, so that *)
(* the last batch to update a key in the index is also the last one a      *)
(* restart applies.                                                        *)
BatchesSerial ==
  \A d, e \in disk :
    d.seq > NON_TRANSACTION_SEQ_NO /\ d.seq < e.seq => Precedes(d, e)

(***************************************************************************)
(* What the steps of a commit preserve and the properties above rest on.   *)
(***************************************************************************)
(* batch_commit_lock is held by exactly the thread that is in a commit.    *)
CommitsExclude == \A t \in Threads : pc[t] \in BatchPCs <=> batchLock = t

(* What is pending for a key is a put or a delete of that key.             *)
PendingSound ==
  \A t \in Threads :
    /\ IsFiniteSet(PendingKeys(t))
    /\ \A k \in PendingKeys(t) :
         /\ pending[t][k].key = k
         /\ pending[t][k].seq = RawSeq
         /\ pending[t][k].type \in {"Normal", "Delete"}

(* No sequence number of the log is still to be drawn, and a seal has one. *)
SeqNosDrawn ==
  \A e \in disk :
    /\ e.seq < seqNo
    /\ e.type = "TxnFinished" => e.seq > NON_TRANSACTION_SEQ_NO

(* A plain put writes, and finds, a record outside any batch.              *)
PlainPuts ==
  \A t \in Threads :
    /\ pc[t] \in {"put.lock", "put.write"} => rec[t].seq = NON_TRANSACTION_SEQ_NO
    /\ pc[t] \in {"del.lock", "del.write"} => rec[t].seq = RawSeq
    /\ pc[t] \in {"put.index", "put.insert"} =>
         \E e \in disk : PosOf(e) = pos[t] /\ e.seq = NON_TRANSACTION_SEQ_NO

(* The keys of the batch whose records are in the log.                     *)
WrittenKeys(t) ==
  IF pc[t] \in {"batch.lock", "batch.write"} THEN {order[t][i] : i \in 1..item[t] - 1}
                                             ELSE PendingKeys(t)

IsRecordOf(e, t, k) ==
  /\ PosOf(e) = batchPos[t][k]
  /\ e.key = k
  /\ e.seq = batchSeq[t]
  /\ e.val = pending[t][k].val
  /\ e.type = pending[t][k].type

(* A commit has drawn the last sequence number, goes through the pending   *)
(* records in some order, and the log holds exactly the records of those   *)
(* it has passed, at the positions it keeps, and then one seal.            *)
CommitSound(t) ==
  LET n == Cardinality(PendingKeys(t))
  IN
  /\ order[t] \in Bijection(1..n, PendingKeys(t))
  /\ PendingKeys(t) # {}
  /\ item[t] \in 1..n + 1
  /\ pc[t] \in {"batch.sync", "batch.index"} => item[t] <= n
  /\ batchSeq[t] = seqNo - 1
  /\ batchSeq[t] > NON_TRANSACTION_SEQ_NO
  /\ \A k \in WrittenKeys(t) : \E e \in disk : IsRecordOf(e, t, k)
  /\ \A e \in BatchEntries(batchSeq[t]) : \E k \in WrittenKeys(t) : IsRecordOf(e, t, k)
  /\ IF pc[t] \in {"batch.lock", "batch.write"} THEN Seals(batchSeq[t]) = {}
                                                ELSE \E f \in disk : Seals(batchSeq[t]) = {f}

BatchCore ==
  /\ CoreInv
  /\ BatchShape
  /\ CommitsExclude
  /\ PendingSound
  /\ SeqNosDrawn
  /\ PlainPuts
  /\ \A t \in Threads : pc[t] \in BatchPCs => CommitSound(t)
  /\ SealsFollow
  /\ IndexedBatchesSealed
  /\ SealedBatchDurable
  /\ BatchesSerial

BatchInv == BatchCore /\ BatchTypeOK

(* The bytes of the records of a commit that are in the log and that the   *)
(* loop over the index has not come to.                                    *)
Unindexed(t, k) ==
  pc[t] = "batch.index" => \A i \in 1..item[t] - 1 : order[t][i] # k

WaitingSize ==
  [k \in Keys |-> IF batchLock # NoThread /\ Unindexed(batchLock, k)
                  THEN batchPos[batchLock][k].size ELSE 0]

WaitingBytes == MapThenSumSet(LAMBDA k : WaitingSize[k], Keys)

(* What reclaim_size claims, what the index needs and what a put, a delete *)
(* or a commit has appended and will enter or reclaim are different bytes  *)
(* of the files; a thread outside commit keeps no positions.               *)
ReclaimInv ==
  /\ \A t \in Threads : pc[t] # "put.insert"
  /\ \A t \in Threads : pc[t] \notin BatchPCs => batchPos[t] = NoPositions
  /\ reclaim + LiveBytes + AppendedBytes + WaitingBytes <= SizeOf(flen, FileIds)
=============================================================================
