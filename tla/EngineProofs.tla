---------------------------- MODULE EngineProofs ----------------------------
(***************************************************************************)
(* Proofs about the running engine, for every set of threads, keys and     *)
(* values, every option of the engine and every I/O failure.               *)
(***************************************************************************)
EXTENDS Engine, TLAPS

(* A record takes at least one byte, so that two records of a file never   *)
(* start at the same offset (LogRecord::encoded_length).                   *)
LEMMA RecordNotEmpty ==
  ASSUME NEW r \in LogRecord
  PROVE  EncodedLength(r) \in Nat /\ EncodedLength(r) > 0
BY DataFileAssumption DEF EncodedLength, LogRecord

(* The record append_log_record writes is an entry of the disk.            *)
LEMMA EntryTyped ==
  ASSUME NEW r \in LogRecord, NEW fid \in FileIds, NEW off \in Nat
  PROVE  Entry(fid, off, r) \in Entries
BY RecordNotEmpty DEF Entry, Entries, LogRecord

(* What a position has named it still names after the step.                *)
PositionsStable ==
  /\ \A p, k, v : Holds(p, k, v) => Holds(p, k, v)'
  /\ \A p, k : Locates(p, k) => Locates(p, k)'

(* A position found through the index stays good when the files only grow. *)
LEMMA GrowingFilesKeepPositions ==
  ASSUME disk \subseteq disk',
         \A f : f = activeId \/ f \in older => f = activeId' \/ f \in older'
  PROVE  PositionsStable
<1>1. \A p, k, v : Holds(p, k, v) => Holds(p, k, v)'
  BY DEF Holds
<1>2. \A p, k : Locates(p, k) => Locates(p, k)'
  BY <1>1 DEF Locates
<1> QED
  BY <1>1, <1>2 DEF PositionsStable

(* A step that leaves the index and the files' records alone keeps every   *)
(* index entry good.                                                       *)
LEMMA IndexKept ==
  ASSUME IndexSound, PositionsStable, UNCHANGED index
  PROVE  IndexSound'
BY DEF IndexSound, PositionsStable

(* append_log_record keeps the state well typed, whatever call of it fails.*)
LEMMA AppendTyped ==
  ASSUME CoreTypeOK, LogWellFormed,
         NEW t \in Threads, NEW r \in LogRecord, NEW out \in Outcomes,
         AppendLogRecord(t, r, out)
  PROVE  /\ disk' \subseteq Entries
         /\ flen' \in [FileIds -> Nat]
         /\ durable' \in [FileIds -> Nat]
         /\ activeId' \in FileIds
         /\ writeOff' \in Nat
         /\ older' \subseteq FileIds
         /\ bytesWrite' \in Nat
         /\ pos' \in [Threads -> MaybePositions]
         /\ activeW' = NoThread
         /\ activeR' = activeR /\ olderW' = olderW
<1> DEFINE size == EncodedLength(r)
           fid == TargetFile(size)
           off == TargetOff(size)
<1>1. size \in Nat /\ size > 0
  BY RecordNotEmpty
<1>2. out \in {"ok", "rotate", "create", "write", "sync"}
  BY DEF Outcomes, AppendErrors
<1>3. out # "rotate" => fid \in FileIds
  BY <1>1, DataFileAssumption
  DEF AppendLogRecord, TargetFile, FileIds, CoreTypeOK
<1>4. off \in Nat
  BY DEF TargetOff, CoreTypeOK
<1>5. disk' \subseteq Entries /\ flen' \in [FileIds -> Nat]
  <2>1. CASE out \in {"ok", "sync"}
    <3>1. fid \in FileIds
      BY <1>3, <2>1
    <3>2. disk' = disk \cup {Entry(fid, flen[fid], r)}
          /\ flen' = [flen EXCEPT ![fid] = @ + size]
      BY <2>1 DEF AppendLogRecord
    <3>3. flen[fid] \in Nat
      BY <3>1 DEF CoreTypeOK
    <3>4. Entry(fid, flen[fid], r) \in Entries
      BY <3>1, <3>3, EntryTyped
    <3> QED
      BY <1>1, <3>1, <3>2, <3>3, <3>4 DEF CoreTypeOK
  <2>2. CASE out \notin {"ok", "sync"}
    BY <2>2 DEF AppendLogRecord, CoreTypeOK
  <2> QED
    BY <2>1, <2>2
<1>6. durable' \in [FileIds -> Nat]
  BY <1>5 DEF AppendLogRecord, SyncFiles, CoreTypeOK
<1>7. activeId' \in FileIds
  BY <1>3 DEF AppendLogRecord, CoreTypeOK
<1>8. older' \subseteq FileIds
  BY DEF AppendLogRecord, FullFile, CoreTypeOK
<1>9. writeOff' \in Nat
  BY <1>1, <1>2, <1>4 DEF AppendLogRecord, CoreTypeOK
<1>10. bytesWrite' \in Nat
  BY <1>1 DEF AppendLogRecord, CoreTypeOK
<1>11. pos' \in [Threads -> MaybePositions]
  <2>1. out = "ok" => Pos(fid, off, size) \in Positions
    BY <1>1, <1>3, <1>4 DEF Pos, Positions
  <2> QED
    BY <2>1 DEF AppendLogRecord, MaybePositions, CoreTypeOK
<1> QED
  BY <1>5, <1>6, <1>7, <1>8, <1>9, <1>10, <1>11 DEF AppendLogRecord

(* append_log_record leaves write_off at the end of the active file and    *)
(* every record in a file that a reader finds, through rotation and        *)
(* through every failure.                                                  *)
LEMMA AppendWellFormed ==
  ASSUME CoreTypeOK, LogWellFormed,
         NEW t \in Threads, NEW r \in LogRecord, NEW out \in Outcomes,
         AppendLogRecord(t, r, out)
  PROVE  LogWellFormed'
<1> DEFINE size == EncodedLength(r)
           fid == TargetFile(size)
           off == TargetOff(size)
           new == Entry(fid, flen[fid], r)
<1>1. size \in Nat /\ size > 0
  BY RecordNotEmpty
<1>2. out \in {"ok", "rotate", "create", "write", "sync"}
  BY DEF Outcomes, AppendErrors
<1>3. /\ activeId \in Nat /\ activeId \in FileIds
      /\ flen \in [FileIds -> Nat]
      /\ \A f \in FileIds : f \in Nat
      /\ \A e \in disk : e.fid \in FileIds /\ e.off \in Nat /\ e.size \in Nat
  BY DataFileAssumption DEF CoreTypeOK, FileIds, Entries
<1>4. CASE out \in {"rotate", "create"}
  <2>1. /\ activeId' = activeId /\ writeOff' = writeOff
        /\ disk' = disk /\ flen' = flen
        /\ older \subseteq older' /\ older' \subseteq older \cup {activeId}
    BY <1>4 DEF AppendLogRecord, FullFile
  <2> QED
    BY <1>3, <2>1 DEF LogWellFormed, EndOf
<1>5. CASE out \in {"write", "ok", "sync"}
  <2>1. /\ fid \in FileIds
        /\ fid >= activeId
        /\ activeId' = fid
        /\ older' = older \cup FullFile(size)
    BY <1>3, <1>5, DataFileAssumption DEF AppendLogRecord, TargetFile, FileIds
  <2>0. ASSUME NEW f \in FileIds, f > fid
        PROVE  f > activeId /\ f # fid
    <3>1. f \in Nat /\ fid \in Nat /\ activeId \in Nat
      BY <1>3, <2>1
    <3> QED
      BY <2>0, <2>1, <3>1
  <2>2. flen[fid] = off
    BY <1>3, <2>1 DEF LogWellFormed, TargetFile, TargetOff
  <2>3. \A f : f = activeId \/ f \in older => f = activeId' \/ f \in older'
    BY <2>1 DEF TargetFile, FullFile
  <2>4. \A f \in older' : f <= activeId'
    BY <1>3, <2>1 DEF TargetFile, FullFile, LogWellFormed, CoreTypeOK
  <2>5. CASE out = "write"
    <3>1. disk' = disk /\ flen' = flen /\ writeOff' = off
      BY <2>5 DEF AppendLogRecord
    <3>2. \A f \in FileIds : f > activeId' => flen'[f] = 0
      BY <2>0, <2>1, <3>1 DEF LogWellFormed
    <3> QED
      BY <2>1, <2>2, <2>3, <2>4, <3>1, <3>2 DEF LogWellFormed, EndOf
  <2>6. CASE out \in {"ok", "sync"}
    <3>1. /\ disk' = disk \cup {new}
          /\ flen' = [flen EXCEPT ![fid] = @ + size]
          /\ writeOff' = off + size
      BY <2>6 DEF AppendLogRecord
    <3>2. /\ new.fid = fid /\ new.off = off /\ new.size = size
      BY <2>2 DEF Entry
    <3>3. flen'[fid] = off + size /\ \A f \in FileIds : f # fid => flen'[f] = flen[f]
      BY <1>3, <2>1, <2>2, <3>1
    <3>4. off \in Nat
      BY <1>3, <2>1, <2>2
    <3>5. writeOff' = flen'[activeId']
      BY <2>1, <3>1, <3>3
    <3>6. \A f \in FileIds : f > activeId' => flen'[f] = 0
      BY <2>0, <2>1, <3>3 DEF LogWellFormed
    <3>7. ASSUME NEW e \in disk
          PROVE  /\ e.fid = activeId' \/ e.fid \in older'
                 /\ e.size > 0
                 /\ EndOf(e) <= flen[e.fid]
                 /\ EndOf(e) <= flen'[e.fid]
      <4>1. /\ e.fid \in FileIds /\ EndOf(e) \in Nat
            /\ EndOf(e) <= flen[e.fid] /\ e.size > 0
            /\ e.fid = activeId' \/ e.fid \in older'
        BY <1>3, <2>3 DEF LogWellFormed, EndOf
      <4>2. flen[e.fid] \in Nat
        BY <1>3, <4>1
      <4>3. flen'[e.fid] \in Nat /\ flen[e.fid] <= flen'[e.fid]
        <5>1. CASE e.fid = fid
          <6> HIDE DEF fid, off, size
          <6> QED
            BY <1>1, <2>2, <3>3, <3>4, <5>1
        <5>2. CASE e.fid # fid
          BY <3>3, <4>1, <4>2, <5>2
        <5> QED
          BY <5>1, <5>2
      <4> QED
        BY <4>1, <4>2, <4>3
    <3>8. /\ new.fid = activeId'
          /\ new.size > 0
          /\ EndOf(new) <= flen'[new.fid]
      BY <1>1, <2>1, <3>2, <3>3, <3>4 DEF EndOf
    <3>9. \A e \in disk : ~(e.fid = new.fid /\ e.off = new.off)
      BY <1>3, <2>2, <3>2, <3>4, <3>7 DEF EndOf
    <3>10. \A d, e \in disk' : d.fid = e.fid /\ d.off = e.off => d = e
      BY <3>1, <3>9 DEF LogWellFormed
    <3>11. \A e \in disk' : /\ e.fid = activeId' \/ e.fid \in older'
                            /\ e.size > 0
                            /\ EndOf(e) <= flen'[e.fid]
      BY <3>1, <3>7, <3>8
    <3> QED
      BY <2>4, <3>5, <3>6, <3>10, <3>11 DEF LogWellFormed, EndOf
  <2> QED
    BY <1>5, <2>5, <2>6
<1> QED
  BY <1>2, <1>4, <1>5

(* append_log_record moves no record and loses no file, and the position   *)
(* it returns for a put is where that put's record is.                     *)
LEMMA AppendLocates ==
  ASSUME CoreTypeOK, LogWellFormed,
         NEW t \in Threads, NEW r \in LogRecord, NEW out \in Outcomes,
         AppendLogRecord(t, r, out)
  PROVE  /\ PositionsStable
         /\ \A u \in Threads : u # t => pos'[u] = pos[u]
         /\ out = "ok" /\ r.type = "Normal" =>
              \A p : p = pos'[t] => Holds(p, r.key, r.val)'
<1> DEFINE size == EncodedLength(r)
           fid == TargetFile(size)
           new == Entry(fid, flen[fid], r)
<1>1. disk \subseteq disk'
  BY DEF AppendLogRecord
<1>2. \A f : f = activeId \/ f \in older => f = activeId' \/ f \in older'
  BY DEF AppendLogRecord, TargetFile, FullFile
<1>3. PositionsStable
  BY <1>1, <1>2, GrowingFilesKeepPositions
<1>4. pos' = [pos EXCEPT ![t] = IF out = "ok" THEN Pos(fid, TargetOff(size), size) ELSE NoPos]
  BY DEF AppendLogRecord
<1>5. ASSUME out = "ok", r.type = "Normal"
      PROVE  \A p : p = pos'[t] => Holds(p, r.key, r.val)'
  <2>1. disk' = disk \cup {new} /\ activeId' = fid
    BY <1>5 DEF AppendLogRecord
  <2>2. fid \in FileIds
    BY <1>5, DataFileAssumption DEF AppendLogRecord, TargetFile, FileIds, CoreTypeOK
  <2>3. flen[fid] = TargetOff(size)
    BY <2>2, DataFileAssumption DEF LogWellFormed, TargetFile, TargetOff, FileIds, CoreTypeOK
  <2>4. PosOf(new) = Pos(fid, TargetOff(size), size)
    BY <2>3 DEF PosOf, Pos, Entry
  <2>5. new.key = r.key /\ new.val = r.val /\ new.type = "Normal" /\ new.fid = fid
    BY <1>5 DEF Entry
  <2>6. pos'[t] = Pos(fid, TargetOff(size), size)
    BY <1>4, <1>5 DEF CoreTypeOK
  <2> QED
    BY <2>1, <2>4, <2>5, <2>6 DEF Holds, PosOf
<1> QED
  BY <1>3, <1>4, <1>5 DEF CoreTypeOK

(* append_log_record syncs a file before it stops being the active file.   *)
LEMMA AppendDurable ==
  ASSUME CoreTypeOK, LogWellFormed, OlderFilesDurable,
         NEW t \in Threads, NEW r \in LogRecord, NEW out \in Outcomes,
         AppendLogRecord(t, r, out)
  PROVE  OlderFilesDurable'
<1> DEFINE size == EncodedLength(r)
           fid == TargetFile(size)
<1>1. out \in {"ok", "rotate", "create", "write", "sync"}
  BY DEF Outcomes, AppendErrors
<1>2. CASE out \in {"rotate", "create"}
  <2>1. activeId' = activeId /\ flen' = flen /\ older' \subseteq older \cup {activeId}
    BY <1>2 DEF AppendLogRecord, FullFile
  <2>2. \A f \in older : f # activeId => durable'[f] = durable[f] \/ durable'[f] = flen'[f]
    BY <1>2 DEF AppendLogRecord, SyncFiles, CoreTypeOK
  <2> QED
    BY <2>1, <2>2 DEF OlderFilesDurable, CoreTypeOK
<1>3. CASE out \in {"write", "ok", "sync"}
  <2>1. activeId' = fid /\ older' = older \cup FullFile(size)
    BY <1>3 DEF AppendLogRecord
  <2>2. \A f \in FileIds : f # fid => flen'[f] = flen[f]
    BY <1>3 DEF AppendLogRecord, CoreTypeOK
  <2>3. ASSUME NEW f \in FileIds
        PROVE  durable'[f] = IF f \in SyncedFiles(size, out = "ok" /\ NeedSync(size))
                             THEN flen'[f] ELSE durable[f]
    BY <1>3 DEF AppendLogRecord, SyncFiles
  <2>4. ASSUME NEW f \in older', f # activeId'
        PROVE  durable'[f] = flen'[f]
    <3>1. f \in FileIds
      BY <2>1, <2>4 DEF FullFile, CoreTypeOK
    <3>2. CASE f \in FullFile(size)
      BY <2>3, <3>1, <3>2 DEF SyncedFiles
    <3>3. CASE f \notin FullFile(size)
      BY <2>1, <2>2, <2>3, <2>4, <3>1, <3>3
      DEF SyncedFiles, FullFile, TargetFile, OlderFilesDurable
    <3> QED
      BY <3>2, <3>3
  <2> QED
    BY <2>4 DEF OlderFilesDurable
<1> QED
  BY <1>1, <1>2, <1>3

(* append_log_record adds at most one record, after all the others, and a  *)
(* file is synced to its end or not at all.                                *)
LEMMA AppendFollows ==
  ASSUME CoreTypeOK, LogWellFormed,
         NEW t \in Threads, NEW r \in LogRecord, NEW out \in Outcomes,
         AppendLogRecord(t, r, out)
  PROVE  /\ \A f \in FileIds : durable'[f] = durable[f] \/ durable'[f] = flen'[f]
         /\ \/ out # "ok" /\ disk' = disk
            \/ \E new \in Entries :
                 /\ disk' = disk \cup {new}
                 /\ new.key = r.key /\ new.seq = r.seq
                 /\ new.val = r.val /\ new.type = r.type
                 /\ \A d \in disk : Precedes(d, new)
                 /\ out = "ok" => PosOf(new) = pos'[t]
<1> DEFINE size == EncodedLength(r)
           fid == TargetFile(size)
           new == Entry(fid, flen[fid], r)
<1>1. \A f \in FileIds : durable'[f] = durable[f] \/ durable'[f] = flen'[f]
  BY DEF AppendLogRecord, SyncFiles
<1>2. CASE out \notin {"ok", "sync"}
  BY <1>1, <1>2 DEF AppendLogRecord
<1>3. CASE out \in {"ok", "sync"}
  <2>1. /\ disk' = disk \cup {new} /\ activeId' = fid
        /\ pos' = [pos EXCEPT ![t] = IF out = "ok" THEN Pos(fid, TargetOff(size), size) ELSE NoPos]
    BY <1>3 DEF AppendLogRecord
  <2>2. fid \in FileIds /\ fid \in Nat /\ activeId \in FileIds /\ activeId \in Nat
    BY <1>3, DataFileAssumption DEF AppendLogRecord, TargetFile, FileIds, CoreTypeOK
  <2>3. flen[fid] = TargetOff(size) /\ flen[fid] \in Nat
    BY <2>2, DataFileAssumption DEF LogWellFormed, TargetFile, TargetOff, FileIds, CoreTypeOK
  <2>4. /\ new \in Entries
        /\ new.fid = fid /\ new.off = flen[fid]
        /\ new.key = r.key /\ new.seq = r.seq /\ new.val = r.val /\ new.type = r.type
    BY <2>2, <2>3, EntryTyped DEF Entry
  <2>5. ASSUME NEW d \in disk
        PROVE  Precedes(d, new)
    <3>1. /\ d.fid \in FileIds /\ d.fid \in Nat /\ d.off \in Nat /\ d.size \in Nat
          /\ d.size > 0 /\ d.off + d.size <= flen[d.fid]
          /\ d.fid <= activeId
      <4>1. d.fid \in FileIds /\ d.off \in Nat /\ d.size \in Nat
        BY DataFileAssumption DEF CoreTypeOK, Entries
      <4>2. d.size > 0 /\ d.off + d.size <= flen[d.fid]
        BY DEF LogWellFormed, EndOf
      <4>3. d.fid <= activeId
        BY <2>2 DEF LogWellFormed
      <4> QED
        BY <4>1, <4>2, <4>3, DataFileAssumption DEF FileIds
    <3>2. CASE d.fid = fid
      BY <2>3, <2>4, <3>1, <3>2 DEF Precedes
    <3>3. CASE d.fid # fid
      <4>1. fid >= activeId
        BY <2>2 DEF TargetFile
      <4> QED
        BY <2>2, <2>4, <3>1, <3>3, <4>1 DEF Precedes
    <3> QED
      BY <3>2, <3>3
  <2>6. out = "ok" => PosOf(new) = pos'[t]
    BY <2>1, <2>3 DEF PosOf, Pos, Entry, CoreTypeOK
  <2> QED
    BY <1>1, <2>1, <2>4, <2>5, <2>6
<1> QED
  BY <1>2, <1>3

(* A step that leaves the files alone keeps what is known of them.         *)
LEMMA QuietStep ==
  ASSUME LogWellFormed, OlderFilesDurable, UNCHANGED <<diskVars, fileVars>>
  PROVE  /\ LogWellFormed'
         /\ OlderFilesDurable'
         /\ PositionsStable
BY GrowingFilesKeepPositions DEF LogWellFormed, OlderFilesDurable, EndOf, diskVars, fileVars

(* The record variable of a thread that writes nothing.                    *)
LEMMA NoRecTyped == NoRec \in LogRecord
BY DataFileAssumption DEF NoRec, Rec, LogRecord, NON_TRANSACTION_SEQ_NO, RecordTypes

(* A step moves the program counter of one thread.                         *)
LEMMA PCMoves ==
  ASSUME CoreTypeOK, NEW t \in Threads, NEW to, pc' = [pc EXCEPT ![t] = to]
  PROVE  /\ pc' = [u \in Threads |-> pc'[u]]
         /\ pc'[t] = to
         /\ \A u \in Threads : u # t => pc'[u] = pc[u]
BY DEF CoreTypeOK

(* A step of thread t leaves what the other threads have in hand alone;    *)
(* what t has in hand afterwards is all there is to show.                  *)
LEMMA InFlightStep ==
  ASSUME InFlightSound, NEW t \in Threads,
         PositionsStable,
         \A u \in Threads : u # t =>
           pc'[u] = pc[u] /\ rec'[u] = rec[u] /\ pos'[u] = pos[u] /\ got'[u] = got[u],
         pc'[t] \in {"put.lock", "put.write", "put.index", "put.insert"} =>
           rec'[t].key \in Keys /\ rec'[t].type = "Normal",
         pc'[t] \in {"del.lock", "del.write", "del.index"} =>
           rec'[t].key \in Keys /\ rec'[t].type = "Delete",
         pc'[t] \in {"put.index", "put.insert"} =>
           \A p, k, v : p = pos'[t] /\ k = rec'[t].key /\ v = rec'[t].val => Holds(p, k, v)',
         pc'[t] \in {"get.lock", "get.read"} =>
           \A p : p = pos'[t] => \E k \in Keys : Locates(p, k)',
         pc'[t] # "get.done" => got'[t] = "none"
  PROVE  InFlightSound'
<1> SUFFICES ASSUME NEW u \in Threads
             PROVE
    /\ pc'[u] \in {"put.lock", "put.write", "put.index", "put.insert"} =>
         rec'[u].key \in Keys /\ rec'[u].type = "Normal"
    /\ pc'[u] \in {"del.lock", "del.write", "del.index"} =>
         rec'[u].key \in Keys /\ rec'[u].type = "Delete"
    /\ pc'[u] \in {"put.index", "put.insert"} =>
         \A p, k, v : p = pos'[u] /\ k = rec'[u].key /\ v = rec'[u].val => Holds(p, k, v)'
    /\ pc'[u] \in {"get.lock", "get.read"} =>
         \A p : p = pos'[u] => \E k \in Keys : Locates(p, k)'
    /\ pc'[u] # "get.done" => got'[u] = "none"
  BY DEF InFlightSound, Locates, Holds
<1>1. CASE u = t
  BY <1>1
<1>2. CASE u # t
  BY <1>2 DEF InFlightSound, PositionsStable
<1> QED
  BY <1>1, <1>2

(* A step of an operation other than put, get and delete has nothing of    *)
(* theirs in hand.                                                         *)
LEMMA OtherStepPreserves ==
  ASSUME CoreInv, NEW t \in Threads,
         CoreTypeOK', LogWellFormed', IndexSound', OlderFilesDurable', PositionsStable,
         pc[t] # "get.done", pc'[t] \notin EnginePCs \ {"idle"},
         \A u \in Threads : u # t => pc'[u] = pc[u] /\ pos'[u] = pos[u],
         rec' = rec, got' = got
  PROVE  CoreInv'
<1>1. got'[t] = "none"
  BY DEF CoreInv, InFlightSound
<1>2. \A u \in Threads : u # t =>
        pc'[u] = pc[u] /\ rec'[u] = rec[u] /\ pos'[u] = pos[u] /\ got'[u] = got[u]
  OBVIOUS
<1>3. pc'[t] \notin {"put.lock", "put.write", "put.index", "put.insert", "del.lock", "del.write",
                    "del.index", "get.lock", "get.read"}
  BY DEF EnginePCs
<1>4. InFlightSound'
  BY <1>1, <1>2, <1>3, InFlightStep DEF CoreInv
<1> QED
  BY <1>4 DEF CoreInv

(* The append of a put or a delete preserves the invariant: it hands the   *)
(* active file back and leaves the index to the next step.                 *)
LEMMA WriteStepPreserves ==
  ASSUME CoreInv, NEW t \in Threads, NEW out \in Outcomes, NEW to,
         AppendLogRecord(t, rec[t], out),
         pc[t] \in {"put.write", "del.write"},
         to = IF out # "ok" THEN "idle"
              ELSE IF pc[t] = "put.write" THEN "put.index" ELSE "del.index",
         pc' = [pc EXCEPT ![t] = to],
         rec' = IF out = "ok" THEN rec ELSE [rec EXCEPT ![t] = NoRec],
         UNCHANGED <<indexVars, old, got, quota>>
  PROVE  CoreInv'
<1> USE DEF CoreInv
<1>1. /\ rec[t] \in LogRecord
      /\ pc[t] = "put.write" => rec[t].key \in Keys /\ rec[t].type = "Normal"
      /\ pc[t] = "del.write" => rec[t].key \in Keys /\ rec[t].type = "Delete"
  BY DEF CoreTypeOK, InFlightSound
<1>2. LogWellFormed'
  BY <1>1, AppendWellFormed
<1>3. OlderFilesDurable'
  BY <1>1, AppendDurable
<1>4. /\ PositionsStable
      /\ \A u \in Threads : u # t => pos'[u] = pos[u]
      /\ out = "ok" /\ rec[t].type = "Normal" =>
           \A p, k, v : p = pos'[t] /\ k = rec[t].key /\ v = rec[t].val => Holds(p, k, v)'
  BY <1>1, AppendLocates
<1>5. CoreTypeOK'
  <2>1. pc' = [u \in Threads |-> pc'[u]]
    BY PCMoves
  <2>2. rec' \in [Threads -> LogRecord]
    BY NoRecTyped DEF CoreTypeOK
  <2>3. /\ disk' \subseteq Entries
        /\ flen' \in [FileIds -> Nat]
        /\ durable' \in [FileIds -> Nat]
        /\ activeId' \in FileIds
        /\ writeOff' \in Nat
        /\ older' \subseteq FileIds
        /\ bytesWrite' \in Nat
        /\ pos' \in [Threads -> MaybePositions]
        /\ activeW' = NoThread
        /\ activeR' = activeR /\ olderW' = olderW
    BY <1>1, AppendTyped
  <2> QED
    BY <2>1, <2>2, <2>3 DEF CoreTypeOK, indexVars
<1>6. IndexSound'
  BY <1>4, IndexKept DEF indexVars
<1>7. InFlightSound'
  <2>1. \A u \in Threads : u # t =>
          pc'[u] = pc[u] /\ rec'[u] = rec[u] /\ pos'[u] = pos[u] /\ got'[u] = got[u]
    BY <1>4 DEF CoreTypeOK
  <2>2. pc'[t] = to /\ got'[t] = "none" /\ (out = "ok" => rec'[t] = rec[t])
    BY DEF CoreTypeOK, InFlightSound
  <2> QED
    BY <1>1, <1>4, <2>1, <2>2, InFlightStep
<1> QED
  BY <1>2, <1>3, <1>5, <1>6, <1>7

-----------------------------------------------------------------------------
(* The steps of a put preserve the invariant.                              *)
LEMMA PutStepsPreserve ==
  ASSUME CoreInv, NEW t \in Threads,
         \/ \E k \in Keys, v \in Values : PutStart(t, k, v)
         \/ PutLock(t)
         \/ \E out \in Outcomes : PutWrite(t, out)
         \/ TreePut(t)
         \/ SkipListGet(t)
         \/ SkipListRemove(t)
         \/ SkipListInsert(t)
  PROVE  CoreInv'
<1> USE DEF CoreInv
<1>1. ASSUME NEW k \in Keys, NEW v \in Values, PutStart(t, k, v)
      PROVE  CoreInv'
  <2> USE <1>1 DEF PutStart, Goto
  <2>1. LogWellFormed' /\ OlderFilesDurable' /\ PositionsStable
    BY QuietStep
  <2>2. Rec(k, NON_TRANSACTION_SEQ_NO, v, "Normal") \in LogRecord
    BY DEF Rec, LogRecord, NON_TRANSACTION_SEQ_NO, RecordTypes
  <2>9. pc' = [u \in Threads |-> pc'[u]]
    BY PCMoves
  <2>3. CoreTypeOK'
    BY <2>2, <2>9 DEF CoreTypeOK, diskVars, fileVars, indexVars, lockVars
  <2>4. IndexSound'
    BY <2>1, IndexKept DEF indexVars
  <2>5. InFlightSound'
    <3>1. \A u \in Threads : u # t =>
            pc'[u] = pc[u] /\ rec'[u] = rec[u] /\ pos'[u] = pos[u] /\ got'[u] = got[u]
      BY DEF CoreTypeOK
    <3>2. pc'[t] = "put.lock" /\ got'[t] = "none"
      BY DEF CoreTypeOK, InFlightSound
    <3>3. rec'[t].key \in Keys /\ rec'[t].type = "Normal"
      BY DEF CoreTypeOK, Rec
    <3> QED
      BY <2>1, <3>1, <3>2, <3>3, InFlightStep
  <2> QED
    BY <2>1, <2>3, <2>4, <2>5
<1>2. CASE PutLock(t)
  <2> USE <1>2 DEF PutLock, Goto, LockActive
  <2>1. LogWellFormed' /\ OlderFilesDurable' /\ PositionsStable
    BY QuietStep
  <2>2. CoreTypeOK'
    BY DEF CoreTypeOK, diskVars, fileVars, indexVars, threadVars
  <2>3. IndexSound'
    BY <2>1, IndexKept DEF indexVars
  <2>4. InFlightSound'
    <3>1. \A u \in Threads : u # t =>
            pc'[u] = pc[u] /\ rec'[u] = rec[u] /\ pos'[u] = pos[u] /\ got'[u] = got[u]
      BY DEF CoreTypeOK, threadVars
    <3>2. pc'[t] = "put.write" /\ got'[t] = "none"
      BY DEF CoreTypeOK, InFlightSound, threadVars
    <3>3. rec'[t] = rec[t] /\ rec[t].key \in Keys /\ rec[t].type = "Normal"
      BY DEF CoreTypeOK, threadVars, InFlightSound
    <3> QED
      BY <2>1, <3>1, <3>2, <3>3, InFlightStep
  <2> QED
    BY <2>1, <2>2, <2>3, <2>4
<1>3. ASSUME NEW out \in Outcomes, PutWrite(t, out)
      PROVE  CoreInv'
  BY <1>3, WriteStepPreserves DEF PutWrite, Goto
<1>4. CASE TreePut(t)
  <2> USE <1>4 DEF TreePut, Goto, IndexPut
  <2>1. LogWellFormed' /\ OlderFilesDurable' /\ PositionsStable
    BY QuietStep
  <2>0. rec[t].key \in Keys /\ rec[t].val \in Values /\ Holds(pos[t], rec[t].key, rec[t].val)
    BY DEF InFlightSound, CoreTypeOK, LogRecord
  <2>2. /\ rec[t].key \in Keys
        /\ Locates(pos[t], rec[t].key)
        /\ index[rec[t].key].size \in Nat
    BY <2>0 DEF CoreTypeOK, MaybePositions, Positions, NoPos, Pos, Locates
  <2>9. pc' = [u \in Threads |-> pc'[u]]
    BY PCMoves
  <2>3. CoreTypeOK'
    BY <2>2, <2>9, NoRecTyped
    DEF CoreTypeOK, MaybePositions, diskVars, fileVars, lockVars
  <2>4. IndexSound'
    <3> SUFFICES ASSUME NEW k \in Keys, index'[k] # NoPos
                 PROVE  \A p : p = index'[k] => Locates(p, k)'
      BY DEF IndexSound, Locates, Holds
    <3> QED
      BY <2>1, <2>2 DEF IndexSound, CoreTypeOK, PositionsStable, Locates
  <2>5. InFlightSound'
    <3>1. \A u \in Threads : u # t =>
            pc'[u] = pc[u] /\ rec'[u] = rec[u] /\ pos'[u] = pos[u] /\ got'[u] = got[u]
      BY DEF CoreTypeOK
    <3>2. pc'[t] = "idle" /\ got'[t] = "none"
      BY DEF CoreTypeOK, InFlightSound
    <3> QED
      BY <2>1, <3>1, <3>2, InFlightStep
  <2> QED
    BY <2>1, <2>3, <2>4, <2>5
<1>5. CASE SkipListGet(t)
  <2> USE <1>5 DEF SkipListGet, Goto
  <2>1. LogWellFormed' /\ OlderFilesDurable' /\ PositionsStable
    BY QuietStep
  <2>2. rec[t].key \in Keys
    BY DEF InFlightSound
  <2>3. CoreTypeOK'
    BY <2>2 DEF CoreTypeOK, diskVars, fileVars, indexVars, lockVars
  <2>4. IndexSound'
    BY <2>1, IndexKept DEF indexVars
  <2>5. InFlightSound'
    <3>1. \A u \in Threads : u # t =>
            pc'[u] = pc[u] /\ rec'[u] = rec[u] /\ pos'[u] = pos[u] /\ got'[u] = got[u]
      BY DEF CoreTypeOK
    <3>2. pc'[t] = "put.insert" /\ got'[t] = "none"
      BY DEF CoreTypeOK, InFlightSound
    <3>3. rec'[t] = rec[t] /\ pos'[t] = pos[t]
          /\ rec[t].key \in Keys /\ rec[t].type = "Normal"
          /\ Holds(pos[t], rec[t].key, rec[t].val)
      BY DEF CoreTypeOK, InFlightSound
    <3> QED
      BY <2>1, <3>1, <3>2, <3>3, InFlightStep DEF PositionsStable
  <2> QED
    BY <2>1, <2>3, <2>4, <2>5
<1>6. CASE SkipListInsert(t)
  <2> USE <1>6 DEF SkipListInsert, Goto
  <2>1. LogWellFormed' /\ OlderFilesDurable' /\ PositionsStable
    BY QuietStep
  <2>0. rec[t].key \in Keys /\ rec[t].val \in Values /\ Holds(pos[t], rec[t].key, rec[t].val)
    BY DEF InFlightSound, CoreTypeOK, LogRecord
  <2>2. /\ rec[t].key \in Keys
        /\ Locates(pos[t], rec[t].key)
        /\ old[t].size \in Nat
    BY <2>0 DEF CoreTypeOK, MaybePositions, Positions, NoPos, Pos, Locates
  <2>9. pc' = [u \in Threads |-> pc'[u]]
    BY PCMoves
  <2>3. CoreTypeOK'
    BY <2>2, <2>9, NoRecTyped
    DEF CoreTypeOK, MaybePositions, diskVars, fileVars, lockVars
  <2>4. IndexSound'
    <3> SUFFICES ASSUME NEW k \in Keys, index'[k] # NoPos
                 PROVE  \A p : p = index'[k] => Locates(p, k)'
      BY DEF IndexSound, Locates, Holds
    <3> QED
      BY <2>1, <2>2 DEF IndexSound, CoreTypeOK, PositionsStable, Locates
  <2>5. InFlightSound'
    <3>1. \A u \in Threads : u # t =>
            pc'[u] = pc[u] /\ rec'[u] = rec[u] /\ pos'[u] = pos[u] /\ got'[u] = got[u]
      BY DEF CoreTypeOK
    <3>2. pc'[t] = "idle" /\ got'[t] = "none"
      BY DEF CoreTypeOK, InFlightSound
    <3> QED
      BY <2>1, <3>1, <3>2, InFlightStep
  <2> QED
    BY <2>1, <2>3, <2>4, <2>5
<1>7. CASE SkipListRemove(t)
  <2> USE <1>7 DEF SkipListRemove
  <2>1. LogWellFormed' /\ OlderFilesDurable' /\ PositionsStable
    BY QuietStep
  <2>2. CoreTypeOK'
    BY DEF CoreTypeOK, MaybePositions, diskVars, fileVars, lockVars, threadVars
  <2>3. IndexSound'
    <3> SUFFICES ASSUME NEW k \in Keys, index'[k] # NoPos
                 PROVE  \A p : p = index'[k] => Locates(p, k)'
      BY DEF IndexSound, Locates, Holds
    <3> QED
      BY <2>1 DEF IndexSound, CoreTypeOK, PositionsStable, Locates
  <2>4. InFlightSound'
    BY <2>1 DEF InFlightSound, PositionsStable, threadVars
  <2> QED
    BY <2>1, <2>2, <2>3, <2>4
<1> QED
  BY <1>1, <1>2, <1>3, <1>4, <1>5, <1>6, <1>7

(* The steps of a delete preserve the invariant.                           *)
LEMMA DeleteStepsPreserve ==
  ASSUME CoreInv, NEW t \in Threads,
         \/ \E k \in Keys : DeleteStart(t, k)
         \/ DeleteLock(t)
         \/ \E out \in Outcomes : DeleteWrite(t, out)
         \/ DeleteIndex(t)
  PROVE  CoreInv'
<1> USE DEF CoreInv
<1>1. ASSUME NEW k \in Keys, DeleteStart(t, k)
      PROVE  CoreInv'
  <2> USE <1>1 DEF DeleteStart, Goto
  <2>1. LogWellFormed' /\ OlderFilesDurable' /\ PositionsStable
    BY QuietStep
  <2>2. Rec(k, RawSeq, EmptyValue, "Delete") \in LogRecord
    BY DataFileAssumption DEF Rec, LogRecord, RawSeq, RecordTypes
  <2>3. CoreTypeOK'
    <3>1. rec' \in [Threads -> LogRecord] /\ pc' = [u \in Threads |-> pc'[u]]
      BY <2>2 DEF CoreTypeOK
    <3> QED
      BY <3>1 DEF CoreTypeOK, diskVars, fileVars, indexVars, lockVars
  <2>4. IndexSound'
    BY <2>1, IndexKept DEF indexVars
  <2>5. InFlightSound'
    <3>1. \A u \in Threads : u # t =>
            pc'[u] = pc[u] /\ rec'[u] = rec[u] /\ pos'[u] = pos[u] /\ got'[u] = got[u]
      BY DEF CoreTypeOK
    <3>2. pc'[t] = "del.lock" /\ got'[t] = "none"
      BY DEF CoreTypeOK, InFlightSound
    <3>3. rec'[t].key \in Keys /\ rec'[t].type = "Delete"
      BY DEF CoreTypeOK, Rec
    <3> QED
      BY <2>1, <3>1, <3>2, <3>3, InFlightStep
  <2> QED
    BY <2>1, <2>3, <2>4, <2>5
<1>2. CASE DeleteLock(t)
  <2> USE <1>2 DEF DeleteLock, Goto, LockActive
  <2>1. LogWellFormed' /\ OlderFilesDurable' /\ PositionsStable
    BY QuietStep
  <2>2. CoreTypeOK'
    BY DEF CoreTypeOK, diskVars, fileVars, indexVars, threadVars
  <2>3. IndexSound'
    BY <2>1, IndexKept DEF indexVars
  <2>4. InFlightSound'
    <3>1. \A u \in Threads : u # t =>
            pc'[u] = pc[u] /\ rec'[u] = rec[u] /\ pos'[u] = pos[u] /\ got'[u] = got[u]
      BY DEF CoreTypeOK, threadVars
    <3>2. pc'[t] = "del.write" /\ got'[t] = "none"
      BY DEF CoreTypeOK, InFlightSound, threadVars
    <3>3. rec'[t] = rec[t] /\ rec[t].key \in Keys /\ rec[t].type = "Delete"
      BY DEF CoreTypeOK, threadVars, InFlightSound
    <3> QED
      BY <2>1, <3>1, <3>2, <3>3, InFlightStep
  <2> QED
    BY <2>1, <2>2, <2>3, <2>4
<1>3. ASSUME NEW out \in Outcomes, DeleteWrite(t, out)
      PROVE  CoreInv'
  BY <1>3, WriteStepPreserves DEF DeleteWrite, Goto
<1>4. CASE DeleteIndex(t)
  <2> USE <1>4 DEF DeleteIndex, Goto, IndexDelete
  <2>1. LogWellFormed' /\ OlderFilesDurable' /\ PositionsStable
    BY QuietStep
  <2>2. /\ rec[t].key \in Keys
        /\ index[rec[t].key].size \in Nat
        /\ pos[t].size \in Nat
    BY DEF InFlightSound, CoreTypeOK, MaybePositions, Positions, NoPos, Pos
  <2>9. pc' = [u \in Threads |-> pc'[u]]
    BY PCMoves
  <2>3. CoreTypeOK'
    BY <2>2, <2>9, NoRecTyped
    DEF CoreTypeOK, MaybePositions, diskVars, fileVars, lockVars
  <2>4. IndexSound'
    <3> SUFFICES ASSUME NEW k \in Keys, index'[k] # NoPos
                 PROVE  \A p : p = index'[k] => Locates(p, k)'
      BY DEF IndexSound, Locates, Holds
    <3> QED
      BY <2>1, <2>2 DEF IndexSound, CoreTypeOK, PositionsStable, Locates
  <2>5. InFlightSound'
    <3>1. \A u \in Threads : u # t =>
            pc'[u] = pc[u] /\ rec'[u] = rec[u] /\ pos'[u] = pos[u] /\ got'[u] = got[u]
      BY DEF CoreTypeOK
    <3>2. pc'[t] = "idle" /\ got'[t] = "none"
      BY DEF CoreTypeOK, InFlightSound
    <3> QED
      BY <2>1, <3>1, <3>2, InFlightStep
  <2> QED
    BY <2>1, <2>3, <2>4, <2>5
<1> QED
  BY <1>1, <1>2, <1>3, <1>4

(* What a get reads from the files is an answer: a value or an error.      *)
LEMMA ReadTyped ==
  ASSUME CoreTypeOK, NEW p, NEW out
  PROVE  GetValueByPosition(p, out) \in Replies
<1> DEFINE starts == StartsAt(disk, p.fid, p.off)
           read == ReadLogRecord(disk, flen, p.fid, p.off)
<1>1. CASE starts # {}
  <2>1. read.status = "ok" /\ read.entry \in disk
    BY <1>1 DEF ReadLogRecord, StartsAt
  <2>2. read.entry.val \in Values
    BY <2>1 DEF CoreTypeOK, Entries
  <2> QED
    BY <2>2 DEF GetValueByPosition, Replies
<1>2. CASE starts = {}
  <2>1. read.status \in {"eof", "corrupt"}
    BY <1>2 DEF ReadLogRecord
  <2> QED
    BY <2>1 DEF GetValueByPosition, Replies
<1> QED
  BY <1>1, <1>2

(* read_log_record at the start of a record returns that record: no two    *)
(* records of a file start at the same offset.                             *)
LEMMA ReadReturns ==
  ASSUME NEW d, NEW len, NEW e \in d,
         \A x, y \in d : x.fid = y.fid /\ x.off = y.off => x = y
  PROVE  /\ ReadLogRecord(d, len, e.fid, e.off).status = "ok"
         /\ ReadLogRecord(d, len, e.fid, e.off).entry = e
<1>1. StartsAt(d, e.fid, e.off) = {e}
  BY DEF StartsAt
<1>2. ReadLogRecord(d, len, e.fid, e.off) = [status |-> "ok", entry |-> e]
  BY <1>1 DEF ReadLogRecord
<1> QED
  BY <1>2

(* The value at a position is the value that was put there, and a read of  *)
(* it returns that value unless the read fails.                            *)
LEMMA HeldValue ==
  ASSUME LogWellFormed, NEW p, NEW k, NEW v, Holds(p, k, v), NEW out
  PROVE  /\ ValueAt(p) = v
         /\ GetValueByPosition(p, out) = IF out = "read" THEN "Error" ELSE v
<1>1. PICK e \in disk : /\ PosOf(e) = p /\ e.val = v /\ e.type = "Normal"
                        /\ e.fid = activeId \/ e.fid \in older
  BY DEF Holds
<1>2. p.fid = e.fid /\ p.off = e.off
  BY <1>1 DEF PosOf, Pos
<1>3. /\ ReadLogRecord(disk, flen, p.fid, p.off).status = "ok"
      /\ ReadLogRecord(disk, flen, p.fid, p.off).entry = e
  BY <1>2, ReadReturns DEF LogWellFormed
<1>4. ValueAt(p) = v
  BY <1>1, <1>3 DEF ValueAt
<1>5. GetValueByPosition(p, out) = IF out = "read" THEN "Error" ELSE v
  BY <1>1, <1>2, <1>3 DEF GetValueByPosition
<1> QED
  BY <1>4, <1>5

(* The steps of a get and a sync preserve the invariant.                   *)
LEMMA GetStepsPreserve ==
  ASSUME CoreInv, NEW t \in Threads,
         \/ \E k \in Keys : GetStart(t, k)
         \/ GetLock(t)
         \/ \E out \in ReadOutcomes : GetRead(t, out)
         \/ GetReturn(t)
         \/ Sync(t)
  PROVE  CoreInv'
<1> USE DEF CoreInv
<1>1. ASSUME NEW k \in Keys, GetStart(t, k)
      PROVE  CoreInv'
  <2> USE <1>1 DEF GetStart, Goto
  <2>1. LogWellFormed' /\ OlderFilesDurable' /\ PositionsStable
    BY QuietStep
  <2>2. CoreTypeOK'
    BY DEF CoreTypeOK, Replies, diskVars, fileVars, indexVars, lockVars
  <2>3. IndexSound'
    BY <2>1, IndexKept DEF indexVars
  <2>4. InFlightSound'
    <3>1. \A u \in Threads : u # t =>
            pc'[u] = pc[u] /\ rec'[u] = rec[u] /\ pos'[u] = pos[u] /\ got'[u] = got[u]
      BY DEF CoreTypeOK
    <3>2. CASE index[k] = NoPos
      <4>1. pc'[t] = "get.done"
        BY <3>2 DEF CoreTypeOK
      <4> QED
        BY <2>1, <3>1, <4>1, InFlightStep
    <3>3. CASE index[k] # NoPos
      <4>1. pc'[t] = "get.lock" /\ got'[t] = "none"
            /\ pos'[t] = index[k] /\ Locates(index[k], k)
        BY <3>3 DEF CoreTypeOK, IndexSound, InFlightSound
      <4> QED
        BY <2>1, <3>1, <4>1, InFlightStep DEF PositionsStable
    <3> QED
      BY <3>2, <3>3
  <2> QED
    BY <2>1, <2>2, <2>3, <2>4
<1>2. CASE GetLock(t)
  <2> USE <1>2 DEF GetLock, Goto, ReadLockActive
  <2>1. LogWellFormed' /\ OlderFilesDurable' /\ PositionsStable
    BY QuietStep
  <2>2. CoreTypeOK'
    BY DEF CoreTypeOK, diskVars, fileVars, indexVars, threadVars
  <2>3. IndexSound'
    BY <2>1, IndexKept DEF indexVars
  <2>4. InFlightSound'
    <3>1. \A u \in Threads : u # t =>
            pc'[u] = pc[u] /\ rec'[u] = rec[u] /\ pos'[u] = pos[u] /\ got'[u] = got[u]
      BY DEF CoreTypeOK, threadVars
    <3>2. pc'[t] = "get.read" /\ got'[t] = "none"
      BY DEF CoreTypeOK, InFlightSound, threadVars
    <3>3. pos'[t] = pos[t] /\ \E k \in Keys : Locates(pos[t], k)
      BY DEF CoreTypeOK, threadVars, InFlightSound
    <3> QED
      BY <2>1, <3>1, <3>2, <3>3, InFlightStep DEF PositionsStable
  <2> QED
    BY <2>1, <2>2, <2>3, <2>4
<1>3. ASSUME NEW out \in ReadOutcomes, GetRead(t, out)
      PROVE  CoreInv'
  <2> USE <1>3 DEF GetRead, Goto
  <2>1. LogWellFormed' /\ OlderFilesDurable' /\ PositionsStable
    BY QuietStep
  <2>2. CoreTypeOK'
    BY ReadTyped DEF CoreTypeOK, MaybePositions, diskVars, fileVars, indexVars
  <2>3. IndexSound'
    BY <2>1, IndexKept DEF indexVars
  <2>4. InFlightSound'
    <3>1. \A u \in Threads : u # t =>
            pc'[u] = pc[u] /\ rec'[u] = rec[u] /\ pos'[u] = pos[u] /\ got'[u] = got[u]
      BY DEF CoreTypeOK
    <3>2. pc'[t] = "get.done"
      BY DEF CoreTypeOK
    <3> QED
      BY <2>1, <3>1, <3>2, InFlightStep
  <2> QED
    BY <2>1, <2>2, <2>3, <2>4
<1>4. CASE GetReturn(t)
  <2> USE <1>4 DEF GetReturn, Goto
  <2>1. LogWellFormed' /\ OlderFilesDurable' /\ PositionsStable
    BY QuietStep
  <2>2. CoreTypeOK'
    BY DEF CoreTypeOK, Replies, diskVars, fileVars, indexVars, lockVars
  <2>3. IndexSound'
    BY <2>1, IndexKept DEF indexVars
  <2>4. InFlightSound'
    <3>1. \A u \in Threads : u # t =>
            pc'[u] = pc[u] /\ rec'[u] = rec[u] /\ pos'[u] = pos[u] /\ got'[u] = got[u]
      BY DEF CoreTypeOK
    <3>2. pc'[t] = "idle" /\ got'[t] = "none"
      BY DEF CoreTypeOK, InFlightSound
    <3> QED
      BY <2>1, <3>1, <3>2, InFlightStep
  <2> QED
    BY <2>1, <2>2, <2>3, <2>4
<1>5. CASE Sync(t)
  <2> USE <1>5 DEF Sync
  <2>1. CoreTypeOK'
    BY DEF CoreTypeOK, SyncFiles, fileVars, indexVars, lockVars, threadVars
  <2>2. LogWellFormed'
    BY DEF LogWellFormed, EndOf, fileVars
  <2>3. PositionsStable
    BY GrowingFilesKeepPositions DEF fileVars
  <2>4. IndexSound'
    BY <2>3, IndexKept DEF indexVars
  <2>5. InFlightSound'
    BY <2>3 DEF InFlightSound, PositionsStable, threadVars
  <2>6. OlderFilesDurable'
    BY DEF OlderFilesDurable, SyncFiles, CoreTypeOK, fileVars
  <2> QED
    BY <2>1, <2>2, <2>4, <2>5, <2>6
<1> QED
  BY <1>1, <1>2, <1>3, <1>4, <1>5

-----------------------------------------------------------------------------
(* No step of put, get, delete and sync leaves the invariant.              *)
LEMMA EngineStepPreserves ==
  ASSUME CoreInv, NEW t \in Threads, EngineCall(t) \/ EngineStep(t)
  PROVE  CoreInv'
BY PutStepsPreserve, DeleteStepsPreserve, GetStepsPreserve DEF EngineCall, EngineStep, PutIndex

(* A step of put, get, delete or sync moves its own thread, between        *)
(* program counters of its own.                                            *)
LEMMA EngineStepPC ==
  ASSUME CoreTypeOK, NEW t \in Threads, EngineCall(t) \/ EngineStep(t)
  PROVE  /\ pc[t] \in EnginePCs /\ pc'[t] \in EnginePCs
         /\ \A u \in Threads : u # t => pc'[u] = pc[u]
         /\ pc' = [u \in Threads |-> pc'[u]]
<1>1. ASSUME NEW from \in EnginePCs, NEW to \in EnginePCs, Goto(t, from, to)
      PROVE  /\ pc[t] \in EnginePCs /\ pc'[t] \in EnginePCs
             /\ \A u \in Threads : u # t => pc'[u] = pc[u]
             /\ pc' = [u \in Threads |-> pc'[u]]
  BY <1>1, PCMoves DEF Goto
<1>2. \/ \E from, to \in EnginePCs : Goto(t, from, to)
      \/ pc[t] \in EnginePCs /\ pc' = pc
  BY DEF EnginePCs, EngineCall, EngineStep, PutIndex, PutStart, DeleteStart, GetStart, Sync,
         PutLock, PutWrite, TreePut, SkipListGet, SkipListRemove, SkipListInsert,
         DeleteLock, DeleteWrite, DeleteIndex, GetLock, GetRead, GetReturn
<1> QED
  BY <1>1, <1>2 DEF CoreTypeOK, EnginePCs

(* What a step of put, get, delete or sync does to the files, the index    *)
(* and the records in hand: it appends the record in hand, or moves the    *)
(* index to the position in hand or to none, or does neither.              *)
LEMMA EngineStepEffect ==
  ASSUME CoreTypeOK, NEW t \in Threads, EngineCall(t) \/ EngineStep(t)
  PROVE  \/ /\ \E out \in Outcomes : AppendLogRecord(t, rec[t], out)
            /\ pc[t] \in {"put.write", "del.write"}
            /\ UNCHANGED index
         \/ /\ UNCHANGED <<disk, flen, fileVars>>
            /\ \A f \in FileIds : durable'[f] = durable[f] \/ durable'[f] = flen'[f]
            /\ \/ UNCHANGED index
               \/ /\ pc[t] \in {"put.index", "put.insert"}
                  /\ index' = [index EXCEPT ![rec[t].key] = pos[t]]
               \/ index' = [index EXCEPT ![rec[t].key] = NoPos]
<1>1. ASSUME UNCHANGED <<diskVars, fileVars, index>>
      PROVE  /\ UNCHANGED <<disk, flen, fileVars, index>>
             /\ \A f \in FileIds : durable'[f] = durable[f] \/ durable'[f] = flen'[f]
  BY <1>1 DEF diskVars
<1>2. ASSUME NEW out \in Outcomes, PutWrite(t, out) \/ DeleteWrite(t, out)
      PROVE  /\ AppendLogRecord(t, rec[t], out)
             /\ pc[t] \in {"put.write", "del.write"}
             /\ UNCHANGED index
  BY <1>2 DEF PutWrite, DeleteWrite, Goto, indexVars
<1>3. CASE TreePut(t) \/ SkipListInsert(t)
  BY <1>3 DEF TreePut, SkipListInsert, IndexPut, Goto, diskVars
<1>4. CASE DeleteIndex(t) \/ SkipListRemove(t)
  BY <1>4 DEF DeleteIndex, SkipListRemove, IndexDelete, Goto, diskVars
<1>5. CASE Sync(t)
  BY <1>5 DEF Sync, SyncFiles, indexVars
<1> QED
  BY <1>1, <1>2, <1>3, <1>4, <1>5
  DEF EngineCall, EngineStep, PutIndex, PutStart, DeleteStart, GetStart, PutLock,
      SkipListGet, DeleteLock, GetLock, GetRead, GetReturn, indexVars

(* A step of put, get, delete or sync keeps every position good, and the   *)
(* ones the other threads have in hand.                                    *)
LEMMA EngineStepKeepsPositions ==
  ASSUME CoreInv, NEW t \in Threads, EngineCall(t) \/ EngineStep(t)
  PROVE  /\ PositionsStable
         /\ \A u \in Threads : u # t => pos'[u] = pos[u]
<1> USE DEF CoreInv
<1>1. ASSUME NEW out \in Outcomes, AppendLogRecord(t, rec[t], out)
      PROVE  /\ PositionsStable
             /\ \A u \in Threads : u # t => pos'[u] = pos[u]
  <2>1. rec[t] \in LogRecord
    BY DEF CoreTypeOK
  <2> QED
    BY <1>1, <2>1, AppendLocates
<1>2. ASSUME UNCHANGED <<disk, flen, fileVars>>
      PROVE  PositionsStable
  BY <1>2, GrowingFilesKeepPositions DEF fileVars
<1>3. \/ \E out \in Outcomes : AppendLogRecord(t, rec[t], out)
      \/ pos' = pos
      \/ \E p : pos' = [pos EXCEPT ![t] = p]
  BY DEF EngineCall, EngineStep, PutIndex, PutStart, DeleteStart, GetStart, Sync,
         PutLock, PutWrite, TreePut, SkipListGet, SkipListRemove, SkipListInsert,
         DeleteLock, DeleteWrite, DeleteIndex, GetLock, GetRead, GetReturn, threadVars
<1>4. \A u \in Threads : u # t => pos'[u] = pos[u]
  BY <1>1, <1>3 DEF CoreTypeOK
<1> QED
  BY <1>1, <1>2, <1>4, EngineStepEffect

(* The locks of active_file are taken and released in the same steps that  *)
(* enter and leave the code that needs them.                               *)
LEMMA LocksKept ==
  ASSUME EngineInv, NEW t \in Threads, EngineCall(t) \/ EngineStep(t)
  PROVE  pc' \in [Threads -> EnginePCs] /\ LocksHeld'
<1> USE EngineAssumption DEF EngineInv, EngineTypeOK, EnginePCs, LocksHeld, Goto
<1>1. ASSUME NEW k \in Keys, NEW v \in Values,
             PutStart(t, k, v) \/ DeleteStart(t, k) \/ GetStart(t, k)
      PROVE  pc' \in [Threads -> EnginePCs] /\ LocksHeld'
  BY <1>1 DEF PutStart, DeleteStart, GetStart, lockVars
<1>2. CASE Sync(t)
  BY <1>2 DEF Sync, lockVars
<1>3. CASE PutLock(t) \/ DeleteLock(t) \/ GetLock(t)
  BY <1>3 DEF PutLock, DeleteLock, GetLock, LockActive, ReadLockActive
<1>4. ASSUME NEW out \in Outcomes, PutWrite(t, out) \/ DeleteWrite(t, out)
      PROVE  pc' \in [Threads -> EnginePCs] /\ LocksHeld'
  <2>1. activeW' = NoThread /\ activeR' = activeR
    BY <1>4 DEF PutWrite, DeleteWrite, AppendLogRecord
  <2> QED
    BY <1>4, <2>1 DEF PutWrite, DeleteWrite
<1>5. CASE TreePut(t) \/ SkipListGet(t) \/ SkipListRemove(t) \/ SkipListInsert(t)
           \/ DeleteIndex(t)
  BY <1>5 DEF TreePut, SkipListGet, SkipListRemove, SkipListInsert, DeleteIndex, lockVars
<1>6. CASE (\E out \in ReadOutcomes : GetRead(t, out)) \/ GetReturn(t)
  BY <1>6 DEF GetRead, GetReturn, lockVars
<1>7. EmptyValue \in Values
  BY DataFileAssumption
<1> QED
  BY <1>1, <1>2, <1>3, <1>4, <1>5, <1>6, <1>7 DEF EngineCall, EngineStep, PutIndex

-----------------------------------------------------------------------------
(* append_log_record counts what it writes, syncs when the count reaches   *)
(* bytes_per_sync, and starts a new file with nothing to sync.             *)
LEMMA AppendCounts ==
  ASSUME CoreTypeOK, LogWellFormed, SyncAccounting,
         NEW t \in Threads, NEW r \in LogRecord, NEW out \in Outcomes,
         AppendLogRecord(t, r, out)
  PROVE  SyncAccounting'
<1> DEFINE size == EncodedLength(r)
           fid == TargetFile(size)
           synced == out = "ok" /\ NeedSync(size)
<1>1. size \in Nat /\ size > 0 /\ BytesPerSync \in Nat
  BY RecordNotEmpty, EngineAssumption
<1>2. /\ out \in {"ok", "rotate", "create", "write", "sync"}
      /\ out \in Failures \cup {"ok"}
  BY DEF Outcomes, AppendErrors
<1>3. /\ flen \in [FileIds -> Nat] /\ durable \in [FileIds -> Nat]
      /\ activeId \in FileIds /\ bytesWrite \in Nat
      /\ \A f \in FileIds : f \in Nat
  BY DataFileAssumption DEF CoreTypeOK, FileIds
<1>4. /\ flen' \in [FileIds -> Nat] /\ durable' \in [FileIds -> Nat]
      /\ activeId' \in FileIds /\ bytesWrite' \in Nat
  BY AppendTyped
<1> HIDE DEF size
<1>5. CASE out = "rotate"
  <2>1. UNCHANGED <<flen, durable, activeId, bytesWrite>>
    BY <1>5 DEF AppendLogRecord
  <2> QED
    BY <2>1 DEF SyncAccounting, UnsyncedBounded, UnsyncedBytes
<1>6. CASE out = "create"
  <2>1. UNCHANGED <<flen, activeId, bytesWrite>> /\ Rotates(size)
    BY <1>6 DEF AppendLogRecord, size
  <2>2. \A f \in FileIds : durable'[f] = IF f = activeId THEN flen[f] ELSE durable[f]
    BY <1>6, <2>1 DEF AppendLogRecord, SyncFiles, SyncedFiles, FullFile, size
  <2> QED
    BY <1>1, <1>3, <2>1, <2>2 DEF SyncAccounting, UnsyncedBounded, UnsyncedBytes
<1>7. CASE out \in {"write", "ok", "sync"}
  <2>1. activeId' = fid /\ fid \in FileIds
    BY <1>4, <1>7 DEF AppendLogRecord, size
  <2>2. \A f \in FileIds : f # fid => flen'[f] = flen[f]
    BY <1>3, <1>7, <2>1 DEF AppendLogRecord, size
  <2>3. ASSUME NEW f \in FileIds
        PROVE  durable'[f] = IF f \in SyncedFiles(size, synced) THEN flen'[f] ELSE durable[f]
    BY <1>7 DEF AppendLogRecord, SyncFiles, size
  <2>4. IF out = "write" THEN flen'[fid] = flen[fid] /\ bytesWrite' = bytesWrite
                         ELSE /\ flen'[fid] = flen[fid] + size
                              /\ bytesWrite' = IF synced THEN 0 ELSE bytesWrite + size
    BY <1>3, <1>7, <2>1 DEF AppendLogRecord, size
  <2>5. \A f \in FileIds : durable'[f] <= flen'[f]
    BY <1>1, <1>3, <1>4, <1>7, <2>1, <2>2, <2>3, <2>4 DEF SyncAccounting
  <2>6. "sync" \notin Failures /\ BytesPerSync > 0 => bytesWrite' < BytesPerSync
    BY <1>1, <1>2, <1>3, <1>7, <2>4 DEF SyncAccounting, NeedSync
  <2>7. flen[fid] - durable[fid] <= bytesWrite
    <3>1. CASE fid = activeId
      BY <3>1 DEF SyncAccounting, UnsyncedBounded, UnsyncedBytes
    <3>2. CASE fid # activeId
      <4>1. flen[fid] = 0
        BY <1>3, <2>1, <3>2 DEF LogWellFormed, TargetFile
      <4> QED
        BY <1>3, <2>1, <4>1
    <3> QED
      BY <3>1, <3>2
  <2>8. synced => durable'[fid] = flen'[fid]
    BY <2>1, <2>3 DEF SyncedFiles
  <2>9. durable'[fid] \in {durable[fid], flen'[fid]}
    BY <2>1, <2>3
  <2>10. flen'[fid] - durable'[fid] <= bytesWrite'
    BY <1>1, <1>3, <1>4, <1>7, <2>1, <2>4, <2>7, <2>8, <2>9
  <2>11. ASSUME "sync" \notin Failures, SyncWrites
         PROVE  durable'[fid] = flen'[fid]
    <3>1. CASE out = "ok"
      BY <2>8, <2>11, <3>1 DEF NeedSync
    <3>2. CASE out = "write"
      <4>1. CASE fid = activeId
        <5>1. durable[fid] = flen[fid]
          BY <1>3, <2>11, <4>1 DEF SyncAccounting, UnsyncedBounded, UnsyncedBytes
        <5> QED
          BY <2>4, <2>9, <3>2, <5>1
      <4>2. CASE fid # activeId
        <5>1. flen[fid] = 0 /\ durable[fid] <= flen[fid]
          BY <1>3, <2>1, <4>2 DEF LogWellFormed, TargetFile, SyncAccounting
        <5> QED
          BY <1>3, <2>1, <2>4, <2>9, <3>2, <5>1
      <4> QED
        BY <4>1, <4>2
    <3> QED
      BY <1>2, <1>7, <2>11, <3>1, <3>2
  <2>12. UnsyncedBounded'
    BY <1>1, <1>4, <2>1, <2>6, <2>10, <2>11 DEF UnsyncedBounded, UnsyncedBytes
  <2> QED
    BY <2>5, <2>6, <2>12 DEF SyncAccounting
<1> QED
  BY <1>2, <1>5, <1>6, <1>7

(* Only an append and a sync touch the accounting.                         *)
LEMMA AccountingKept ==
  ASSUME EngineInv, NEW t \in Threads, EngineCall(t) \/ EngineStep(t)
  PROVE  SyncAccounting'
<1> USE DEF EngineInv, CoreInv
<1>1. ASSUME UNCHANGED <<diskVars, fileVars>>
      PROVE  SyncAccounting'
  BY <1>1 DEF SyncAccounting, UnsyncedBounded, UnsyncedBytes, diskVars, fileVars
<1>2. ASSUME NEW out \in Outcomes, PutWrite(t, out) \/ DeleteWrite(t, out)
      PROVE  SyncAccounting'
  <2>1. rec[t] \in LogRecord
    BY DEF CoreTypeOK
  <2> QED
    BY <1>2, <2>1, AppendCounts DEF PutWrite, DeleteWrite
<1>3. CASE Sync(t)
  <2>1. /\ UNCHANGED <<flen, activeId, bytesWrite>>
        /\ \A f \in FileIds : durable'[f] = IF f = activeId THEN flen[f] ELSE durable[f]
    BY <1>3 DEF Sync, SyncFiles, fileVars
  <2>2. /\ flen \in [FileIds -> Nat] /\ activeId \in FileIds
        /\ bytesWrite \in Nat /\ BytesPerSync \in Nat
    BY EngineAssumption DEF CoreTypeOK
  <2> QED
    BY <2>1, <2>2 DEF SyncAccounting, UnsyncedBounded, UnsyncedBytes
<1> QED
  BY <1>1, <1>2, <1>3
  DEF EngineCall, EngineStep, PutIndex, PutStart, DeleteStart, GetStart, PutLock, TreePut,
      SkipListGet, SkipListRemove, SkipListInsert, DeleteLock, DeleteIndex, GetLock, GetRead,
      GetReturn

-----------------------------------------------------------------------------
(* The empty engine satisfies the invariant.                               *)
LEMMA InitCore == EngineInit => CoreInv
<1> SUFFICES ASSUME EngineInit PROVE CoreInv
  OBVIOUS
<1> USE DEF EngineInit
<1>1. CoreTypeOK
  BY NoRecTyped, DataFileAssumption, EngineAssumption
  DEF CoreTypeOK, FileIds, MaybePositions, Replies
<1>2. LogWellFormed
  BY DataFileAssumption DEF LogWellFormed, FileIds
<1>3. IndexSound /\ InFlightSound /\ OlderFilesDurable
  BY DEF IndexSound, InFlightSound, OlderFilesDurable
<1> QED
  BY <1>1, <1>2, <1>3 DEF CoreInv

(* The invariant reads only the variables of the engine.                   *)
LEMMA StutterKeepsCore ==
  ASSUME CoreInv, UNCHANGED engineVars
  PROVE  CoreInv'
<1> USE DEF CoreInv, engineVars, diskVars, fileVars, indexVars, lockVars, threadVars
<1>1. CoreTypeOK'
  BY DEF CoreTypeOK
<1>2. LogWellFormed' /\ OlderFilesDurable' /\ PositionsStable
  BY QuietStep
<1>3. IndexSound' /\ InFlightSound'
  BY <1>2, IndexKept DEF InFlightSound, PositionsStable
<1> QED
  BY <1>1, <1>2, <1>3

(* The invariant holds when the engine starts.                             *)
LEMMA InitSatisfies == EngineInit => EngineInv
<1> SUFFICES ASSUME EngineInit PROVE EngineInv
  OBVIOUS
<1>1. CoreInv
  BY InitCore
<1>2. pc \in [Threads -> EnginePCs] /\ LocksHeld
  BY EngineAssumption DEF EngineInit, EnginePCs, LocksHeld
<1>3. SyncAccounting
  BY EngineAssumption, DataFileAssumption
  DEF EngineInit, SyncAccounting, UnsyncedBounded, UnsyncedBytes, FileIds
<1> QED
  BY <1>1, <1>2, <1>3 DEF EngineInv, EngineTypeOK, CoreInv

(* Every step of every thread preserves the invariant.                     *)
LEMMA NextPreserves == EngineInv /\ [EngineNext]_engineVars => EngineInv'
<1> SUFFICES ASSUME EngineInv, [EngineNext]_engineVars PROVE EngineInv'
  OBVIOUS
<1>1. ASSUME NEW t \in Threads, EngineCall(t) \/ EngineStep(t)
      PROVE  EngineInv'
  BY <1>1, EngineStepPreserves, LocksKept, AccountingKept DEF EngineInv, EngineTypeOK, CoreInv
<1>2. CASE UNCHANGED engineVars
  <2>1. CoreInv'
    BY <1>2, StutterKeepsCore DEF EngineInv
  <2>2. pc' \in [Threads -> EnginePCs] /\ LocksHeld'
    BY <1>2 DEF EngineInv, EngineTypeOK, LocksHeld, engineVars, lockVars
  <2>3. SyncAccounting'
    BY <1>2 DEF EngineInv, SyncAccounting, UnsyncedBounded, UnsyncedBytes,
                engineVars, diskVars, fileVars
  <2> QED
    BY <2>1, <2>2, <2>3 DEF EngineInv, EngineTypeOK, CoreInv
<1> QED
  BY <1>1, <1>2 DEF EngineNext

(* The inductive invariant holds of every behaviour of put, get, delete    *)
(* and sync.                                                               *)
THEOREM EngineInvariant == EngineSpec => []EngineInv
BY InitSatisfies, NextPreserves, PTL DEF EngineSpec

(* The state of the engine is always well typed.                           *)
THEOREM EngineTypeCorrect == EngineSpec => []EngineTypeOK
<1>1. EngineInv => EngineTypeOK
  BY DEF EngineInv
<1> QED
  BY <1>1, EngineInvariant, PTL

(* Whatever threads put, delete and rotate, an index entry of Engine::put  *)
(* always names a record of its own key in a file that get finds.          *)
THEOREM IndexAlwaysSound == EngineSpec => []IndexSound
<1>1. EngineInv => IndexSound
  BY DEF EngineInv, CoreInv
<1> QED
  BY <1>1, EngineInvariant, PTL

(* append_log_record never lets go of a file with unsynced bytes, so that  *)
(* Engine::sync, which syncs the active file only, makes all of the log    *)
(* durable.                                                                *)
THEOREM OlderFilesAlwaysDurable == EngineSpec => []OlderFilesDurable
<1>1. EngineInv => OlderFilesDurable
  BY DEF EngineInv, CoreInv
<1> QED
  BY <1>1, EngineInvariant, PTL

(* Whatever writes fail and whichever thread rotates or syncs in between,  *)
(* bytes_write covers every byte that a power failure can take; unless a   *)
(* sync fails that stays below bytes_per_sync, and is nothing with         *)
(* sync_writes.                                                            *)
THEOREM UnsyncedAlwaysBounded == EngineSpec => []UnsyncedBounded
<1>1. EngineInv => UnsyncedBounded
  BY DEF EngineInv, SyncAccounting
<1> QED
  BY <1>1, EngineInvariant, PTL
=============================================================================
