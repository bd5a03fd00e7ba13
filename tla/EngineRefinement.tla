-------------------------- MODULE EngineRefinement --------------------------
(***************************************************************************)
(* The running engine implements the map of KVStore, for every set of      *)
(* threads, keys and values, every option and every I/O failure: atomic    *)
(* with a BTree or a BPlusTree, with a gap before an overwritten key's new *)
(* value with a SkipList.                                                  *)
(***************************************************************************)
EXTENDS EngineProofs

(* After a step, what a position holds is what reading it returns          *)
(* (get_value_by_position).                                                *)
LEMMA HeldValueNext ==
  ASSUME LogWellFormed', NEW p, NEW k, NEW v, Holds(p, k, v)'
  PROVE  ValueAt(p)' = v
<1>1. PICK e \in disk' : PosOf(e) = p /\ e.val = v
  BY DEF Holds
<1>2. p.fid = e.fid /\ p.off = e.off
  BY <1>1 DEF PosOf, Pos
<1>3. /\ ReadLogRecord(disk', flen', p.fid, p.off).status = "ok"
      /\ ReadLogRecord(disk', flen', p.fid, p.off).entry = e
  BY <1>2, ReadReturns DEF LogWellFormed
<1> QED
  BY <1>1, <1>3 DEF ValueAt

(* So a position that names a record keeps its value.                      *)
LEMMA ValueKept ==
  ASSUME LogWellFormed, LogWellFormed', PositionsStable, NEW p, NEW k, Locates(p, k)
  PROVE  ValueAt(p)' = ValueAt(p) /\ ValueAt(p) \in Values
<1>1. PICK v \in Values : Holds(p, k, v)
  BY DEF Locates
<1>2. Holds(p, k, v)'
  BY <1>1 DEF PositionsStable
<1>3. ValueAt(p) = v /\ ValueAt(p)' = v
  BY <1>1, <1>2, HeldValue, HeldValueNext
<1> QED
  BY <1>1, <1>3

(* The map does not change while the index does not.                       *)
LEMMA ContentsKept ==
  ASSUME EngineInv, EngineInv', PositionsStable, UNCHANGED index
  PROVE  Contents' = Contents
<1>1. ASSUME NEW k \in Keys, index[k] # NoPos
      PROVE  \A p : p = index[k] => ValueAt(p)' = ValueAt(p)
  <2>1. Locates(index[k], k)
    BY <1>1 DEF EngineInv, CoreInv, IndexSound
  <2> QED
    BY <2>1, ValueKept DEF EngineInv, CoreInv
<1>2. ASSUME NEW k \in Keys
      PROVE  Contents'[k] = Contents[k]
  BY <1>1 DEF Contents, ValueAt
<1> QED
  BY <1>2 DEF Contents

(* A step of thread t leaves the calls and answers of the others alone.    *)
LEMMA OthersKept ==
  ASSUME EngineInv, EngineInv', PositionsStable, NEW t \in Threads,
         NEW u \in Threads, u # t,
         pc'[u] = pc[u], rec'[u] = rec[u], pos'[u] = pos[u], got'[u] = got[u]
  PROVE  Asked'[u] = Asked[u] /\ Answers'[u] = Answers[u]
<1>1. Asked'[u] = Asked[u]
  BY DEF Asked
<1>2. CASE pc[u] \in {"get.lock", "get.read"}
  <2>1. PICK k \in Keys : Locates(pos[u], k)
    BY <1>2 DEF EngineInv, CoreInv, InFlightSound
  <2>2. \A p : p = pos[u] => ValueAt(p)' = ValueAt(p)
    BY <2>1, ValueKept DEF EngineInv, CoreInv
  <2>3. Answers[u] = ValueAt(pos[u]) /\ Answers'[u] = ValueAt(pos[u])'
    BY <1>2 DEF Answers
  <2> QED
    BY <1>1, <2>2, <2>3 DEF ValueAt
<1>3. CASE pc[u] \notin {"get.lock", "get.read"}
  BY <1>1, <1>3 DEF Answers
<1> QED
  BY <1>2, <1>3

(* The state of the other threads, which a step of thread t never touches. *)
OthersUnchanged(t) ==
  \A u \in Threads : u # t =>
    pc'[u] = pc[u] /\ rec'[u] = rec[u] /\ pos'[u] = pos[u] /\ got'[u] = got[u]

(* What a step of thread t does to the calls and answers.                  *)
LEMMA MappedStep ==
  ASSUME EngineInv, EngineInv', PositionsStable, NEW t \in Threads, OthersUnchanged(t)
  PROVE  /\ Asked' = [Asked EXCEPT ![t] = Asked'[t]]
         /\ Answers' = [Answers EXCEPT ![t] = Answers'[t]]
<1>1. \A u \in Threads : u # t => Asked'[u] = Asked[u] /\ Answers'[u] = Answers[u]
  BY OthersKept DEF OthersUnchanged
<1>2. /\ Asked = [u \in Threads |-> Asked[u]] /\ Asked' = [u \in Threads |-> Asked'[u]]
      /\ Answers = [u \in Threads |-> Answers[u]] /\ Answers' = [u \in Threads |-> Answers'[u]]
  BY DEF Asked, Answers
<1> HIDE DEF Asked, Answers
<1> QED
  BY <1>1, <1>2

(* A step that changes neither the map nor what thread t has asked for or  *)
(* been told is invisible.                                                 *)
LEMMA InvisibleStep ==
  ASSUME EngineInv, EngineInv', PositionsStable, UNCHANGED index,
         NEW t \in Threads, OthersUnchanged(t),
         Asked'[t] = Asked[t], Answers'[t] = Answers[t]
  PROVE  UNCHANGED KV!kvVars
<1>1. Contents' = Contents
  BY ContentsKept
<1>2. /\ Asked' = [Asked EXCEPT ![t] = Asked'[t]]
      /\ Answers' = [Answers EXCEPT ![t] = Answers'[t]]
  BY MappedStep
<1>3. Asked = [u \in Threads |-> Asked[u]] /\ Answers = [u \in Threads |-> Answers[u]]
  BY DEF Asked, Answers
<1>4. Asked' = Asked /\ Answers' = Answers
  BY <1>2, <1>3
<1> QED
  BY <1>1, <1>4 DEF KV!kvVars

(* Calling put or delete asks for a write.                                 *)
LEMMA CallRefines ==
  ASSUME EngineInv, EngineInv', NEW t \in Threads, NEW k \in Keys, NEW v \in Values,
         PutStart(t, k, v) \/ DeleteStart(t, k)
  PROVE  KV!KVNext
<1>1. PositionsStable /\ UNCHANGED index /\ OthersUnchanged(t)
  BY QuietStep DEF EngineInv, CoreInv, CoreTypeOK, PutStart, DeleteStart, Goto, OthersUnchanged, indexVars
<1>2. Contents' = Contents
  BY <1>1, ContentsKept
<1>3. /\ Asked' = [Asked EXCEPT ![t] = Asked'[t]]
      /\ Answers' = [Answers EXCEPT ![t] = Answers'[t]]
  BY <1>1, MappedStep
<1>4. pc[t] = "idle" /\ got[t] = "none" /\ got' = got
  BY DEF EngineInv, CoreInv, InFlightSound, PutStart, DeleteStart, Goto
<1>5. pc'[t] \in {"put.lock", "del.lock"}
  BY DEF EngineInv, CoreInv, CoreTypeOK, PutStart, DeleteStart, Goto
<1>6. Asked[t] = KV!NoCall /\ Answers[t] = "none" /\ Answers'[t] = "none"
  BY <1>4, <1>5 DEF Asked, Answers, WritePCs, KV!NoCall, KV!Write
<1>7. PICK w \in Values \cup {"KeyNotFound"} : Asked'[t] = KV!Write(k, w)
  <2>1. CASE PutStart(t, k, v)
    <3>1. rec'[t].key = k /\ rec'[t].val = v /\ rec'[t].type = "Normal"
      BY <2>1 DEF EngineInv, CoreInv, CoreTypeOK, PutStart, Rec
    <3> QED
      BY <1>5, <3>1 DEF Asked, WritePCs, Written, KV!Write
  <2>2. CASE DeleteStart(t, k)
    <3>1. rec'[t].key = k /\ rec'[t].type = "Delete"
      BY <2>2 DEF EngineInv, CoreInv, CoreTypeOK, DeleteStart, Rec
    <3> QED
      BY <1>5, <3>1 DEF Asked, WritePCs, Written, KV!Write
  <2> QED
    BY <2>1, <2>2
<1>8. Answers' = Answers
  <2>1. Answers = [u \in Threads |-> Answers[u]]
    BY DEF Answers
  <2> QED
    BY <1>3, <1>6, <2>1
<1>9. KV!KVCall(t, k, w)
  BY <1>2, <1>3, <1>6, <1>7, <1>8 DEF KV!KVCall
<1> QED
  BY <1>9 DEF KV!KVNext

(* Updating the index is where a put takes effect, with the value it was   *)
(* called with, and where a delete does.                                   *)
LEMMA IndexStepRefines ==
  ASSUME EngineInv, EngineInv', NEW t \in Threads,
         TreePut(t) \/ SkipListInsert(t) \/ DeleteIndex(t)
  PROVE  KV!KVNext
<1> DEFINE k == rec[t].key
<1>1. PositionsStable /\ OthersUnchanged(t)
  BY QuietStep
  DEF EngineInv, CoreInv, CoreTypeOK, TreePut, SkipListInsert, DeleteIndex, Goto, OthersUnchanged
<1>2. /\ Asked' = [Asked EXCEPT ![t] = Asked'[t]]
      /\ Answers' = [Answers EXCEPT ![t] = Answers'[t]]
  BY <1>1, MappedStep
<1>3. /\ pc[t] \in {"put.index", "put.insert", "del.index"} /\ pc'[t] = "idle"
      /\ got' = got /\ k \in Keys
  BY DEF EngineInv, CoreInv, CoreTypeOK, InFlightSound, TreePut, SkipListInsert, DeleteIndex, Goto
<1>4. /\ Asked[t] = [key |-> k, val |-> Written(rec[t]), begun |-> pc[t] = "put.insert"]
      /\ Asked'[t] = KV!NoCall
  BY <1>3 DEF Asked, WritePCs, KV!NoCall, KV!Write
<1>5. Asked[t] # KV!NoCall
  BY <1>3, <1>4, DataFileAssumption DEF KV!NoCall, KV!Write
<1>6. Answers' = Answers
  <2>1. Answers'[t] = Answers[t]
    BY <1>3 DEF Answers
  <2>2. Answers = [u \in Threads |-> Answers[u]]
    BY DEF Answers
  <2> QED
    BY <1>2, <2>1, <2>2
<1>7. ASSUME NEW j \in Keys, j # k
      PROVE  Contents'[j] = Contents[j]
  <2>1. index'[j] = index[j]
    BY <1>7 DEF EngineInv, CoreInv, CoreTypeOK, TreePut, SkipListInsert, DeleteIndex, IndexPut, IndexDelete
  <2>2. index[j] # NoPos => \A p : p = index[j] => ValueAt(p)' = ValueAt(p)
    BY <1>1, ValueKept DEF EngineInv, CoreInv, IndexSound
  <2> QED
    BY <2>1, <2>2 DEF Contents, ValueAt
<1>8. Contents'[k] = Written(rec[t])
  <2>1. CASE TreePut(t) \/ SkipListInsert(t)
    <3>1. /\ index'[k] = pos[t]
          /\ Holds(pos[t], k, rec[t].val)
          /\ Written(rec[t]) = rec[t].val
      BY <2>1, <1>3
      DEF EngineInv, CoreInv, CoreTypeOK, InFlightSound, TreePut, SkipListInsert, Goto, IndexPut, Written
    <3>2. pos[t] # NoPos
      <4>1. PICK e \in disk : PosOf(e) = pos[t]
        BY <3>1 DEF Holds
      <4>2. pos[t].fid \in FileIds
        BY <4>1 DEF PosOf, Pos, EngineInv, CoreInv, CoreTypeOK, Entries
      <4>3. NoPos.fid = -1
        BY DEF NoPos, Pos
      <4> QED
        BY <4>2, <4>3, DataFileAssumption DEF FileIds
    <3>3. \A p, v : p = pos[t] /\ v = rec[t].val => ValueAt(p)' = v
      BY <1>1, <3>1, HeldValueNext DEF EngineInv, CoreInv, PositionsStable
    <3> QED
      BY <1>3, <3>1, <3>2, <3>3 DEF Contents, ValueAt
  <2>2. CASE DeleteIndex(t)
    <3>1. index'[k] = NoPos /\ rec[t].type = "Delete"
      BY <2>2, <1>3 DEF EngineInv, CoreInv, CoreTypeOK, InFlightSound, DeleteIndex, IndexDelete, Goto
    <3> QED
      BY <1>3, <3>1 DEF Contents, Written
  <2> QED
    BY <2>1, <2>2
<1>9. Contents' = [Contents EXCEPT ![Asked[t].key] = Asked[t].val]
  <2>1. /\ Contents = [j \in Keys |-> Contents[j]]
        /\ Contents' = [j \in Keys |-> Contents'[j]]
    BY DEF Contents
  <2>2. Asked[t].key = k /\ Asked[t].val = Written(rec[t])
    BY <1>4
  <2> QED
    BY <1>3, <1>7, <1>8, <2>1, <2>2
<1>10. KV!KVApply(t)
  BY <1>2, <1>4, <1>5, <1>6, <1>9 DEF KV!KVApply
<1> QED
  BY <1>10 DEF KV!KVNext

(* An append that succeeds changes nothing yet; one that fails drops the   *)
(* call, whatever it has left in the files.                                *)
LEMMA WriteRefines ==
  ASSUME EngineInv, EngineInv', NEW t \in Threads, NEW out \in Outcomes,
         PutWrite(t, out) \/ DeleteWrite(t, out)
  PROVE  KV!KVNext \/ UNCHANGED KV!kvVars
<1>1. /\ AppendLogRecord(t, rec[t], out) /\ rec[t] \in LogRecord
      /\ pc[t] \in {"put.write", "del.write"}
      /\ rec' = IF out = "ok" THEN rec ELSE [rec EXCEPT ![t] = NoRec]
      /\ index' = index /\ got' = got
  BY DEF EngineInv, CoreInv, CoreTypeOK, PutWrite, DeleteWrite, Goto, indexVars
<1>2. /\ PositionsStable
      /\ \A u \in Threads : u # t => pos'[u] = pos[u]
  BY <1>1, AppendLocates DEF EngineInv, CoreInv
<1>3. OthersUnchanged(t)
  BY <1>1, <1>2 DEF OthersUnchanged, EngineInv, CoreInv, CoreTypeOK, PutWrite, DeleteWrite, Goto
<1>4. CASE out = "ok"
  <2>1. pc'[t] \in {"put.index", "del.index"} /\ rec' = rec
    BY <1>4 DEF EngineInv, CoreInv, CoreTypeOK, PutWrite, DeleteWrite, Goto
  <2>2. Asked'[t] = Asked[t] /\ Answers'[t] = Answers[t]
    BY <1>1, <2>1 DEF Asked, Answers, WritePCs
  <2> QED
    BY <1>1, <1>2, <1>3, <2>2, InvisibleStep
<1>5. CASE out # "ok"
  <2>1. pc'[t] = "idle"
    BY <1>5 DEF EngineInv, CoreInv, CoreTypeOK, PutWrite, DeleteWrite, Goto
  <2>2. /\ Asked[t] = [key |-> rec[t].key, val |-> Written(rec[t]), begun |-> FALSE]
        /\ Asked'[t] = KV!NoCall
    BY <1>1, <2>1 DEF Asked, WritePCs, KV!NoCall, KV!Write
  <2>3. Asked[t] # KV!NoCall
    <3>1. rec[t].key \in Keys
      BY <1>1 DEF EngineInv, CoreInv, InFlightSound
    <3> QED
      BY <2>2, <3>1, DataFileAssumption DEF KV!NoCall, KV!Write
  <2>4. /\ Asked' = [Asked EXCEPT ![t] = Asked'[t]]
        /\ Answers' = [Answers EXCEPT ![t] = Answers'[t]]
    BY <1>2, <1>3, MappedStep
  <2>5. Answers' = Answers
    <3>1. Answers'[t] = Answers[t] /\ Answers = [u \in Threads |-> Answers[u]]
      BY <1>1, <2>1 DEF Answers
    <3> QED
      BY <2>4, <3>1
  <2>6. Contents' = Contents
    BY <1>1, <1>2, ContentsKept
  <2>7. Outcomes # {"ok"}
    BY <1>5
  <2>8. KV!KVFail(t)
    BY <2>2, <2>3, <2>4, <2>5, <2>6, <2>7 DEF KV!KVFail
  <2> QED
    BY <2>8 DEF KV!KVNext
<1> QED
  BY <1>4, <1>5

(* Once a put has looked the old entry up in the SkipList it can no longer *)
(* fail, and the old entry may go before the new one comes.                *)
LEMMA SkipListRefines ==
  ASSUME EngineInv, EngineInv', NEW t \in Threads, PutInTwoSteps,
         SkipListGet(t) \/ SkipListRemove(t)
  PROVE  KV!KVNext
<1> DEFINE k == rec[t].key
<1>1. /\ PositionsStable /\ OthersUnchanged(t)
      /\ rec' = rec /\ pos' = pos /\ got' = got
  BY QuietStep
  DEF EngineInv, CoreInv, CoreTypeOK, SkipListGet, SkipListRemove, Goto, OthersUnchanged,
      threadVars
<1>2. /\ Asked' = [Asked EXCEPT ![t] = Asked'[t]]
      /\ Answers' = [Answers EXCEPT ![t] = Answers'[t]]
  BY <1>1, MappedStep
<1>3. /\ pc[t] \in {"put.index", "put.insert"} /\ pc'[t] = "put.insert"
      /\ k \in Keys /\ rec[t].type = "Normal" /\ rec[t].val \in Values
  BY DEF EngineInv, CoreInv, CoreTypeOK, InFlightSound, LogRecord, SkipListGet, SkipListRemove,
         Goto
<1>4. /\ Asked[t] = [key |-> k, val |-> rec[t].val, begun |-> pc[t] = "put.insert"]
      /\ Asked'[t] = [key |-> k, val |-> rec[t].val, begun |-> TRUE]
  BY <1>1, <1>3 DEF Asked, WritePCs, Written
<1>5. Answers' = Answers
  <2>1. Answers'[t] = Answers[t] /\ Answers = [u \in Threads |-> Answers[u]]
    BY <1>1, <1>3 DEF Answers
  <2> QED
    BY <1>2, <2>1
<1>6. CASE SkipListGet(t)
  <2>1. Contents' = Contents
    BY <1>1, <1>6, ContentsKept DEF SkipListGet, indexVars
  <2>2. Asked[t] # KV!NoCall /\ Asked[t].val # "KeyNotFound"
    BY <1>3, <1>4, DataFileAssumption DEF KV!NoCall, KV!Write
  <2>3. Asked'[t] = KV!Begun(Asked[t])
    BY <1>4 DEF KV!Begun
  <2>4. KV!KVBegin(t)
    BY <1>2, <1>5, <2>1, <2>2, <2>3 DEF KV!KVBegin
  <2> QED
    BY <2>4 DEF KV!KVNext
<1>7. CASE SkipListRemove(t)
  <2>1. pc[t] = "put.insert" /\ index' = [index EXCEPT ![k] = NoPos]
    BY <1>7 DEF SkipListRemove
  <2>2. ASSUME NEW j \in Keys, j # k
        PROVE  Contents'[j] = Contents[j]
    <3>1. index'[j] = index[j]
      BY <2>1, <2>2 DEF EngineInv, CoreInv, CoreTypeOK
    <3>2. index[j] # NoPos => \A p : p = index[j] => ValueAt(p)' = ValueAt(p)
      BY <1>1, ValueKept DEF EngineInv, CoreInv, IndexSound
    <3> QED
      BY <3>1, <3>2 DEF Contents, ValueAt
  <2>3. Contents'[k] = "KeyNotFound"
    BY <1>3, <2>1 DEF Contents, EngineInv, CoreInv, CoreTypeOK
  <2>4. /\ Contents = [j \in Keys |-> Contents[j]]
        /\ Contents' = [j \in Keys |-> Contents'[j]]
    BY DEF Contents
  <2>5. Asked[t].key = k /\ Asked[t].begun = TRUE
    <3>1. (pc[t] = "put.insert") = TRUE
      BY <2>1
    <3>2. Asked[t] = [key |-> k, val |-> rec[t].val, begun |-> TRUE]
      BY <1>4, <3>1
    <3> QED
      BY <3>2
  <2>6. Asked' = Asked
    <3>1. Asked'[t] = Asked[t] /\ Asked = [u \in Threads |-> Asked[u]]
      BY <1>1, <1>3, <2>1 DEF Asked
    <3> QED
      BY <1>2, <3>1
  <2>7. Contents' = [Contents EXCEPT ![Asked[t].key] = "KeyNotFound"]
    BY <1>3, <2>2, <2>3, <2>4, <2>5
  <2>8. KV!KVRemove(t)
    BY <1>5, <2>5, <2>6, <2>7 DEF KV!KVRemove
  <2> QED
    BY <2>8 DEF KV!KVNext
<1> QED
  BY <1>6, <1>7

(* Consulting the index answers a get; reading the file delivers that very *)
(* answer, however the files have been rotated meanwhile, or an error.     *)
LEMMA GetRefines ==
  ASSUME EngineInv, EngineInv', NEW t \in Threads,
         \/ \E k \in Keys : GetStart(t, k)
         \/ GetLock(t)
         \/ \E out \in ReadOutcomes : GetRead(t, out)
         \/ GetReturn(t)
  PROVE  KV!KVNext \/ UNCHANGED KV!kvVars
<1>1. /\ PositionsStable /\ index' = index /\ rec' = rec /\ OthersUnchanged(t)
  BY QuietStep
  DEF EngineInv, CoreInv, CoreTypeOK, GetStart, GetLock, GetRead, GetReturn, Goto,
      OthersUnchanged, indexVars, threadVars
<1>2. Contents' = Contents
  BY <1>1, ContentsKept
<1>3. /\ Asked' = [Asked EXCEPT ![t] = Asked'[t]]
      /\ Answers' = [Answers EXCEPT ![t] = Answers'[t]]
  BY <1>1, MappedStep
<1>4. /\ pc[t] \notin WritePCs /\ pc'[t] \notin WritePCs
      /\ Asked[t] = KV!NoCall /\ Asked'[t] = Asked[t]
  BY DEF EngineInv, CoreInv, CoreTypeOK, GetStart, GetLock, GetRead, GetReturn, Goto,
         WritePCs, Asked, KV!NoCall, KV!Write
<1>5. Asked' = Asked
  <2>1. Asked = [u \in Threads |-> Asked[u]]
    BY DEF Asked
  <2> QED
    BY <1>3, <1>4, <2>1
<1>6. ASSUME NEW k \in Keys, GetStart(t, k)
      PROVE  KV!KVNext
  <2>1. Answers[t] = "none"
    BY <1>6 DEF Answers, EngineInv, CoreInv, InFlightSound, GetStart, Goto
  <2>2. Answers'[t] = Contents[k]
    <3>1. CASE index[k] = NoPos
      BY <1>6, <3>1 DEF Answers, Contents, EngineInv, CoreInv, CoreTypeOK, GetStart, Goto
    <3>2. CASE index[k] # NoPos
      <4>1. pc'[t] = "get.lock" /\ pos'[t] = index[k]
        BY <1>6, <3>2 DEF EngineInv, CoreInv, CoreTypeOK, GetStart, Goto
      <4>2. \A p : p = index[k] => ValueAt(p)' = ValueAt(p)
        BY <1>1, <3>2, ValueKept DEF EngineInv, CoreInv, IndexSound
      <4> QED
        BY <3>2, <4>1, <4>2 DEF Answers, Contents, ValueAt
    <3> QED
      BY <3>1, <3>2
  <2>3. KV!KVGet(t, k)
    BY <1>2, <1>3, <1>4, <1>5, <2>1, <2>2 DEF KV!KVGet
  <2> QED
    BY <2>3 DEF KV!KVNext
<1>7. CASE GetLock(t)
  <2>1. PICK k \in Keys : Locates(pos[t], k)
    BY <1>7 DEF EngineInv, CoreInv, InFlightSound, GetLock, Goto
  <2>2. \A p : p = pos[t] => ValueAt(p)' = ValueAt(p)
    BY <1>1, <2>1, ValueKept DEF EngineInv, CoreInv
  <2>3. pc[t] = "get.lock" /\ pc'[t] = "get.read" /\ pos'[t] = pos[t]
    BY <1>7 DEF EngineInv, CoreInv, CoreTypeOK, GetLock, Goto, threadVars
  <2>4. Answers'[t] = Answers[t]
    BY <2>2, <2>3 DEF Answers, ValueAt
  <2> QED
    BY <1>1, <1>4, <2>4, InvisibleStep
<1>8. ASSUME NEW out \in ReadOutcomes, GetRead(t, out)
      PROVE  KV!KVNext \/ UNCHANGED KV!kvVars
  <2>1. PICK k \in Keys : Locates(pos[t], k)
    BY <1>8 DEF EngineInv, CoreInv, InFlightSound, GetRead, Goto
  <2>2. /\ ValueAt(pos[t]) \in Values
        /\ GetValueByPosition(pos[t], out) = IF out = "read" THEN "Error" ELSE ValueAt(pos[t])
    BY <2>1, HeldValue DEF Locates, EngineInv, CoreInv
  <2>3. /\ pc[t] = "get.read" /\ pc'[t] = "get.done"
        /\ got'[t] = GetValueByPosition(pos[t], out)
    BY <1>8 DEF EngineInv, CoreInv, CoreTypeOK, GetRead, Goto
  <2>4. Answers[t] = ValueAt(pos[t]) /\ Answers'[t] = GetValueByPosition(pos[t], out)
    BY <2>3 DEF Answers
  <2>5. CASE out = "read"
    <3>1. "read" \in Failures
      BY <2>5 DEF ReadOutcomes
    <3>2. KV!KVGetFail(t)
      BY <1>2, <1>3, <1>5, <2>2, <2>4, <2>5, <3>1 DEF KV!KVGetFail
    <3> QED
      BY <3>2 DEF KV!KVNext
  <2>6. CASE out # "read"
    BY <1>1, <1>4, <2>2, <2>4, <2>6, InvisibleStep
  <2> QED
    BY <2>5, <2>6
<1>9. CASE GetReturn(t)
  <2>1. pc[t] = "get.done" /\ pc'[t] = "idle" /\ got'[t] = "none"
    BY <1>9 DEF EngineInv, CoreInv, CoreTypeOK, GetReturn, Goto
  <2>2. Answers'[t] = "none"
    BY <2>1 DEF Answers
  <2>3. CASE Answers[t] = "none"
    BY <1>1, <1>4, <2>2, <2>3, InvisibleStep
  <2>4. CASE Answers[t] # "none"
    <3>1. KV!KVReturn(t)
      BY <1>2, <1>3, <1>5, <2>2, <2>4 DEF KV!KVReturn
    <3> QED
      BY <3>1 DEF KV!KVNext
  <2> QED
    BY <2>3, <2>4
<1> QED
  BY <1>6, <1>7, <1>8, <1>9

(* Taking a lock and syncing are invisible.                                *)
LEMMA InternalStepRefines ==
  ASSUME EngineInv, EngineInv', NEW t \in Threads,
         PutLock(t) \/ DeleteLock(t) \/ Sync(t)
  PROVE  UNCHANGED KV!kvVars
<1>1. index' = index /\ rec' = rec /\ pos' = pos /\ got' = got /\ OthersUnchanged(t)
  BY DEF EngineInv, CoreInv, CoreTypeOK, PutLock, DeleteLock, Sync, Goto,
         OthersUnchanged, indexVars, threadVars
<1>2. PositionsStable
  BY GrowingFilesKeepPositions
  DEF PutLock, DeleteLock, Sync, diskVars, fileVars
<1>3. \/ pc'[t] = pc[t] /\ pc[t] = "idle"
      \/ /\ pc[t] \in WritePCs \ {"put.insert"}
         /\ pc'[t] \in WritePCs \ {"put.insert"}
  BY DEF EngineInv, CoreInv, CoreTypeOK, PutLock, DeleteLock, Sync, Goto, WritePCs
<1>4. Asked'[t] = Asked[t] /\ Answers'[t] = Answers[t]
  BY <1>1, <1>3 DEF Asked, Answers, WritePCs
<1> QED
  BY <1>1, <1>2, <1>4, InvisibleStep

(* An empty engine is an empty map.                                        *)
LEMMA InitRefines == EngineInit => KV!KVInit
<1> SUFFICES ASSUME EngineInit PROVE KV!KVInit
  OBVIOUS
<1>1. Contents = [k \in Keys |-> "KeyNotFound"]
  BY DEF EngineInit, Contents
<1>2. Asked = [t \in Threads |-> KV!NoCall] /\ Answers = [t \in Threads |-> "none"]
  BY DEF EngineInit, Asked, Answers, WritePCs, KV!NoCall, KV!Write
<1> QED
  BY <1>1, <1>2 DEF KV!KVInit

(* Every step of the engine is a step of the map or invisible.             *)
LEMMA NextRefines ==
  EngineInv /\ EngineInv' /\ [EngineNext]_engineVars => [KV!KVNext]_(KV!kvVars)
<1> SUFFICES ASSUME EngineInv, EngineInv', [EngineNext]_engineVars
             PROVE  KV!KVNext \/ UNCHANGED KV!kvVars
  OBVIOUS
<1>1. ASSUME NEW t \in Threads, EngineCall(t)
      PROVE  KV!KVNext \/ UNCHANGED KV!kvVars
  BY <1>1, CallRefines, GetRefines, InternalStepRefines, DataFileAssumption DEF EngineCall
<1>2. ASSUME NEW t \in Threads, EngineStep(t)
      PROVE  KV!KVNext \/ UNCHANGED KV!kvVars
  BY <1>2, WriteRefines, IndexStepRefines, SkipListRefines, GetRefines, InternalStepRefines
  DEF EngineStep, PutIndex, SkipListRemove
<1>3. CASE UNCHANGED engineVars
  BY <1>3 DEF engineVars, diskVars, fileVars, indexVars, lockVars, threadVars,
              KV!kvVars, Contents, Asked, Answers, ValueAt
<1> QED
  BY <1>1, <1>2, <1>3 DEF EngineNext

(* Engine::put, get and delete, with any number of threads, any options    *)
(* and any I/O failures, implement the map of KVStore: atomic with an      *)
(* index whose put is one step, with a gap before an overwritten key's new *)
(* value with the SkipList, and with an error for a get whose read fails.  *)
THEOREM EngineImplementsKVStore == EngineSpec => ImplementsKVStore
<1>1. EngineInit => KV!KVInit
  BY InitRefines
<1>2. EngineInv /\ EngineInv' /\ [EngineNext]_engineVars => [KV!KVNext]_(KV!kvVars)
  BY NextRefines
<1>3. EngineSpec => []EngineInv
  BY EngineInvariant
<1> QED
  BY <1>1, <1>2, <1>3, PTL DEF EngineSpec, ImplementsKVStore, KV!KVSpec
=============================================================================
