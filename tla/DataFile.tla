------------------------------ MODULE DataFile ------------------------------
(***************************************************************************)
(* Log records, their positions, and the bytes of the data files           *)
(* (bitcask-rs/src/data, bitcask-rs/src/fio).                              *)
(*                                                                         *)
(* A data file is append-only, so its content is the set of the entries    *)
(* that were written to it, each with the byte offset at which it starts.  *)
(* A disk is a set of entries of all the files together with the length of *)
(* every file.  Key and value bytes are abstract; what matters of them is  *)
(* the length of the encoded record and what the key parser makes of them. *)
(***************************************************************************)
EXTENDS Integers, FiniteSets, FiniteSetsExt

CONSTANTS
  Keys,          \* the keys clients use (an empty key is refused up front)
  Values,        \* the values clients use
  EmptyValue,    \* the empty byte string, also the value of a tombstone
  TxnFinKey,     \* TXN_FIN_KEY, the key of the record that ends a batch
  HeaderSize,    \* bytes of a record other than its value
  ValueSize,     \* Values -> Nat, the length of a value
  RawParse,      \* Keys -> ParsedKey, what the key parser reads from the
                 \* bytes of a key that carries no sequence number in front
  MaxFileId      \* the largest file id (u32::MAX in the code)

NON_TRANSACTION_SEQ_NO == 0

(* The sequence-number field of a key that was written without one.        *)
RawSeq == -1

FileIds == 0..MaxFileId

RecordTypes == {"Normal", "Delete", "TxnFinished"}

(* A byte string that is not a key of any client.                          *)
OtherKey == "other"

ParsedKey == [ok : BOOLEAN, key : Keys \cup {TxnFinKey, OtherKey}, seq : Nat]

ASSUME DataFileAssumption ==
  /\ "none" \notin Keys
  /\ "KeyNotFound" \notin Values /\ "Error" \notin Values
  /\ EmptyValue \in Values
  /\ HeaderSize \in Nat \ {0}
  /\ ValueSize \in [Values -> Nat]
  /\ RawParse \in [Keys -> ParsedKey]
  /\ MaxFileId \in Nat

-----------------------------------------------------------------------------
(* LogRecord: what a caller hands to append_log_record.                    *)

LogRecord == [key : Keys \cup {TxnFinKey}, seq : Nat \cup {RawSeq},
              val : Values, type : RecordTypes]

Rec(k, s, v, ty) == [key |-> k, seq |-> s, val |-> v, type |-> ty]

(* encoded_length: type byte, two length delimiters, key, crc; and value.  *)
EncodedLength(r) == HeaderSize + ValueSize[r.val]

(* LogRecordPos: the index entry.  NoPos is "the key is not in the index". *)
Pos(fid, off, size) == [fid |-> fid, off |-> off, size |-> size]
NoPos == Pos(-1, 0, 0)
Positions == [fid : FileIds, off : Nat, size : Nat]

(* A record inside a data file.                                            *)
Entry(fid, off, r) ==
  [fid |-> fid, off |-> off, size |-> EncodedLength(r),
   key |-> r.key, seq |-> r.seq, val |-> r.val, type |-> r.type]

Entries == [fid : FileIds, off : Nat, size : Nat,
            key : Keys \cup {TxnFinKey}, seq : Nat \cup {RawSeq},
            val : Values, type : RecordTypes]

PosOf(e) == Pos(e.fid, e.off, e.size)
EndOf(e) == e.off + e.size

(* log_record_key_with_seq puts the sequence number in front of the key as *)
(* a varint, and parse_log_record_key takes it off again.  A key that was  *)
(* never given a prefix is parsed all the same: its first bytes are taken  *)
(* for the number.                                                         *)
ParseLogRecordKey(e) ==
  IF e.seq = RawSeq THEN RawParse[e.key]
                    ELSE [ok |-> TRUE, key |-> e.key, seq |-> e.seq]

-----------------------------------------------------------------------------
(* read_log_record(offset): the entry that starts there.  Past the end of  *)
(* the file the header buffer stays zeroed, and two lengths of 0 read as   *)
(* end of file, also when one last byte is left for the type.  Anywhere    *)
(* else the bytes are not the start of a record and the crc, a length or   *)
(* the type byte is wrong.                                                 *)
StartsAt(disk, fid, off) == {e \in disk : e.fid = fid /\ e.off = off}

ReadLogRecord(disk, len, fid, off) ==
  CASE StartsAt(disk, fid, off) # {} ->
         [status |-> "ok", entry |-> CHOOSE e \in StartsAt(disk, fid, off) : TRUE]
    [] StartsAt(disk, fid, off) = {} /\ off + 1 >= len[fid] -> [status |-> "eof"]
    [] OTHER -> [status |-> "corrupt"]

(* Bytes in a set of files.                                                *)
SizeOf(len, fids) == MapThenSumSet(LAMBDA f : len[f], fids)
=============================================================================
