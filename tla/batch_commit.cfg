SPECIFICATION BatchSpec
CONSTANTS
  k1 = k1
  k2 = k2
  v1 = v1
  Keys = {k1, k2}
  EmptyValue = EmptyValue
  Values <- MCValues
  ValueSize <- MCValueSize
  RawParse <- MCRawParse
  TxnFinKey = TxnFinKey
  HeaderSize = 1
  MaxFileId = 6
  Threads = {t1, t2}
  NoThread = NoThread
  DataFileSize = 4
  BytesPerSync = 0
  SyncWrites = FALSE
  PutInTwoSteps = FALSE
  Calls = {"put", "sync", "batch"}
  Failures = {"rotate", "create", "write", "sync", "read"}
  MaxRecords = 3
  BatchSyncWrites = TRUE
  MaxBatchNum = 2
  MaxBatches = 2
SYMMETRY ThreadSymmetry
INVARIANTS BatchInv BatchTypeOK BatchSealed IndexedBatchesSealed SealedBatchDurable BatchesSerial IndexSound
