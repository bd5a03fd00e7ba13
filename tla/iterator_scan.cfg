SPECIFICATION IterFairSpec
CONSTANTS
  k1 = k1
  k2 = k2
  v1 = v1
  Keys = {k1, k2}
  EmptyValue = EmptyValue
  Values <- MCValues
  ValueSize <- MCValueSize
  RawParse <- MCRawParse
  TxnFinKey = TxnFinKey
  HeaderSize = 1
  MaxFileId = 4
  Threads = {t1, t2}
  NoThread = NoThread
  DataFileSize = 4
  BytesPerSync = 4
  SyncWrites = FALSE
  PutInTwoSteps = TRUE
  Calls = {"put", "delete", "get"}
  Failures = {"read"}
  MaxRecords = 2
  KeyOrder <- MCKeyOrder
  IterOptions <- MCIterOptions
  MaxIters = 1
INVARIANTS IterInv IterTypeOK ItemsHold IterationFaithful
PROPERTIES CallsReturn ImplementsKVStore
