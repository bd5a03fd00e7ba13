SPECIFICATION RestartSpec
CONSTANTS
  k1 = k1
  k2 = k2
  v1 = v1
  Keys = {k1, k2}
  EmptyValue = EmptyValue
  Values <- MCValues
  ValueSize <- MCValueSize
  RawParse <- MCRawParse
  TxnFinKey = TxnFinKey
  HeaderSize = 2
  MaxFileId = 6
  Threads = {t1}
  NoThread = NoThread
  DataFileSize = 100
  BytesPerSync = 0
  SyncWrites = FALSE
  PutInTwoSteps = FALSE
  Calls = {"put", "delete", "sync"}
  Failures = {}
  MaxRecords = 3
  BatchSyncWrites = TRUE
  MaxBatchNum = 2
  MaxBatches = 4
  MergeRatio = 0
  MaxMerges = 0
  MmapAtStartup = TRUE
  MaxHeader = 2
  CrashPoints = {}
  IndexTypes = {"BTree"}
  PowerFailures = {}
  TornByte = FALSE
  MaxOpens = 1
PROPERTY RecoveryAtomic
