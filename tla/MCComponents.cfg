CONSTANTS
    WorkerCallers = {w1, w2}
    MaxWorkerCalls = 5
    WorkerCallsOverlap = FALSE
    TimerThreads = {t1, t2}
    Destroyers = {t1, t2, "handler"}
    MaxTimerCalls = 3
    Producers = {p1, p2}
    Consumers = {c1, c2}
    MaxPushes = 3
    MaxBlockNumber = 1
    InitialBlocks = 1
    CommitsOverlap = FALSE
    MaxRetryTime = 1
    MaxLedgerErrors = 1
    MaxFetches = 2
    NonceOffset = 2
    BatchSize = 3
    Subscribers = {s1, s2, s3}
    Txs = {x1, x2}
    Receipts = {r1}
    FieldValues = {0, 1}
    MaxBlockCalls = 6
    EntryObjects = {e1, e2}
    EntryValues <- EntryTexts
    SmallSize = 2
    MediumSize = 3
    MaxEntryCalls = 5
    TableCallers = {a1, a2}
    TableNames = {"table"}
    ValueFields = {f1, f2}
    MaxTableCalls = 6
    SizeModulus = 1073741824
    Uint32Modulus = 536870912
    AlNumTexts = {"", "chain", "c1", "n1", "node0", "app", "rpc", "gateway"}
SPECIFICATION Spec
CHECK_DEADLOCK FALSE
INVARIANTS StopIsQuiet NumberHasBlock FetchedBlockIsReal
    RegistrationsMatch NotifiedOnceAlive HeaderCachesFresh BlockReadsBack EntryReadsBack SchemaIsStable
    ScaleRoundTrip ScalePrefixFails TextRoundTrip FixedBytesNumeric AbiRoundTrip AbiTypesParse
    PopulateCopies AmopRoundTrip MerkleProofReachesRoot LoadForgetsHistory
PROPERTIES WorkerCallsReturn DestroyReturns NoStrandedElement FetchSurvivesErrors BatchCallsBack
