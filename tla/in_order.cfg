SPECIFICATION FairSpec
CONSTANTS
    MaxSeq = 4
    Copies = 2
    Threads = {t1, t2}
    blucket_num_ = 3
    Epochs = {}
INVARIANTS
    TypeOK
    AssertsHold
    OneBatchAtATime
PROPERTIES
    ImplementsLedger
CHECK_DEADLOCK FALSE
