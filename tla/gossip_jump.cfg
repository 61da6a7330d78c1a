SPECIFICATION Spec
CONSTANTS
    MaxSeq = 3
    Copies = 2
    Threads = {t1, t2}
    blucket_num_ = 3
    Epochs = {0}
INVARIANTS
    DeliveredOnce
CHECK_DEADLOCK FALSE
