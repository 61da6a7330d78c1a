SPECIFICATION Spec
CONSTANTS
    MaxSeq = 4
    Copies = 1
    Threads = {t1}
    blucket_num_ = 3
    Epochs = {0}
INVARIANTS
    AssertsHold
CHECK_DEADLOCK FALSE
